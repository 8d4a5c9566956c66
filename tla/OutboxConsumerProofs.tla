-------------------------- MODULE OutboxConsumerProofs --------------------------
(***************************************************************************)
(* What the proofs about the consumers of the outbox share: what a step of *)
(* the reports does to the events and to what is visible, and what taking, *)
(* stamping and dropping events does to a queue and its workers.           *)
(***************************************************************************)
EXTENDS OutboxConsumer, TLAPS

-----------------------------------------------------------------------------
(* Batches of events.                                                      *)

Batch == [Reports -> Seq(Event)]

\* The entries of one report's step form a batch, about no other report.
LEMMA OnIsBatch ==
  ASSUME NEW r \in Reports, NEW entries \in Seq(Event)
  PROVE  /\ On(r, entries) \in Batch
         /\ On(r, entries)[r] = entries
         /\ \A x \in Reports \ {r} : 1 .. Len(On(r, entries)[x]) = {}
<1>1. On(r, entries) \in Batch /\ On(r, entries)[r] = entries
  BY DEF On, Batch
<1>2. \A x \in Reports \ {r} : On(r, entries)[x] = << >>
  BY DEF On
<1>3. 1 .. Len(<< >>) = {}
  OBVIOUS
<1> QED
  BY <1>1, <1>2, <1>3

\* An entry about a cell is an event.
LEMMA EntryIsEvent ==
  ASSUME NEW op \in Ops, NEW c \in Cells
  PROVE  /\ Entry(op, c) \in Event
         /\ Entry(op, c).op = op
         /\ Entry(op, c).cell = c
BY DEF Entry, Event

\* Event identifiers are pairs.
LEMMA EventIdsArePairs ==
  ASSUME NEW e \in EventIds
  PROVE  /\ e = <<e[1], e[2]>>
         /\ e[1] \in Reports
         /\ e[2] \in 1 .. MaxLog
         /\ e[2] \in Nat
BY MaxLogAssumption DEF EventIds

\* What is pending was committed.
LEMMA PendingIsCommitted ==
  ASSUME OutboxTypeOK, NEW k \in Consumers
  PROVE  pending[k] \subseteq Committed
BY DEF OutboxTypeOK, Committed

\* A committed event is a row of the table.
LEMMA CommittedHasRow ==
  ASSUME OutboxTypeOK, NEW e \in Committed
  PROVE  e \in EventIds /\ EventOf(e) \in Event
<1>1. e \in EventIds /\ e[2] <= Len(log[e[1]])
  BY DEF Committed
<1>2. e[1] \in Reports /\ e[2] \in Nat /\ e[2] >= 1
  BY <1>1, EventIdsArePairs, MaxLogAssumption
<1>3. log[e[1]] \in Seq(Event)
  BY <1>2 DEF OutboxTypeOK
<1> QED
  BY <1>1, <1>2, <1>3 DEF EventOf

\* What appending does.
LEMMA AppendedParts ==
  ASSUME NEW s \in Seq(Event), NEW t \in Seq(Event)
  PROVE  /\ s \o t \in Seq(Event)
         /\ Len(s) \in Nat /\ Len(t) \in Nat
         /\ Len(s \o t) = Len(s) + Len(t)
         /\ \A n \in 1 .. Len(s) : (s \o t)[n] = s[n]
         /\ \A n \in 1 .. Len(t) : (s \o t)[Len(s) + n] = t[n]
OBVIOUS

\* The log of a report after a batch: its old events, then the new ones.
LEMMA EmitAppends ==
  ASSUME OutboxTypeOK, NEW es \in Batch, EmitReportEvent(es), NEW r \in Reports
  PROVE  /\ log'[r] \in Seq(Event)
         /\ Len(log[r]) \in Nat /\ Len(es[r]) \in Nat
         /\ Len(log'[r]) = Len(log[r]) + Len(es[r])
         /\ Len(log[r]) + Len(es[r]) <= MaxLog
         /\ \A n \in 1 .. Len(log[r]) : log'[r][n] = log[r][n]
         /\ \A n \in 1 .. Len(es[r]) : log'[r][Len(log[r]) + n] = es[r][n]
<1>1. PICK s \in Seq(Event), t \in Seq(Event) : s = log[r] /\ t = es[r]
  BY DEF OutboxTypeOK, Batch
<1>2. log'[r] = s \o t /\ Len(s) + Len(t) <= MaxLog
  BY <1>1 DEF EmitReportEvent
<1>3. /\ s \o t \in Seq(Event)
      /\ Len(s) \in Nat /\ Len(t) \in Nat
      /\ Len(s \o t) = Len(s) + Len(t)
      /\ \A n \in 1 .. Len(s) : (s \o t)[n] = s[n]
      /\ \A n \in 1 .. Len(t) : (s \o t)[Len(s) + n] = t[n]
  BY AppendedParts
<1> QED
  BY <1>1, <1>2, <1>3, Zenon

\* A batch keeps the events there were, with what they say, and adds its own,
\* which every consumer then owes.
LEMMA EmitAddsEvents ==
  ASSUME OutboxTypeOK, NEW es \in Batch, EmitReportEvent(es)
  PROVE  /\ OutboxTypeOK'
         /\ Committed \subseteq Committed'
         /\ \A e \in Committed : EventOf(e)' = EventOf(e)
         /\ \A k \in Consumers :
              /\ pending[k] \subseteq pending'[k]
              /\ \A e \in pending'[k] : e \in pending[k] \/ e \notin Committed
         /\ \A r \in Reports : \A n \in 1 .. Len(es[r]) :
              \E e \in EventIds \ Committed :
                /\ e[1] = r
                /\ EventOf(e)' = es[r][n]
                /\ \A k \in Consumers : e \in pending'[k]
<1> DEFINE old(r) == Len(log[r])
           new(r) == Len(log'[r])
           more(r) == Len(es[r])
<1>1. \A r \in Reports :
        /\ old(r) \in Nat /\ more(r) \in Nat
        /\ new(r) = old(r) + more(r)
        /\ new(r) <= MaxLog
  BY EmitAppends
<1>2. /\ \A r \in Reports : \A n \in 1 .. old(r) : log'[r][n] = log[r][n]
      /\ \A r \in Reports : \A n \in 1 .. more(r) : log'[r][old(r) + n] = es[r][n]
  BY EmitAppends
<1>3. /\ log' = [r \in Reports |-> log[r] \o es[r]]
      /\ \A k \in Consumers : pending'[k] =
           pending[k] \cup {e \in EventIds : /\ e[2] > old(e[1])
                                             /\ e[2] <= old(e[1]) + more(e[1])}
  BY DEF EmitReportEvent
<1>4. log' \in [Reports -> Seq(Event)]
  BY <1>3, EmitAppends
<1>5. pending' \in [Consumers -> SUBSET EventIds]
  BY DEF OutboxTypeOK, EmitReportEvent
<1>6. /\ Committed = {e \in EventIds : e[2] <= old(e[1])}
      /\ Committed' = {e \in EventIds : e[2] <= new(e[1])}
  BY DEF Committed
<1>7. \A k \in Consumers : \A e \in pending[k] : e \in EventIds /\ e[2] <= old(e[1])
  BY DEF OutboxTypeOK
<1>8. \A e : EventOf(e) = log[e[1]][e[2]] /\ EventOf(e)' = log'[e[1]][e[2]]
  BY DEF EventOf
<1> HIDE DEF old, new, more
<1>9. ASSUME NEW e \in Committed
      PROVE  e \in Committed' /\ EventOf(e)' = EventOf(e)
  <2>1. e \in EventIds /\ e[1] \in Reports /\ e[2] \in Nat /\ e[2] >= 1
    BY <1>6, EventIdsArePairs
  <2>2. e[2] <= old(e[1])
    BY <1>6
  <2>3. e[2] <= new(e[1])
    BY <1>1, <2>1, <2>2
  <2>4. log'[e[1]][e[2]] = log[e[1]][e[2]]
    BY <1>1, <1>2, <2>1, <2>2
  <2> QED
    BY <1>6, <1>8, <2>1, <2>3, <2>4
<1>10. ASSUME NEW k \in Consumers, NEW e \in pending'[k]
       PROVE  /\ e[2] <= Len(log'[e[1]])
              /\ e \in pending[k] \/ e \notin Committed
  <2>1. e \in EventIds /\ e[1] \in Reports /\ e[2] \in Nat
    BY <1>5, EventIdsArePairs
  <2>2. \/ e \in pending[k] /\ e[2] <= old(e[1])
        \/ e[2] > old(e[1]) /\ e[2] <= old(e[1]) + more(e[1])
    BY <1>3, <1>7
  <2>3. e[2] <= new(e[1])
    BY <1>1, <2>1, <2>2
  <2>4. e \in pending[k] \/ e \notin Committed
    BY <1>1, <1>6, <2>1, <2>2
  <2> QED
    BY <2>3, <2>4 DEF new
<1>11. ASSUME NEW r \in Reports, NEW n \in 1 .. Len(es[r])
       PROVE  \E e \in EventIds \ Committed :
                /\ e[1] = r
                /\ EventOf(e)' = es[r][n]
                /\ \A k \in Consumers : e \in pending'[k]
  <2>1. n \in 1 .. more(r)
    BY DEF more
  <2>2. PICK m \in 1 .. MaxLog : m = old(r) + n /\ m > old(r) /\ m <= old(r) + more(r)
    BY <1>1, <2>1, MaxLogAssumption
  <2>3. PICK e \in EventIds : e = <<r, m>>
    BY DEF EventIds
  <2>4. e[1] = r /\ e[2] = m
    BY <2>3
  <2>5. EventOf(e)' = es[r][n]
    BY <1>2, <1>8, <2>1, <2>2, <2>4
  <2>6. e \notin Committed
    BY <1>1, <1>6, <2>2, <2>4
  <2>7. \A k \in Consumers : e \in pending'[k]
    BY <1>3, <2>2, <2>4
  <2> QED
    BY <2>4, <2>5, <2>6, <2>7
<1>12. OutboxTypeOK'
  BY <1>4, <1>5, <1>10 DEF OutboxTypeOK
<1>13. Committed \subseteq Committed' /\ \A e \in Committed : EventOf(e)' = EventOf(e)
  BY <1>9
<1>14. \A k \in Consumers : pending[k] \subseteq pending'[k]
  BY <1>3
<1> QED
  BY <1>10, <1>11, <1>12, <1>13, <1>14

\* A report has ended after a batch if it had before, or the batch ends it.
LEMMA EmitEnds ==
  ASSUME OutboxTypeOK, NEW es \in Batch, EmitReportEvent(es), NEW r \in Reports
  PROVE  Ended(r)' <=> \/ Ended(r)
                       \/ \E n \in 1 .. Len(es[r]) : es[r][n].op = "deleted"
<1>1. PICK before \in Nat, more \in Nat :
        /\ before = Len(log[r]) /\ more = Len(es[r])
        /\ Len(log'[r]) = before + more
  BY EmitAppends
<1>2. /\ \A n \in 1 .. before : log'[r][n] = log[r][n]
      /\ \A n \in 1 .. more : log'[r][before + n] = es[r][n]
  BY <1>1, EmitAppends
<1>3. /\ Ended(r) <=> \E n \in 1 .. before : log[r][n].op = "deleted"
      /\ Ended(r)' <=> \E n \in 1 .. before + more : log'[r][n].op = "deleted"
  BY <1>1 DEF Ended
<1>4. ASSUME NEW n \in 1 .. before + more, log'[r][n].op = "deleted"
      PROVE  \/ \E m \in 1 .. before : log[r][m].op = "deleted"
             \/ \E m \in 1 .. more : es[r][m].op = "deleted"
  <2>1. CASE n <= before
    BY <1>2, <1>4, <2>1
  <2>2. CASE n > before
    <3>1. PICK m \in 1 .. more : n = before + m
      <4>1. n - before \in 1 .. more /\ n = before + (n - before)
        BY <2>2
      <4> QED
        BY <4>1
    <3> QED
      BY <1>2, <1>4, <3>1
  <2> QED
    BY <2>1, <2>2
<1>5. ASSUME NEW n \in 1 .. before, log[r][n].op = "deleted"
      PROVE  Ended(r)'
  BY <1>2, <1>3, <1>5
<1>6. ASSUME NEW n \in 1 .. more, es[r][n].op = "deleted"
      PROVE  Ended(r)'
  <2>1. before + n \in 1 .. before + more
    OBVIOUS
  <2> QED
    BY <1>2, <1>3, <1>6, <2>1
<1> QED
  BY <1>1, <1>3, <1>4, <1>5, <1>6

-----------------------------------------------------------------------------
(* What the consumer learns of a step of the reports.                      *)

\* The step leaves the consumer a new event of report r about cell c.
Told(r, c) ==
  \E e \in EventIds \ Committed :
    /\ e[1] = r
    /\ e \in pending'[Mine]
    /\ EventOf(e)'.cell = c

\* Every entry of a batch is a new event.
LEMMA EmitTells ==
  ASSUME OutboxTypeOK, NEW es \in Batch, EmitReportEvent(es),
         NEW r \in Reports, NEW n \in 1 .. Len(es[r])
  PROVE  Told(r, es[r][n].cell)
BY EmitAddsEvents, MineAssumption DEF Told

\* The events of an edit name the cell written and the cell vacated, and delete
\* nothing.
LEMMA EditEntriesFacts ==
  ASSUME NEW old \in Cells, NEW new \in Cells
  PROVE  /\ EditEntries(old, new) \in Seq(Event)
         /\ \E n \in 1 .. Len(EditEntries(old, new)) : EditEntries(old, new)[n].cell = old
         /\ \E n \in 1 .. Len(EditEntries(old, new)) : EditEntries(old, new)[n].cell = new
         /\ \A n \in 1 .. Len(EditEntries(old, new)) :
              EditEntries(old, new)[n].op = "updated"
<1>1. CASE old = new
  BY <1>1, EntryIsEvent DEF EditEntries, Ops
<1>2. CASE old # new
  <2>1. /\ Entry("updated", new) \in Event /\ Entry("updated", old) \in Event
        /\ Entry("updated", new).cell = new /\ Entry("updated", old).cell = old
        /\ Entry("updated", new).op = "updated" /\ Entry("updated", old).op = "updated"
    BY EntryIsEvent DEF Ops
  <2> QED
    BY <1>2, <2>1 DEF EditEntries
<1> QED
  BY <1>1, <1>2

\* One entry.
LEMMA OneEntryFacts ==
  ASSUME NEW op \in Ops, NEW c \in Cells
  PROVE  /\ <<Entry(op, c)>> \in Seq(Event)
         /\ Len(<<Entry(op, c)>>) = 1
         /\ <<Entry(op, c)>>[1].cell = c
         /\ <<Entry(op, c)>>[1].op = op
BY EntryIsEvent

\* A change of what is visible of r is told: the cell it was in and the cell it
\* is in now each get an event.  Only a restored report changes without.
ChangeIsTold(r) ==
  content'[r] # content[r] =>
    /\ content[r] # Hidden =>
         \/ Told(r, content[r].cell)
         \/ /\ r \in unannounced'
            /\ content'[r] # Hidden
            /\ content'[r].cell = content[r].cell
    /\ content'[r] # Hidden => Told(r, content'[r].cell) \/ r \in unannounced'

\* A deleted report is visible only if it was restored.
EndedAreHidden ==
  \A r \in Reports : Ended(r) /\ r \notin unannounced => content[r] = Hidden

\* All that a consumer needs to know of a step of the reports.
FeedStep ==
  /\ FeedTypeOK'
  /\ Committed \subseteq Committed'
  /\ \A e \in Committed : EventOf(e)' = EventOf(e)
  /\ pending[Mine] \subseteq pending'[Mine]
  /\ unannounced \subseteq unannounced'
  /\ \A r \in Reports : ChangeIsTold(r)
  /\ \A r \in Reports : log'[r] = log[r] \/ \E c : Told(r, c)
  /\ EndedAreHidden => EndedAreHidden'

\* A step that writes events.
LEMMA EmissionIsFeedStep ==
  ASSUME FeedTypeOK, NEW es \in Batch, EmitReportEvent(es),
         content' \in [Reports -> Visible \cup {Hidden}],
         unannounced' = unannounced,
         \A r \in Reports : ChangeIsTold(r),
         EndedAreHidden =>
           \A r \in Reports :
             /\ \/ Ended(r)
                \/ \E n \in 1 .. Len(es[r]) : es[r][n].op = "deleted"
             /\ r \notin unannounced
             => content'[r] = Hidden
  PROVE  FeedStep
<1>0. OutboxTypeOK
  BY DEF FeedTypeOK
<1>1. /\ OutboxTypeOK' /\ Committed \subseteq Committed'
      /\ \A e \in Committed : EventOf(e)' = EventOf(e)
      /\ pending[Mine] \subseteq pending'[Mine]
  BY <1>0, EmitAddsEvents, MineAssumption
<1>2. FeedTypeOK'
  BY <1>1 DEF FeedTypeOK
<1>3. ASSUME NEW r \in Reports PROVE log'[r] = log[r] \/ \E c : Told(r, c)
  <2>1. es[r] \in Seq(Event) /\ log[r] \in Seq(Event) /\ log'[r] = log[r] \o es[r]
    BY <1>0 DEF Batch, OutboxTypeOK, EmitReportEvent
  <2>2. CASE es[r] = << >>
    BY <2>1, <2>2
  <2>3. CASE es[r] # << >>
    <3>1. 1 \in 1 .. Len(es[r])
      BY <2>1, <2>3
    <3>2. Told(r, es[r][1].cell)
      BY <1>0, <3>1, EmitTells
    <3> QED
      BY <3>2
  <2> QED
    BY <2>2, <2>3
<1>4. EndedAreHidden => EndedAreHidden'
  BY <1>0, EmitEnds DEF EndedAreHidden
<1> QED
  BY <1>1, <1>2, <1>3, <1>4 DEF FeedStep

\* A step that writes none.
LEMMA SilentIsFeedStep ==
  ASSUME FeedTypeOK, UNCHANGED <<log, pending>>,
         content' \in [Reports -> Visible \cup {Hidden}],
         unannounced \subseteq unannounced', unannounced' \subseteq Reports,
         \A r \in Reports : ChangeIsTold(r),
         \A r \in Reports : content[r] = Hidden /\ r \notin unannounced' => content'[r] = Hidden
  PROVE  FeedStep
<1>1. /\ Committed' = Committed
      /\ \A e : EventOf(e)' = EventOf(e)
      /\ \A r \in Reports : Ended(r)' <=> Ended(r)
  BY DEF Committed, EventOf, Ended
<1>2. FeedTypeOK'
  BY DEF FeedTypeOK, OutboxTypeOK
<1>3. EndedAreHidden => EndedAreHidden'
  BY <1>1 DEF EndedAreHidden
<1> QED
  BY <1>1, <1>2, <1>3 DEF FeedStep

\* A visible row.
LEMMA VisibleRow ==
  ASSUME NEW c \in Cells, NEW b \in Bodies
  PROVE  /\ [cell |-> c, body |-> b] \in Visible
         /\ [cell |-> c, body |-> b] # Hidden
         /\ [cell |-> c, body |-> b].cell = c
         /\ [cell |-> c, body |-> b].body = b
BY HiddenAssumption DEF Visible

\* A report becomes visible.
LEMMA ShowIsFeedStep ==
  ASSUME FeedTypeOK, NEW r \in Reports, NEW op \in {"created", "updated"},
         NEW c \in Cells, NEW b \in Written, Show(r, op, c, b)
  PROVE  FeedStep
<1> DEFINE es == On(r, <<Entry(op, c)>>)
           row == [cell |-> c, body |-> b]
<1>0. OutboxTypeOK /\ content \in [Reports -> Visible \cup {Hidden}] /\ b \in Bodies
  BY WrittenAssumption DEF FeedTypeOK
<1>1. row \in Visible /\ row # Hidden /\ row.cell = c
  BY <1>0, VisibleRow
<1>2. /\ content' = [content EXCEPT ![r] = row] /\ content[r] = Hidden
      /\ unannounced' = unannounced /\ ~ Ended(r) /\ EmitReportEvent(es)
  BY DEF Show
<1>3. /\ es \in Batch /\ es[r] = <<Entry(op, c)>>
      /\ \A x \in Reports \ {r} : 1 .. Len(es[x]) = {}
  <2>1. op \in Ops
    BY DEF Ops
  <2> QED
    BY <2>1, OnIsBatch, OneEntryFacts
<1>4. Len(es[r]) = 1 /\ es[r][1].cell = c /\ es[r][1].op # "deleted"
  BY <1>3, OneEntryFacts DEF Ops
<1> HIDE DEF es, row
<1>5. Told(r, c)
  <2>1. 1 \in 1 .. Len(es[r])
    BY <1>4
  <2>2. Told(r, es[r][1].cell)
    BY <1>0, <1>2, <1>3, <2>1, EmitTells
  <2> QED
    BY <1>4, <2>2
<1>6. \A x \in Reports : content'[x] = IF x = r THEN row ELSE content[x]
  BY <1>0, <1>2
<1>7. \A x \in Reports : ChangeIsTold(x)
  BY <1>1, <1>2, <1>5, <1>6 DEF ChangeIsTold
<1>8. content' \in [Reports -> Visible \cup {Hidden}]
  BY <1>0, <1>1, <1>2
<1>9. \A x \in Reports : ~ \E n \in 1 .. Len(es[x]) : es[x][n].op = "deleted"
  <2>1. 1 .. Len(es[r]) = {1}
    BY <1>4
  <2> QED
    BY <1>3, <1>4, <2>1
<1>10. EndedAreHidden =>
         \A x \in Reports : Ended(x) /\ x \notin unannounced => content'[x] = Hidden
  BY <1>2, <1>6 DEF EndedAreHidden
<1> QED
  BY <1>2, <1>3, <1>7, <1>8, <1>9, <1>10, EmissionIsFeedStep

\* The author rewrites a visible report.
LEMMA RewriteIsFeedStep ==
  ASSUME FeedTypeOK, NEW r \in Reports, NEW c \in Cells, NEW b \in Written,
         Rewrite(r, c, b)
  PROVE  FeedStep
<1> DEFINE old == content[r].cell
           es == On(r, EditEntries(old, c))
           row == [cell |-> c, body |-> b]
<1>0. OutboxTypeOK /\ content \in [Reports -> Visible \cup {Hidden}] /\ b \in Bodies
  BY WrittenAssumption DEF FeedTypeOK
<1>1. row \in Visible /\ row # Hidden /\ row.cell = c
  BY <1>0, VisibleRow
<1>2. /\ content' = [content EXCEPT ![r] = row] /\ content[r] # Hidden
      /\ unannounced' = unannounced /\ EmitReportEvent(es)
  BY DEF Rewrite
<1>3. old \in Cells
  <2>1. content[r] \in Visible
    BY <1>0, <1>2
  <2> QED
    BY <2>1 DEF Visible
<1>4. /\ es \in Batch /\ es[r] = EditEntries(old, c)
      /\ \A x \in Reports \ {r} : 1 .. Len(es[x]) = {}
  BY <1>3, OnIsBatch, EditEntriesFacts
<1>5. /\ \E n \in 1 .. Len(es[r]) : es[r][n].cell = old
      /\ \E n \in 1 .. Len(es[r]) : es[r][n].cell = c
      /\ \A n \in 1 .. Len(es[r]) : es[r][n].op = "updated"
  BY <1>3, <1>4, EditEntriesFacts
<1>6. \A x \in Reports : content'[x] = IF x = r THEN row ELSE content[x]
  BY <1>0, <1>2
<1>7. content' \in [Reports -> Visible \cup {Hidden}]
  BY <1>0, <1>1, <1>2
<1>8. content[r].cell = old
  OBVIOUS
<1> HIDE DEF es, row, old
<1>9. Told(r, old) /\ Told(r, c)
  BY <1>0, <1>2, <1>4, <1>5, EmitTells
<1>10. \A x \in Reports : ChangeIsTold(x)
  BY <1>1, <1>2, <1>6, <1>8, <1>9 DEF ChangeIsTold
<1>11. \A x \in Reports : ~ \E n \in 1 .. Len(es[x]) : es[x][n].op = "deleted"
  BY <1>4, <1>5
<1>12. EndedAreHidden =>
         \A x \in Reports : Ended(x) /\ x \notin unannounced => content'[x] = Hidden
  BY <1>2, <1>6 DEF EndedAreHidden
<1> QED
  BY <1>2, <1>4, <1>7, <1>10, <1>11, <1>12, EmissionIsFeedStep

\* Reports are deleted.
LEMMA WithdrawIsFeedStep ==
  ASSUME FeedTypeOK, NEW D \in SUBSET Reports, NEW at \in [D -> Cells], Withdraw(D, at)
  PROVE  FeedStep
<1> DEFINE es == [r \in Reports |-> IF r \in D THEN <<Entry("deleted", at[r])>> ELSE << >>]
<1>0. OutboxTypeOK /\ content \in [Reports -> Visible \cup {Hidden}]
  BY DEF FeedTypeOK
<1>1. /\ content' = [r \in Reports |-> IF r \in D THEN Hidden ELSE content[r]]
      /\ unannounced' = unannounced
      /\ EmitReportEvent(es)
      /\ \A r \in D : content[r] # Hidden => content[r].cell = at[r]
  BY DEF Withdraw
<1>2. ASSUME NEW r \in D
      PROVE  es[r] \in Seq(Event) /\ Len(es[r]) = 1 /\ es[r][1].cell = at[r]
  <2>1. es[r] = <<Entry("deleted", at[r])>> /\ at[r] \in Cells
    OBVIOUS
  <2> QED
    BY <2>1, OneEntryFacts DEF Ops
<1>3. ASSUME NEW r \in Reports \ D
      PROVE  es[r] \in Seq(Event) /\ 1 .. Len(es[r]) = {}
  <2>1. es[r] = << >>
    OBVIOUS
  <2>2. << >> \in Seq(Event) /\ 1 .. Len(<< >>) = {}
    OBVIOUS
  <2> QED
    BY <2>1, <2>2
<1>4. es = [r \in Reports |-> es[r]]
  OBVIOUS
<1> HIDE DEF es
<1>5. es \in Batch
  BY <1>2, <1>3, <1>4 DEF Batch
<1>6. ASSUME NEW r \in D PROVE Told(r, at[r])
  <2>1. 1 \in 1 .. Len(es[r])
    BY <1>2
  <2>2. Told(r, es[r][1].cell)
    BY <1>0, <1>1, <1>5, <2>1, EmitTells
  <2> QED
    BY <1>2, <2>2
<1>7. \A r \in Reports : content'[r] = IF r \in D THEN Hidden ELSE content[r]
  BY <1>1
<1>8. \A r \in Reports : ChangeIsTold(r)
  BY <1>1, <1>6, <1>7 DEF ChangeIsTold
<1>9. content' \in [Reports -> Visible \cup {Hidden}]
  BY <1>0, <1>1
<1>10. EndedAreHidden =>
         \A r \in Reports :
           /\ \/ Ended(r)
              \/ \E n \in 1 .. Len(es[r]) : es[r][n].op = "deleted"
           /\ r \notin unannounced
           => content'[r] = Hidden
  BY <1>3, <1>7 DEF EndedAreHidden
<1> QED
  BY <1>1, <1>5, <1>8, <1>9, <1>10, EmissionIsFeedStep

\* Something happens to a report that nobody can see.
LEMMA MurmurIsFeedStep ==
  ASSUME FeedTypeOK, NEW r \in Reports, NEW op, NEW entries \in Seq(Event),
         \A n \in 1 .. Len(entries) : entries[n].op # "deleted",
         Murmur(r, op, entries)
  PROVE  FeedStep
<1> DEFINE es == On(r, entries)
<1>1. /\ content' = content /\ unannounced' = unannounced /\ EmitReportEvent(es)
  BY DEF Murmur
<1>2. /\ es \in Batch /\ es[r] = entries
      /\ \A x \in Reports \ {r} : 1 .. Len(es[x]) = {}
  BY OnIsBatch
<1> HIDE DEF es
<1>3. \A x \in Reports : ~ \E n \in 1 .. Len(es[x]) : es[x][n].op = "deleted"
  BY <1>2
<1>4. \A x \in Reports : ChangeIsTold(x)
  BY <1>1 DEF ChangeIsTold
<1>5. content' \in [Reports -> Visible \cup {Hidden}]
  BY <1>1 DEF FeedTypeOK
<1>6. EndedAreHidden =>
         \A x \in Reports : Ended(x) /\ x \notin unannounced => content'[x] = Hidden
  BY <1>1 DEF EndedAreHidden
<1> QED
  BY <1>1, <1>2, <1>3, <1>4, <1>5, <1>6, EmissionIsFeedStep

\* A deleted report is restored.
LEMMA ReappearIsFeedStep ==
  ASSUME FeedTypeOK, NEW r \in Reports, NEW c \in Cells, NEW b \in Written,
         Reappear(r, c, b)
  PROVE  FeedStep
<1> DEFINE row == [cell |-> c, body |-> b]
<1>0. content \in [Reports -> Visible \cup {Hidden}] /\ b \in Bodies
      /\ unannounced \subseteq Reports
  BY WrittenAssumption DEF FeedTypeOK
<1>1. row \in Visible
  BY <1>0, VisibleRow
<1>2. /\ content' = [content EXCEPT ![r] = row] /\ content[r] = Hidden
      /\ unannounced' = unannounced \cup {r}
      /\ UNCHANGED <<log, pending>>
  BY DEF Reappear
<1> HIDE DEF row
<1>3. \A x \in Reports : content'[x] = IF x = r THEN row ELSE content[x]
  BY <1>0, <1>2
<1>4. content' \in [Reports -> Visible \cup {Hidden}]
  BY <1>0, <1>1, <1>2
<1>5. \A x \in Reports : ChangeIsTold(x)
  BY <1>2, <1>3 DEF ChangeIsTold
<1>6. \A x \in Reports :
        content[x] = Hidden /\ x \notin unannounced' => content'[x] = Hidden
  BY <1>2, <1>3
<1> QED
  BY <1>0, <1>2, <1>4, <1>5, <1>6, SilentIsFeedStep

\* Restored reports lose their prose.
LEMMA FadeIsFeedStep ==
  ASSUME FeedTypeOK, NEW D \in SUBSET Reports, Fade(D)
  PROVE  FeedStep
<1>0. content \in [Reports -> Visible \cup {Hidden}] /\ unannounced \subseteq Reports
  BY DEF FeedTypeOK
<1>1. /\ \A r \in D : r \in unannounced /\ content[r] # Hidden
      /\ content' = [r \in Reports |->
           IF r \in D THEN [content[r] EXCEPT !.body = Blank] ELSE content[r]]
      /\ UNCHANGED <<log, pending, unannounced>>
  BY DEF Fade
<1>2. ASSUME NEW r \in D
      PROVE  /\ content'[r] \in Visible /\ content'[r] # Hidden
             /\ content'[r].cell = content[r].cell
  <2>1. content[r] \in Visible
    BY <1>0, <1>1
  <2>2. content'[r] = [content[r] EXCEPT !.body = Blank]
    BY <1>1
  <2>3. content'[r] \in Visible /\ content'[r].cell = content[r].cell
    BY <2>1, <2>2, BlankAssumption DEF Visible
  <2> QED
    BY <2>3, HiddenAssumption
<1>3. \A r \in Reports \ D : content'[r] = content[r]
  BY <1>1
<1>4. content' \in [Reports -> Visible \cup {Hidden}]
  <2>1. \A r \in Reports : content'[r] \in Visible \cup {Hidden}
    BY <1>0, <1>2, <1>3
  <2>2. content' = [r \in Reports |-> content'[r]]
    BY <1>1
  <2> HIDE <1>1
  <2> QED
    BY <2>1, <2>2
<1>5. \A r \in Reports : ChangeIsTold(r)
  BY <1>1, <1>2, <1>3 DEF ChangeIsTold
<1>6. \A r \in Reports :
        content[r] = Hidden /\ r \notin unannounced' => content'[r] = Hidden
  BY <1>1, <1>3
<1> QED
  BY <1>0, <1>1, <1>4, <1>5, <1>6, SilentIsFeedStep

\* Every step of the reports tells the consumers what it changes, the restores
\* apart; it neither takes an event back nor rewrites one.
LEMMA ProduceIsFeedStep == ASSUME FeedTypeOK, Produce PROVE FeedStep
<1>1. CASE \E r \in Reports, op \in {"created", "updated"}, c \in Cells, b \in Written :
             Show(r, op, c, b)
  BY <1>1, ShowIsFeedStep
<1>2. CASE \E r \in Reports, c \in Cells, b \in Written : Rewrite(r, c, b)
  BY <1>2, RewriteIsFeedStep
<1>3. CASE \E D \in (SUBSET Reports) \ {{}} : \E at \in [D -> Cells] : Withdraw(D, at)
  BY <1>3, WithdrawIsFeedStep
<1>4. CASE \E r \in Reports, c \in Cells : Murmur(r, "created", <<Entry("created", c)>>)
  <2>1. PICK r \in Reports, c \in Cells : Murmur(r, "created", <<Entry("created", c)>>)
    BY <1>4
  <2>2. /\ <<Entry("created", c)>> \in Seq(Event)
        /\ \A n \in 1 .. Len(<<Entry("created", c)>>) :
             <<Entry("created", c)>>[n].op # "deleted"
    BY OneEntryFacts DEF Ops
  <2> QED
    BY <2>1, <2>2, MurmurIsFeedStep
<1>5. CASE \E r \in Reports, old \in Cells, new \in Cells :
             Murmur(r, "updated", EditEntries(old, new))
  BY <1>5, MurmurIsFeedStep, EditEntriesFacts
<1>6. CASE \E r \in Reports, c \in Cells, b \in Written : Reappear(r, c, b)
  BY <1>6, ReappearIsFeedStep
<1>7. CASE \E D \in (SUBSET Reports) \ {{}} : Fade(D)
  BY <1>7, FadeIsFeedStep
<1> QED
  BY <1>1, <1>2, <1>3, <1>4, <1>5, <1>6, <1>7 DEF Produce

-----------------------------------------------------------------------------
(* The queue and its workers.  phases are those of the consumer's workers,   *)
(* and handling the ones in which a worker has an event: from "read", where   *)
(* it gets it, to "mark", where it stamps it.                                 *)

PhasesFit(phases, handling) ==
  /\ handling \subseteq phases
  /\ {"idle", "next"} \subseteq phases \ handling
  /\ {"read", "mark"} \subseteq handling

\* Whatever is in the hands of the queue or of a worker was committed.
QueueInv(phases, handling) ==
  /\ FeedTypeOK
  /\ JobTypeOK(phases)
  /\ \A w \in Workers :
       /\ ev[w] \in Committed \cup {NoEvent}
       /\ pc[w] \in handling => ev[w] \in Committed
       /\ w \in onJob => ev[w] \in Committed
       /\ todo[w] \subseteq Committed
  /\ jobs \subseteq Committed

\* An empty queue.
LEMMA InitQueueInv ==
  ASSUME NEW phases, NEW handling, PhasesFit(phases, handling), FeedInit, ConsumerInit
  PROVE  QueueInv(phases, handling)
<1>1. FeedTypeOK
  BY DEF FeedInit, FeedTypeOK, OutboxInit, OutboxTypeOK
<1>2. JobTypeOK(phases)
  BY MaxFailuresAssumption DEF ConsumerInit, JobTypeOK, PhasesFit
<1> QED
  BY <1>1, <1>2 DEF QueueInv, ConsumerInit, PhasesFit

\* Nothing the queue holds is touched by a step of the reports.
LEMMA ProduceKeepsQueue ==
  ASSUME NEW phases, NEW handling, QueueInv(phases, handling), Produce,
         UNCHANGED consumerVars
  PROVE  QueueInv(phases, handling)'
<1>1. FeedTypeOK' /\ Committed \subseteq Committed'
  BY ProduceIsFeedStep DEF QueueInv, FeedStep
<1>2. UNCHANGED <<pc, ev, todo, onJob, jobs, heard, failures>>
  BY DEF consumerVars
<1>3. JobTypeOK(phases)'
  BY <1>2 DEF QueueInv, JobTypeOK
<1> QED
  BY <1>1, <1>2, <1>3 DEF QueueInv

\* A worker takes up a job, or the next event of its sweep.
LEMMA StartKeepsQueue ==
  ASSUME NEW phases, NEW handling, PhasesFit(phases, handling),
         QueueInv(phases, handling), NEW w \in Workers, Start(w)
  PROVE  QueueInv(phases, handling)'
<1>0. FeedTypeOK /\ OutboxTypeOK /\ JobTypeOK(phases)
  BY DEF QueueInv, FeedTypeOK
<1>1. UNCHANGED feedVars
  BY DEF Start, StartSweep, Take, StartEventJob
<1>2. FeedTypeOK' /\ Committed' = Committed
  BY <1>1 DEF QueueInv, FeedTypeOK, OutboxTypeOK, feedVars, Committed
<1>3. CASE StartSweep(w)
  <2>1. PICK batch \in ClaimUnprocessedEvents : todo' = [todo EXCEPT ![w] = batch]
    BY <1>3 DEF StartSweep
  <2>2. batch \subseteq Committed /\ batch \subseteq EventIds
    BY <1>0, <2>1, PendingIsCommitted, MineAssumption
       DEF ClaimUnprocessedEvents, Committed
  <2>3. /\ pc[w] = "idle" /\ pc' = [pc EXCEPT ![w] = "next"]
        /\ UNCHANGED <<ev, onJob, jobs, heard, failures>>
    BY <1>3 DEF StartSweep, queueVars
  <2>4. JobTypeOK(phases)'
    BY <1>0, <2>1, <2>2, <2>3 DEF JobTypeOK, PhasesFit
  <2> QED
    BY <1>0, <1>2, <2>1, <2>2, <2>3, <2>4 DEF QueueInv, JobTypeOK, PhasesFit
<1>4. CASE \E e \in EventIds : Take(w, e)
  <2>1. PICK e \in EventIds : Take(w, e)
    BY <1>4
  <2>2. /\ e \in todo[w] /\ ev' = [ev EXCEPT ![w] = e]
        /\ pc' = [pc EXCEPT ![w] = "read"]
        /\ todo' = [todo EXCEPT ![w] = @ \ {e}]
        /\ UNCHANGED <<onJob, jobs, heard, failures>>
    BY <2>1 DEF Take, Handle, queueVars
  <2>3. e \in Committed
    BY <2>2 DEF QueueInv
  <2>4. JobTypeOK(phases)'
    BY <1>0, <2>2 DEF JobTypeOK, PhasesFit
  <2> QED
    BY <1>0, <1>2, <2>2, <2>3, <2>4 DEF QueueInv, JobTypeOK
<1>5. CASE \E e \in EventIds : StartEventJob(w, e)
  <2>1. PICK e \in EventIds : StartEventJob(w, e)
    BY <1>5
  <2>2. /\ e \in jobs /\ ev' = [ev EXCEPT ![w] = e]
        /\ pc' = [pc EXCEPT ![w] = "read"]
        /\ jobs' = jobs \ {e}
        /\ onJob' = onJob \cup {w}
        /\ UNCHANGED <<todo, heard, failures>>
    BY <2>1 DEF StartEventJob, Handle
  <2>3. e \in Committed
    BY <2>2 DEF QueueInv
  <2>4. JobTypeOK(phases)'
    BY <1>0, <2>2 DEF JobTypeOK, PhasesFit
  <2> QED
    BY <1>0, <1>2, <2>2, <2>3, <2>4 DEF QueueInv, JobTypeOK
<1> QED
  BY <1>3, <1>4, <1>5 DEF Start

\* The LISTEN bridge enqueues a job for an event that was committed.
LEMMA NotifyKeepsQueue ==
  ASSUME NEW phases, NEW handling, QueueInv(phases, handling),
         NEW e \in EventIds, Notify(e)
  PROVE  QueueInv(phases, handling)'
<1>1. /\ e \in Committed
      /\ heard' = heard \cup {e} /\ jobs' = jobs \cup {e}
      /\ UNCHANGED <<pc, ev, todo, onJob, failures, content, unannounced, log, pending>>
  BY DEF Notify, jobVars, feedVars
<1>2. FeedTypeOK' /\ Committed' = Committed
  BY <1>1 DEF QueueInv, FeedTypeOK, OutboxTypeOK, Committed
<1>3. JobTypeOK(phases)'
  BY <1>1 DEF QueueInv, JobTypeOK
<1> QED
  BY <1>1, <1>2, <1>3 DEF QueueInv

\* The last step of a handler.
LEMMA StampKeepsQueue ==
  ASSUME NEW phases, NEW handling, PhasesFit(phases, handling),
         QueueInv(phases, handling), NEW w \in Workers, Stamp(w)
  PROVE  QueueInv(phases, handling)'
<1>1. /\ pending' = [pending EXCEPT ![Mine] = @ \ {ev[w]}]
      /\ UNCHANGED <<log, content, unannounced, todo, jobs, heard, failures>>
      /\ pc' = [pc EXCEPT ![w] = IF todo[w] = {} THEN "idle" ELSE "next"]
      /\ ev' = [ev EXCEPT ![w] = NoEvent]
      /\ onJob' = onJob \ {w}
  BY DEF Stamp, MarkEventProcessed, queueVars
<1>2. OutboxTypeOK'
  BY <1>1, MineAssumption DEF QueueInv, FeedTypeOK, OutboxTypeOK
<1>3. FeedTypeOK' /\ Committed' = Committed
  BY <1>1, <1>2 DEF QueueInv, FeedTypeOK, Committed
<1>4. JobTypeOK(phases)'
  BY <1>1 DEF QueueInv, JobTypeOK, PhasesFit
<1> QED
  BY <1>1, <1>3, <1>4 DEF QueueInv, JobTypeOK, PhasesFit

\* A job throws, or its process dies.
LEMMA FailKeepsQueue ==
  ASSUME NEW phases, NEW handling, PhasesFit(phases, handling),
         QueueInv(phases, handling), NEW w \in Workers, Fail(w)
  PROVE  QueueInv(phases, handling)'
<1>1. /\ failures < MaxFailures /\ failures' = failures + 1
      /\ pc' = [pc EXCEPT ![w] = "idle"]
      /\ ev' = [ev EXCEPT ![w] = NoEvent]
      /\ todo' = [todo EXCEPT ![w] = {}]
      /\ onJob' = onJob \ {w}
      /\ UNCHANGED <<heard, content, unannounced, log, pending>>
  BY DEF Fail, feedVars
<1>2. \/ jobs' = jobs
      \/ w \in onJob /\ jobs' = jobs \cup {ev[w]}
  BY DEF Fail
<1>3. FeedTypeOK' /\ Committed' = Committed
  BY <1>1 DEF QueueInv, FeedTypeOK, OutboxTypeOK, Committed
<1>4. jobs' \subseteq Committed
  BY <1>2 DEF QueueInv
<1>5. JobTypeOK(phases)'
  BY <1>1, <1>4, MaxFailuresAssumption DEF QueueInv, JobTypeOK, PhasesFit, Committed
<1> QED
  BY <1>1, <1>3, <1>4, <1>5 DEF QueueInv, JobTypeOK, PhasesFit

\* A worker moves on inside its handler.
LEMMA HandlerKeepsQueue ==
  ASSUME NEW phases, NEW handling, PhasesFit(phases, handling),
         QueueInv(phases, handling), NEW w \in Workers, NEW p \in handling,
         pc[w] \in handling, pc' = [pc EXCEPT ![w] = p],
         UNCHANGED <<ev, todo, onJob, queueVars, failures, feedVars>>
  PROVE  QueueInv(phases, handling)'
<1>1. UNCHANGED <<ev, todo, onJob, jobs, heard, failures,
                  content, unannounced, log, pending>>
  BY DEF queueVars, feedVars
<1>2. FeedTypeOK' /\ Committed' = Committed
  BY <1>1 DEF QueueInv, FeedTypeOK, OutboxTypeOK, Committed
<1>3. JobTypeOK(phases)'
  BY <1>1 DEF QueueInv, JobTypeOK, PhasesFit
<1> QED
  BY <1>1, <1>2, <1>3 DEF QueueInv, JobTypeOK

\* Workers change their phases, and none takes an event into its hands.
LEMMA PhasesKeepQueue ==
  ASSUME NEW phases, NEW handling, QueueInv(phases, handling),
         pc' \in [Workers -> phases],
         \A w \in Workers : pc'[w] \in handling => pc[w] \in handling,
         UNCHANGED <<ev, todo, onJob, queueVars, feedVars>>, failures' \in 0 .. MaxFailures
  PROVE  QueueInv(phases, handling)'
<1>1. UNCHANGED <<ev, todo, onJob, jobs, heard, content, unannounced, log, pending>>
  BY DEF queueVars, feedVars
<1>2. FeedTypeOK' /\ Committed' = Committed
  BY <1>1 DEF QueueInv, FeedTypeOK, OutboxTypeOK, Committed
<1>3. JobTypeOK(phases)'
  BY <1>1 DEF QueueInv, JobTypeOK
<1> QED
  BY <1>1, <1>2, <1>3 DEF QueueInv

\* A step that touches neither the reports nor the queue.
LEMMA QueueUntouched ==
  ASSUME NEW phases, NEW handling, QueueInv(phases, handling),
         UNCHANGED <<feedVars, consumerVars>>
  PROVE  QueueInv(phases, handling)'
BY DEF QueueInv, JobTypeOK, FeedTypeOK, OutboxTypeOK, Committed, feedVars, consumerVars

=============================================================================
