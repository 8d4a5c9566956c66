-------------------------------- MODULE Drafts --------------------------------
(***************************************************************************)
(* The drafts of one user: saveDraft, deleteDraft and the retention job.   *)
(*                                                                         *)
(* createDraft reads the user's drafts and then prunes and inserts, in one *)
(* READ COMMITTED transaction that locks nothing: the read is a step, the  *)
(* commit another.  updated_at is the order of the writes, so drafts are   *)
(* kept as a sequence, the least recently saved first.                     *)
(***************************************************************************)
EXTENDS Naturals, FiniteSets, SequencesExt

CONSTANTS
  Tabs,       \* saveDraft calls that may be under way
  DraftCap,   \* MAX_DRAFTS_PER_USER
  MaxDrafts   \* bound: drafts ever created

ASSUME DraftCapAssumption == DraftCap \in Nat \ {0} /\ MaxDrafts \in Nat
ASSUME TabsAssumption == IsFiniteSet(Tabs)

DraftIds == 1 .. MaxDrafts

VARIABLES
  drafts,     \* the ids of the rows, least recently saved first
  nextDraft,  \* the id of the next row
  creating,   \* tabs whose createDraft has read the rows
  doomed      \* doomed[w]: the ids it will delete

draftVars == <<drafts, nextDraft, creating, doomed>>

DraftsTypeOK ==
  /\ drafts \in Seq(DraftIds) /\ IsInjective(drafts)
  /\ nextDraft \in 1 .. MaxDrafts + 1
  /\ creating \in SUBSET Tabs
  /\ doomed \in [Tabs -> SUBSET DraftIds]

DraftsInit ==
  /\ drafts = << >> /\ nextDraft = 1
  /\ creating = {}
  /\ doomed = [w \in Tabs |-> {}]

OwnDrafts == ToSet(drafts)

ListDrafts == Reverse(drafts)

\* s without the drafts in gone, in a form that can be reasoned about; Kept[n]:
\* what is left of the first n.
Minus(s, gone) ==
  LET Kept[n \in 0 .. Len(s)] ==
        IF n = 0 THEN << >>
        ELSE IF s[n] \in gone THEN Kept[n - 1] ELSE Append(Kept[n - 1], s[n])
  IN  Kept[Len(s)]

\* A defect: room is made for the drafts that are there, not for the new one.
OverflowOfPresent == IF Len(drafts) > DraftCap THEN Len(drafts) - DraftCap ELSE 0

\* How many must go for one more to fit.
Overflow == IF Len(drafts) >= DraftCap THEN Len(drafts) - (DraftCap - 1) ELSE 0

\* A stale or a foreign id finds nothing to update, and a draft is created.
ReadForCreate(w) ==
  /\ w \notin creating
  /\ creating' = creating \cup {w}
  /\ doomed' = [doomed EXCEPT ![w] = ToSet(SubSeq(drafts, 1, Overflow))]
  /\ UNCHANGED <<drafts, nextDraft>>

CommitCreate(w) ==
  /\ w \in creating
  /\ nextDraft <= MaxDrafts
  /\ drafts' = Append(Minus(drafts, doomed[w]), nextDraft)
  /\ nextDraft' = nextDraft + 1
  /\ creating' = creating \ {w}
  /\ doomed' = [doomed EXCEPT ![w] = {}]

AbortCreate(w) ==
  /\ w \in creating
  /\ creating' = creating \ {w}
  /\ doomed' = [doomed EXCEPT ![w] = {}]
  /\ UNCHANGED <<drafts, nextDraft>>

UpdateDraft(d) ==
  /\ d \in OwnDrafts
  /\ drafts' = Append(Minus(drafts, {d}), d)
  /\ UNCHANGED <<nextDraft, creating, doomed>>

\* Finalizing deletes the draft.
DeleteDraft(d) ==
  /\ d \in OwnDrafts
  /\ drafts' = Minus(drafts, {d})
  /\ UNCHANGED <<nextDraft, creating, doomed>>

\* Rows not saved for the retention time: some of the first.
PruneStaleDrafts ==
  /\ \E n \in DOMAIN drafts : drafts' = SubSeq(drafts, n + 1, Len(drafts))
  /\ UNCHANGED <<nextDraft, creating, doomed>>

DraftsNext ==
  \/ \E w \in Tabs : ReadForCreate(w) \/ CommitCreate(w) \/ AbortCreate(w)
  \/ \E d \in DraftIds : UpdateDraft(d) \/ DeleteDraft(d)
  \/ PruneStaleDrafts

DraftsSpec == DraftsInit /\ [][DraftsNext]_draftVars

-----------------------------------------------------------------------------

\* drafts.ts:36: the count after an insert stays at the cap.  Transactions that
\* read before each other's insert overshoot it, by one for each beyond the
\* first and no more, since every later create makes up for what is over.
CapButForOverlap == Len(drafts) < DraftCap + Cardinality(Tabs)

=============================================================================
