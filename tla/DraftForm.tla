------------------------------- MODULE DraftForm -------------------------------
(***************************************************************************)
(* The submission form in the browser: the basics screen (SubmitForm), the *)
(* rounds screen (RoundsForm), the debounced autosave of both, and the     *)
(* server actions they call, against the draft rows of the server.         *)
(*                                                                         *)
(* The content of the form is one value.  A browser tab runs its server    *)
(* actions one after the other, so its calls are a queue: the server works *)
(* on the first, and the next goes out when that one is answered.  Timers  *)
(* and the user go on meanwhile.  An effect runs as part of the action     *)
(* that changes what it depends on.  A page that is left by a plain link   *)
(* forgets its queue, but the request that was out still gets there.       *)
(***************************************************************************)
EXTENDS Naturals, FiniteSets, SequencesExt

CONSTANTS
  Contents,     \* what the form may hold
  Blank,        \* what a new form holds
  NoContent,    \* no row, no timer, nothing submitted
  MaxStrokes,   \* bound: changes by the user
  MaxCalls,     \* bound: calls in the queue
  MaxRows,      \* bound: drafts ever created
  MaxLate       \* bound: late requests at once

ASSUME BlankAssumption == Blank \in Contents /\ NoContent \notin Contents
ASSUME FormBounds == MaxStrokes \in Nat /\ MaxCalls \in Nat /\ MaxRows \in Nat /\ MaxLate \in Nat

VARIABLES
  screen,     \* the component that is mounted
  phase,      \* what its handler is waiting for
  content,    \* its state
  lastSaved,  \* lastSavedRef.current
  timer,      \* what the pending autosave will send
  formDraft,  \* draftId; 0: null
  calls,      \* server actions called and not yet answered
  answer,     \* whether the first of them has been worked off, and what it answers
  pushed,     \* the draft that router.push goes to; 0: none yet
  late,       \* requests of pages that were left, still on their way
  strokes,    \* changes so far
  row,        \* row[d]: the data of draft d
  rowCount,   \* drafts created so far
  submitted,  \* the report made of the draft
  shown,      \* what the form has shown since Submit was clicked
  overdue,    \* the form shows what was saved, and a save of something else is out
  failed,     \* the last save answered failed
  latecomer,  \* a late save came after what the form loaded or saved last
  blind       \* a save that could not know of its draft

formVars == <<screen, phase, content, lastSaved, timer, formDraft, calls, answer, pushed, late, strokes>>
formGhosts == <<shown, overdue, failed, latecomer, blind>>
draftRowVars == <<row, rowCount, submitted>>
draftFormVars == <<formVars, draftRowVars, formGhosts>>

RowIds == 1 .. MaxRows
Waiting == MaxRows + 1   \* the server has not answered the first call
Failed == MaxRows + 2    \* it has answered an error; otherwise the id of a draft
Calls == [what : {"auto", "continue", "flush", "finalize"}, id : 0 .. MaxRows,
          data : Contents \cup {NoContent}, from : {"basics", "rounds"}]

FormTypeOK ==
  /\ screen \in {"basics", "rounds", "left"}
  /\ phase \in {"editing", "continuing", "flushing", "finalizing", "leaving"}
  /\ content \in Contents /\ lastSaved \in Contents
  /\ timer \in Contents \cup {NoContent}
  /\ formDraft \in 0 .. MaxRows /\ pushed \in 0 .. MaxRows
  /\ calls \in Seq(Calls) /\ late \in SUBSET Calls
  /\ answer \in 1 .. Failed
  /\ strokes \in 0 .. MaxStrokes
  /\ row \in [RowIds -> Contents \cup {NoContent}] /\ rowCount \in 0 .. MaxRows
  /\ submitted \in Contents \cup {NoContent}
  /\ shown \in SUBSET Contents
  /\ {overdue, failed, latecomer, blind} \subseteq BOOLEAN

FormInit ==
  /\ screen = "basics" /\ phase = "editing"
  /\ content = Blank /\ lastSaved = Blank
  /\ timer = NoContent /\ formDraft = 0 /\ pushed = 0
  /\ calls = << >> /\ answer = Waiting /\ late = {}
  /\ strokes = 0
  /\ row = [d \in RowIds |-> NoContent] /\ rowCount = 0 /\ submitted = NoContent
  /\ shown = {}
  /\ overdue = FALSE /\ failed = FALSE /\ latecomer = FALSE /\ blind = FALSE

DraftRows == {d \in RowIds : row[d] # NoContent}

Mounted == screen # "left"

Saves == {i \in DOMAIN calls : calls[i].what # "finalize"}

\* For the properties alone: the draft is being made a report, or has been.
Finalizing == submitted # NoContent \/ \E c \in late : c.what = "finalize"

-----------------------------------------------------------------------------
(* The server.                                                             *)

\* A defect: every save creates a draft.
SavedAsNew(id) == rowCount + 1

\* The draft that a save with this id writes: that one if it is there, else a new one.
SavedAs(id) == IF id \in DraftRows THEN id ELSE rowCount + 1

SaveRow(id, data) ==
  /\ SavedAs(id) <= MaxRows
  /\ row' = [row EXCEPT ![SavedAs(id)] = data]
  /\ rowCount' = IF SavedAs(id) > rowCount THEN SavedAs(id) ELSE rowCount
  /\ UNCHANGED submitted

\* finalizeSubmission reads the draft, and deletes it when the report is written.
FinalizeRow(id) ==
  /\ IF id \in DraftRows
     THEN submitted' = row[id] /\ row' = [row EXCEPT ![id] = NoContent]
     ELSE UNCHANGED <<row, submitted>>
  /\ UNCHANGED rowCount

Work(c) == IF c.what = "finalize" THEN FinalizeRow(c.id) ELSE SaveRow(c.id, c.data)

AnswerTo(c) ==
  CASE c.what # "finalize" -> SavedAs(c.id)
    [] c.what = "finalize" /\ c.id \in DraftRows -> c.id
    [] OTHER -> Failed

ServerWorks ==
  /\ calls # << >> /\ answer = Waiting
  /\ answer' = AnswerTo(Head(calls))
  /\ Work(Head(calls))
  /\ latecomer' = (latecomer /\ Head(calls).what = "finalize")
  /\ UNCHANGED <<screen, phase, content, lastSaved, timer, formDraft, calls, pushed, late, strokes, shown, overdue, failed, blind>>

\* Rate limited, refused, or thrown; or the answer is lost.
ServerRefuses ==
  /\ calls # << >> /\ answer # Failed
  /\ answer' = Failed
  /\ UNCHANGED <<screen, phase, content, lastSaved, timer, formDraft, calls, pushed, late, strokes, draftRowVars, formGhosts>>

\* What a page was still saving when it was left counts as shown.
LateWorks ==
  \E c \in late :
    /\ late' = late \ {c}
    /\ Work(c)
    /\ IF c.what = "finalize"
       THEN UNCHANGED <<shown, latecomer, blind>>
       ELSE /\ shown' = shown \cup {c.data}
            /\ latecomer' = TRUE
            /\ blind' = (blind \/ c.id \notin DraftRows)
    /\ UNCHANGED <<screen, phase, content, lastSaved, timer, formDraft, calls, answer, pushed, strokes, overdue, failed>>

-----------------------------------------------------------------------------
(* The user and the timer.                                                 *)

\* The autosave effect: nothing to do for what was saved last, else a new timer.
Effect(now, saved) == timer' = IF now = saved THEN NoContent ELSE now

ChangeForm(c) ==
  /\ Mounted
  /\ strokes < MaxStrokes /\ strokes' = strokes + 1
  /\ c # content /\ content' = c
  /\ Effect(c, lastSaved)
  /\ shown' = IF phase = "editing" /\ ~Finalizing THEN {} ELSE shown \cup {c}
  /\ overdue' = (overdue \/ (c = lastSaved /\ \E i \in Saves : calls[i].data # c))
  /\ UNCHANGED <<screen, phase, lastSaved, formDraft, calls, answer, pushed, late, draftRowVars, failed, latecomer, blind>>

SendTo(queue, what, data) ==
  Append(queue, [what |-> what, id |-> formDraft, data |-> data, from |-> screen])

\* For the properties alone: the sender of a save with id d cannot know its draft.
BlindSave ==
  \/ Finalizing \/ \E i \in DOMAIN calls : calls[i].what = "finalize"
  \/ formDraft = 0 /\ (DraftRows # {} \/ Saves # {})

TimerFires ==
  /\ Mounted
  /\ timer # NoContent /\ timer' = NoContent
  /\ Len(calls) < MaxCalls
  /\ calls' = SendTo(calls, "auto", timer)
  /\ blind' = (blind \/ BlindSave)
  /\ UNCHANGED <<screen, phase, content, lastSaved, formDraft, answer, pushed, late, strokes, draftRowVars, shown, overdue, failed, latecomer>>

\* Continue: the form saves itself, and goes on to the rounds.
HandleContinue ==
  /\ screen = "basics" /\ phase = "editing"
  /\ Len(calls) < MaxCalls
  /\ phase' = "continuing"
  /\ calls' = SendTo(calls, "continue", content)
  /\ blind' = (blind \/ BlindSave)
  /\ UNCHANGED <<screen, content, lastSaved, timer, formDraft, answer, pushed, late, strokes, draftRowVars, shown, overdue, failed, latecomer>>

\* Submit is disabled while a save of the rounds screen is out.
CanSubmit ==
  /\ screen = "rounds" /\ phase = "editing"
  /\ \A i \in Saves : calls[i].from # "rounds"
  /\ Len(calls) < MaxCalls
  /\ shown' = (IF Finalizing THEN shown ELSE {}) \cup {content}
  /\ UNCHANGED <<screen, content, lastSaved, timer, formDraft, answer, pushed, late, strokes, draftRowVars, overdue, failed, latecomer>>

\* A defect: Submit finalizes what the last autosave left.
SubmitWithoutFlush ==
  /\ CanSubmit
  /\ phase' = "finalizing"
  /\ calls' = SendTo(calls, "finalize", NoContent)
  /\ UNCHANGED blind

\* Submit flushes what the form holds, before it finalizes.
HandleSubmit ==
  /\ CanSubmit
  /\ phase' = "flushing"
  /\ calls' = SendTo(calls, "flush", content)
  /\ blind' = (blind \/ BlindSave)

-----------------------------------------------------------------------------
(* Answers.  One that comes to a component that is gone does nothing.      *)

Ok == answer # Failed

TakeAnswer(kind) ==
  /\ calls # << >> /\ answer # Waiting
  /\ Head(calls).what = kind /\ Head(calls).from = screen
  /\ answer' = Waiting
  /\ failed' = IF kind = "finalize" THEN failed ELSE ~Ok
  /\ overdue' = (overdue /\ ~(Ok /\ Saves = {1} /\ Head(calls).data = content))
  /\ UNCHANGED <<screen, content, late, strokes, draftRowVars, shown, latecomer, blind>>

\* A defect: what the form holds now is taken for what was saved.
AutosaveAnsweredForNow ==
  /\ TakeAnswer("auto")
  /\ calls' = Tail(calls)
  /\ lastSaved' = IF Ok THEN content ELSE lastSaved
  /\ IF Ok /\ Head(calls).id = 0
     THEN formDraft' = answer /\ Effect(content, content)
     ELSE UNCHANGED <<formDraft, timer>>
  /\ UNCHANGED <<phase, pushed>>

\* A first save adopts the id it was given, and the effect runs again.
AutosaveAnswered ==
  /\ TakeAnswer("auto")
  /\ calls' = Tail(calls)
  /\ lastSaved' = IF Ok THEN Head(calls).data ELSE lastSaved
  /\ IF Ok /\ Head(calls).id = 0
     THEN formDraft' = answer /\ Effect(content, Head(calls).data)
     ELSE UNCHANGED <<formDraft, timer>>
  /\ UNCHANGED <<phase, pushed>>

\* The form itself does not adopt the id: it is about to go.
ContinueAnswered ==
  /\ TakeAnswer("continue")
  /\ calls' = Tail(calls)
  /\ phase' = IF Ok THEN "leaving" ELSE "editing"
  /\ pushed' = IF Ok THEN answer ELSE pushed
  /\ UNCHANGED <<lastSaved, timer, formDraft>>

FlushAnswered ==
  /\ TakeAnswer("flush")
  /\ lastSaved' = IF Ok THEN Head(calls).data ELSE lastSaved
  /\ phase' = IF Ok THEN "finalizing" ELSE "editing"
  /\ calls' = IF Ok THEN SendTo(Tail(calls), "finalize", NoContent) ELSE Tail(calls)
  /\ UNCHANGED <<timer, formDraft, pushed>>

FinalizeAnswered ==
  /\ TakeAnswer("finalize")
  /\ calls' = Tail(calls)
  /\ phase' = IF Ok THEN "leaving" ELSE "editing"
  /\ UNCHANGED <<lastSaved, timer, formDraft, pushed>>

AnswerToNobody ==
  /\ calls # << >> /\ answer # Waiting /\ Head(calls).from # screen
  /\ calls' = Tail(calls) /\ answer' = Waiting
  /\ UNCHANGED <<screen, phase, content, lastSaved, timer, formDraft, pushed, late, strokes, draftRowVars, formGhosts>>

-----------------------------------------------------------------------------
(* Pages.                                                                  *)

LoadDraft(page, d) ==
  /\ d \in DraftRows /\ formDraft' = d
  /\ screen' = page /\ phase' = "editing"
  /\ content' = row[d] /\ lastSaved' = row[d]
  /\ timer' = NoContent
  /\ failed' = FALSE /\ latecomer' = FALSE
  /\ UNCHANGED <<pushed, strokes, draftRowVars, blind>>

\* router.push: the next page is there, and the form is unmounted.
OpenRounds ==
  /\ screen = "basics" /\ phase = "leaving"
  /\ LoadDraft("rounds", pushed)
  /\ overdue' = (Saves # {})
  /\ shown' = IF Finalizing THEN shown \cup {row[pushed]} ELSE {}
  /\ UNCHANGED <<calls, answer, late>>

OpenReport ==
  /\ screen = "rounds" /\ phase = "leaving"
  /\ screen' = "left" /\ timer' = NoContent
  /\ UNCHANGED <<phase, content, lastSaved, formDraft, calls, answer, pushed, late, strokes, draftRowVars, formGhosts>>

\* A plain link, at any time: the page is loaded anew.
BackToBasics ==
  /\ screen = "rounds"
  /\ LoadDraft("basics", formDraft)
  /\ late' = IF calls # << >> /\ answer = Waiting THEN late \cup {Head(calls)} ELSE late
  /\ Cardinality(late') <= MaxLate
  /\ calls' = << >> /\ answer' = Waiting
  /\ overdue' = FALSE
  /\ shown' = IF Finalizing' THEN shown \cup {row[formDraft]} ELSE {}

FormNext ==
  \/ \E c \in Contents : ChangeForm(c)
  \/ TimerFires \/ HandleContinue \/ HandleSubmit
  \/ ServerWorks \/ ServerRefuses \/ LateWorks
  \/ AutosaveAnswered \/ ContinueAnswered \/ FlushAnswered \/ FinalizeAnswered
  \/ AnswerToNobody
  \/ OpenRounds \/ OpenReport \/ BackToBasics

FormSpec == FormInit /\ [][FormNext]_draftFormVars

-----------------------------------------------------------------------------

\* submit-form.tsx:155: autosave persists what the form holds.  When no timer
\* runs and every call is answered, the draft is what the form shows, until it is
\* a report.  Four things may come in between, and nothing else: the last save
\* failed; a save of something else was out when the form came to show what was
\* saved before (the user took a change back, or went on to the rounds), so that
\* the effect found nothing to do; a save of a page that was left came late; or
\* two first saves crossed, and made two drafts.
SettledIsSaved ==
  screen # "left" /\ phase = "editing" /\ calls = << >> /\ timer = NoContent
    /\ formDraft # 0 /\ submitted = NoContent
    /\ ~overdue /\ ~failed /\ ~latecomer /\ ~blind
  => row[formDraft] = content

\* rounds-form.tsx:178: only finalize once the latest rounds are on the server.
\* The report is what the form showed at the click of Submit, or since then, or
\* what a page that was left was still saving.
ReportIsWhatWasShown == submitted # NoContent => submitted \in shown

\* actions.ts:147, submit.ts:34: one form has one draft, and none once it is
\* submitted, unless a save went out that could not know of it: a second first
\* save, one that was sent while the form was being finalized, or one of a page
\* that was left, and came after that.
StraysAreBlind ==
  ~blind => Cardinality(DraftRows) <= 1 /\ (submitted # NoContent => DraftRows = {})

\* Both: what Submit makes of the form, and what it leaves behind.
ReportAndDraftAgree == ReportIsWhatWasShown /\ StraysAreBlind

=============================================================================
