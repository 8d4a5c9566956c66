----------------------------- MODULE RoundsEditor -----------------------------
(***************************************************************************)
(* The rounds screen of the submission form: rounds, questions and topic   *)
(* tags as the author edits them (rounds-form.tsx, tag-picker.tsx), the    *)
(* draft they are saved as, the gate that turns a draft into a report      *)
(* (validateFinalSubmission, firstBlockingMatch, resolveWriteInput), and   *)
(* the way back: an edit reopens the report as a draft                     *)
(* (reportDetailToDraft).  Who saves when is DraftForm's subject; here a   *)
(* save is immediate and what counts is what the conversions keep.         *)
(*                                                                         *)
(* React's keys only tell rounds and questions apart, as their places do   *)
(* here.  Company, role, level, month and attribution are filled in on the *)
(* previous screen.                                                        *)
(***************************************************************************)
EXTENDS Integers, Sequences, FiniteSets, SequencesExt

CONSTANTS
  RoundTypes, Ratings,  \* the enumerations of the schema
  Texts,                \* texts an author types; "" among them
  Trim,                 \* [Texts -> Texts], String.prototype.trim
  Blocked,              \* texts with contact details or PII
  TopicIds,             \* topics the search offers
  Names,                \* names an author may suggest
  TopicNamed,           \* [Names -> the row suggestTopic finds or creates]
  NameOf,               \* [rows -> their own name, maybe not as it was suggested]
  MAX_ROUNDS, MAX_QUESTIONS_PER_ROUND

Null == "null"

ASSUME TextsAssumption ==
  /\ Null \notin Texts /\ "" \in Texts
  /\ Trim \in [Texts -> Texts] /\ Trim[""] = ""
  /\ \A t \in Texts : Trim[Trim[t]] = Trim[t]
ASSUME RoundsBounds == MAX_ROUNDS \in Nat /\ MAX_QUESTIONS_PER_ROUND \in Nat

VARIABLE rounds   \* the screen

roundsVars == <<rounds>>

Existing(id) == [kind |-> "existing", tag |-> id]
Suggested(name) == [kind |-> "suggested", tag |-> name]

Tags == {Existing(id) : id \in TopicIds \cup {TopicNamed[n] : n \in Names}}
          \cup {Suggested(n) : n \in Names}
Question == [prose : Texts, tags : Seq(Tags)]
Round == [roundType : RoundTypes \cup {Null}, rating : Ratings \cup {Null},
          experience : Texts, questions : Seq(Question), collapsed : BOOLEAN]

NewQuestion == [prose |-> "", tags |-> <<>>]
NewRound == [roundType |-> Null, rating |-> Null, experience |-> "",
             questions |-> <<>>, collapsed |-> FALSE]

------------------------------------------------------------------------------
(* Form and draft *)

ToDraftRounds(rs) ==
  [i \in DOMAIN rs |->
    [roundType |-> rs[i].roundType, rating |-> rs[i].rating,
     experience |-> rs[i].experience, questions |-> rs[i].questions]]

OrEmpty(text) == IF text = Null THEN "" ELSE text

FromDraftRounds(ds) ==
  [i \in DOMAIN ds |->
    [roundType |-> ds[i].roundType, rating |-> ds[i].rating,
     experience |-> OrEmpty(ds[i].experience),
     questions |-> ds[i].questions,
     collapsed |-> TRUE]]

------------------------------------------------------------------------------
(* The gate *)

ActiveTagCount(tags) == Cardinality({j \in DOMAIN tags : tags[j].kind = "existing"})

RoundIssues(d) ==
  [roundType |-> d.roundType = Null, rating |-> d.rating = Null,
   questions |-> [k \in DOMAIN d.questions |->
     [prose |-> Trim[d.questions[k].prose] = "",
      tags |-> ActiveTagCount(d.questions[k].tags) < 1]]]

ValidateFinalSubmission(ds) ==
  \A i \in DOMAIN ds :
    LET issue == RoundIssues(ds[i])
    IN  /\ ~issue.roundType /\ ~issue.rating
        /\ \A k \in DOMAIN issue.questions :
             ~issue.questions[k].prose /\ ~issue.questions[k].tags

\* data2: experience is trimmed to null, prose to its text.
FinalRounds(ds) ==
  [i \in DOMAIN ds |->
    [roundType |-> ds[i].roundType, rating |-> ds[i].rating,
     experience |-> IF Trim[OrEmpty(ds[i].experience)] = "" THEN Null
                    ELSE Trim[ds[i].experience],
     questions |-> [k \in DOMAIN ds[i].questions |->
       [prose |-> Trim[ds[i].questions[k].prose], tags |-> ds[i].questions[k].tags]]]]

SubmissionTexts(final) ==
  {final[i].experience : i \in DOMAIN final}
    \cup {final[ik[1]].questions[ik[2]].prose :
            ik \in {ik \in (1..MAX_ROUNDS) \X (1..MAX_QUESTIONS_PER_ROUND) :
                      ik[1] \in DOMAIN final /\ ik[2] \in DOMAIN final[ik[1]].questions}}

FirstBlockingMatch(final) == SubmissionTexts(final) \cap Blocked # {}

ResolveTopicIds(tags) ==
  [k \in DOMAIN tags |-> IF tags[k].kind = "existing" THEN tags[k].tag
                         ELSE TopicNamed[tags[k].tag]]

\* The rows of the report; a question's topics are a set.
ResolveWriteInput(final) ==
  [i \in DOMAIN final |->
    [final[i] EXCEPT !.questions = [k \in DOMAIN @ |->
      [prose |-> @[k].prose, topics |-> ToSet(ResolveTopicIds(@[k].tags))]]]]

CanFinalize(ds) == ValidateFinalSubmission(ds) /\ ~FirstBlockingMatch(FinalRounds(ds))
Report(ds) == ResolveWriteInput(FinalRounds(ds))

------------------------------------------------------------------------------
(* The way back *)

\* A defect: an edit reopens the topics as suggestions.
ReopenAsSuggested(report) ==
  [i \in DOMAIN report |->
    [report[i] EXCEPT !.questions = [k \in DOMAIN @ |->
      [prose |-> @[k].prose,
       tags |-> [j \in DOMAIN SetToSeq(@[k].topics) |->
                  Suggested(CHOOSE n \in Names :
                              TopicNamed[n] = SetToSeq(@[k].topics)[j])]]]]]

ReportDetailToDraft(report) ==
  [i \in DOMAIN report |->
    [report[i] EXCEPT !.questions = [k \in DOMAIN @ |->
      [prose |-> @[k].prose,
       tags |-> [j \in DOMAIN SetToSeq(@[k].topics) |->
                  Existing(SetToSeq(@[k].topics)[j])]]]]]

------------------------------------------------------------------------------
(* The author *)

RoundsTypeOK ==
  /\ rounds \in Seq(Round) /\ Len(rounds) <= MAX_ROUNDS
  /\ \A i \in DOMAIN rounds :
       /\ Len(rounds[i].questions) <= MAX_QUESTIONS_PER_ROUND
       /\ \A k \in DOMAIN rounds[i].questions : IsInjective(rounds[i].questions[k].tags)

RoundsInit == rounds = <<>>

AddRound ==
  /\ Len(rounds) < MAX_ROUNDS
  /\ rounds' = Append(rounds, NewRound)

RemoveRound(i) == rounds' = RemoveAt(rounds, i)

PatchRound(i) ==
  \/ \E type \in RoundTypes \cup {Null} : rounds' = [rounds EXCEPT ![i].roundType = type]
  \/ \E rating \in Ratings : rounds' = [rounds EXCEPT ![i].rating = rating]
  \/ \E text \in Texts : rounds' = [rounds EXCEPT ![i].experience = text]

ToggleCollapsed(i) == rounds' = [rounds EXCEPT ![i].collapsed = ~@]

AddQuestion(i) ==
  /\ Len(rounds[i].questions) < MAX_QUESTIONS_PER_ROUND
  /\ rounds' = [rounds EXCEPT ![i].questions = Append(@, NewQuestion)]

RemoveQuestion(i, k) == rounds' = [rounds EXCEPT ![i].questions = RemoveAt(@, k)]

PatchQuestion(i, k, text) == rounds' = [rounds EXCEPT ![i].questions[k].prose = text]

AddTag(i, k, t) ==
  /\ t \notin ToSet(rounds[i].questions[k].tags)
  /\ rounds' = [rounds EXCEPT ![i].questions[k].tags = Append(@, t)]

\* A name that is a chosen topic's own is not suggested beside it.
HandleSuggestNew(i, k, name) ==
  /\ \A t \in ToSet(rounds[i].questions[k].tags) :
       t.kind = "existing" => NameOf[t.tag] # name
  /\ AddTag(i, k, Suggested(name))

\* No tag is there twice, so what the key filters out is one chip.
RemoveTag(i, k, j) == rounds' = [rounds EXCEPT ![i].questions[k].tags = RemoveAt(@, j)]

\* Leave, and resume the saved draft.
ResumeDraft == rounds' = FromDraftRounds(ToDraftRounds(rounds))

\* handleSubmit, then "Edit" on the report.
SubmitAndReopen ==
  /\ CanFinalize(ToDraftRounds(rounds))
  /\ rounds' = FromDraftRounds(ReportDetailToDraft(Report(ToDraftRounds(rounds))))

RoundsNext ==
  \/ AddRound \/ ResumeDraft \/ SubmitAndReopen
  \/ \E i \in DOMAIN rounds :
       \/ RemoveRound(i) \/ PatchRound(i) \/ ToggleCollapsed(i) \/ AddQuestion(i)
       \/ \E k \in DOMAIN rounds[i].questions :
            \/ RemoveQuestion(i, k)
            \/ \E text \in Texts : PatchQuestion(i, k, text)
            \/ \E id \in TopicIds : AddTag(i, k, Existing(id))
            \/ \E n \in Names : HandleSuggestNew(i, k, n)
            \/ \E j \in DOMAIN rounds[i].questions[k].tags : RemoveTag(i, k, j)

RoundsSpec == RoundsInit /\ [][RoundsNext]_roundsVars

------------------------------------------------------------------------------
(* Property *)

\* An edit that changes nothing changes nothing: a report reopened as a draft,
\* loaded into the form, saved and finalized again passes the gate and is the
\* report it was, whatever texts, topics and suggestions it was written with
\* (rehydrate.ts:7-31 against helpers.ts:30-71, submission.ts:203-262 and
\* submit.ts:53-118).
EditKeepsReport ==
  LET ds == ToDraftRounds(rounds)
      again == ToDraftRounds(FromDraftRounds(ReportDetailToDraft(Report(ds))))
  IN  CanFinalize(ds) => CanFinalize(again) /\ Report(again) = Report(ds)

==============================================================================
