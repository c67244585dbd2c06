-------------------------- MODULE FlowReviewProofs --------------------------
(***************************************************************************)
(* Proofs about FlowEngine that are about several messages: what the       *)
(* customer is shown, what he may answer, and where "back" leads.  They    *)
(* rest on the invariants of FlowEngineProofs.  Two of them hold for flows *)
(* of a certain kind only, which the theorem names: the runs               *)
(* review_any_text and two_identifications show what other flows do.       *)
(***************************************************************************)
EXTENDS FlowEngineProofs, AuthoredFlows

-----------------------------------------------------------------------------
\* The inductive invariants.

Summary(id) == [kind |-> "summary", about |-> id]

\* While the summary of a review is the last thing the customer was sent, the
\* review waits for a confirmation and not for a field to correct.
Summarised ==
  \A id \in StepIds \cup {NoStep} : changes = 0 /\ screen = Summary(id) =>
    /\ id \in DOMAIN def.steps /\ def.steps[id].type = "REVIEW"
    /\ ~meta.review_mode

\* The step a message found is known from its dispatch to its release.
Found ==
  /\ from \in StepIds \cup {NoStep}
  /\ pc \in {"idle", "dispatch"} => from = NoStep

\* A message that neither confirms nor goes back gets no further than the
\* review it found.
Unconfirmed ==
  changes = 0 /\ screen = Summary(from) /\ Lower(msg) \notin {"1", "0", "voltar"}
    /\ pc \in {"input", "enter", "exec"} => at = from

\* The step "at" will ask for the variable.
WillAsk(key) ==
  /\ at \in DOMAIN def.steps
  /\ Here.type = "CUSTOMER_IDENTIFICATION" /\ ~Here.skip
  /\ meta.field_idx + 1 \in DOMAIN Here.fields
  /\ Here.fields[meta.field_idx + 1].variable = key

\* A field chosen for correction is on its way to being asked for.
Correcting ==
  /\ pc = "input" => count = 0
  /\ Undisturbed /\ fixing # "" =>
       /\ pc \in {"enter", "exec", "release"}
       /\ pc = "enter" => count = 0 /\ WillAsk(fixing)
       /\ pc = "exec" => WillAsk(fixing)
       /\ pc = "release" => screen = [kind |-> "ask", about |-> fixing]

\* The step the conversation is at is on top of the history, if there is any.
OnTop ==
  Undisturbed /\ pc # "enter" /\ RestingAt(ListedTypes) /\ history # <<>> => Head(history) = step

-----------------------------------------------------------------------------
\* What the handlers send, and what they make of the review's mode.

LEMMA SaidOther ==
  ASSUME NEW kind, NEW about, kind # "summary", Say(kind, about)
  PROVE  (\A id : screen' # Summary(id)) /\ fixing' = fixing /\ from' = from
<1>1. screen'.kind # "summary"
  BY DEF Say
<1>2. \A id : Summary(id).kind = "summary"
  BY DEF Summary
<1> QED
  BY <1>1, <1>2 DEF Say

\* A summary comes from the review that is being worked on.
FromReview ==
  \A id : screen' = Summary(id) => \/ screen' = screen
                                   \/ /\ id = at /\ Here.type = "REVIEW" /\ pc' = "release"
                                      /\ ~meta'.review_mode

\* Running a step chooses no field to correct, and a review that is not
\* skipped rests.
LEMMA ExecuteShows ==
  ASSUME Shape, pc = "exec", Execute
  PROVE  /\ FromReview /\ fixing' = fixing
         /\ meta'.review_mode => meta.review_mode
         /\ Here.type = "REVIEW" /\ ~Here.skip => pc' = "release"
<1>1. meta \in Metadata(StepIds)
  BY DEF Shape, TypeOK
<1>2. ASSUME Silent \/ (\E kind, about : kind # "summary" /\ Say(kind, about))
      PROVE  FromReview /\ fixing' = fixing
  BY <1>2, SaidOther DEF Silent, seen, FromReview
<1>3. ASSUME TextExecute \/ DelayExecute \/ JumpExecute \/ SetVariableExecute \/ ConditionExecute
             \/ SwitchExecute \/ HandoverExecute \/ EndExecute \/ InputExecute \/ OptionsExecute
             \/ MediaExecute \/ HttpExecute
      PROVE  FromReview /\ fixing' = fixing /\ meta' = meta
  BY <1>2, <1>3 DEF TextExecute, DelayExecute, JumpExecute, SetVariableExecute, ConditionExecute,
     SwitchExecute, HandoverExecute, EndExecute, InputExecute, OptionsExecute, MediaExecute,
     HttpExecute, session
<1>4. ASSUME IdentificationExecute
      PROVE  FromReview /\ fixing' = fixing /\ (meta'.review_mode => meta.review_mode)
  BY <1>2, <1>4 DEF IdentificationExecute, NoMetadata
<1>5. CASE Here.type = "REVIEW" /\ ReviewExecute
  <2>1. ~meta'.review_mode
    BY <1>1, <1>5 DEF ReviewExecute, ShownMeta, Metadata
  <2>2. CASE ReviewSkips
    BY <1>2, <1>5, <2>1, <2>2 DEF ReviewExecute, ReviewSkips, SmartSkip
  <2>3. CASE ~ReviewSkips
    <3>1. Say("summary", at) /\ pc' = "release"
      BY <1>5, <2>3 DEF ReviewExecute, Rest
    <3>2. \A id : Summary(id).about = id
      BY DEF Summary
    <3>3. screen' = Summary(at) /\ fixing' = fixing
      BY <3>1 DEF Say, Summary
    <3>4. FromReview
      BY <1>5, <2>1, <3>1, <3>2, <3>3 DEF FromReview
    <3> QED
      BY <2>1, <3>1, <3>3, <3>4
  <2> QED
    BY <2>2, <2>3
<1> QED
  BY <1>3, <1>4, <1>5, ExecuteByType

\* A message that does not confirm the summary leaves the review's mode as it
\* is, is answered, or goes round to the review.
LEMMA InputShows ==
  ASSUME Shape, pc = "input", ProcessInput
  PROVE  /\ FromReview
         /\ meta'.review_mode => meta.review_mode \/ \A id : screen' # Summary(id)
         /\ Here.type = "REVIEW" /\ ~meta.review_mode /\ msg # "1"
              => pc' = "release" \/ (pc' = "enter" /\ at' = at)
         /\ fixing' # fixing => Here.type = "REVIEW" /\ ReviewCorrect
<1>1. meta \in Metadata(StepIds)
  BY DEF Shape, TypeOK
<1>2. at # NoStep
  BY HereIsStep DEF Shape
<1>3. ASSUME Silent \/ (\E kind, about : kind # "summary" /\ Say(kind, about))
      PROVE  FromReview /\ fixing' = fixing
  BY <1>3, SaidOther DEF Silent, seen, FromReview
<1>4. ASSUME TextInput \/ InputInput \/ OptionsInput \/ DeafInput \/ IdentificationInput
      PROVE  FromReview /\ fixing' = fixing /\ (meta'.review_mode => meta.review_mode)
  <2>1. ASSUME TextInput \/ OptionsInput \/ DeafInput \/ IdentificationRejected
        PROVE  FromReview /\ fixing' = fixing /\ meta' = meta
    BY <1>3, <2>1 DEF TextInput, OptionsInput, DeafInput, IdentificationRejected, session
  <2>2. CASE InputRejected
    <3>1. meta'.review_mode = meta.review_mode
      BY <1>1, <2>2 DEF InputRejected, Metadata
    <3> QED
      BY <1>3, <2>2, <3>1 DEF InputRejected
  <2>3. CASE InputAccepted
    <3>1. meta'.review_mode = meta.review_mode
      BY <1>1, <2>3 DEF InputAccepted, Metadata
    <3> QED
      BY <1>3, <2>3, <3>1 DEF InputAccepted
  <2>4. CASE IdentificationLost
    BY <1>3, <2>4 DEF IdentificationLost, NoMetadata
  <2>5. CASE IdentificationAccepted
    <3>1. meta'.review_mode = meta.review_mode
      BY <1>1, <2>5 DEF IdentificationAccepted, Metadata
    <3> QED
      BY <1>3, <2>5, <3>1 DEF IdentificationAccepted
  <2> QED
    BY <1>4, <2>1, <2>2, <2>3, <2>4, <2>5 DEF InputInput, IdentificationInput
<1>5. CASE Here.type = "REVIEW" /\ ReviewInput
  <2>1. CASE ReviewConfirmed
    BY <1>3, <2>1 DEF ReviewConfirmed
  <2>2. CASE ReviewEdit
    <3>1. FromReview /\ fixing' = fixing
      BY <1>3, <2>2 DEF ReviewEdit
    <3>2. \A id : screen' # Summary(id)
      BY <2>2, SaidOther DEF ReviewEdit
    <3> QED
      BY <2>2, <3>1, <3>2 DEF ReviewEdit, Rest
  <2>3. CASE ReviewOther
    BY <1>2, <1>3, <2>3 DEF ReviewOther, Continue, session
  <2>4. CASE ReviewBackToSummary
    <3>1. ~meta'.review_mode
      BY <1>1, <2>4 DEF ReviewBackToSummary, ShownMeta, Metadata
    <3>2. CASE ReviewSkips
      BY <1>3, <2>4, <3>1, <3>2 DEF ReviewBackToSummary, Rest
    <3>3. CASE ~ReviewSkips
      <4>1. \A id : Summary(id).about = id
        BY DEF Summary
      <4>2. screen' = Summary(at) /\ fixing' = fixing /\ pc' = "release"
        BY <2>4, <3>3 DEF ReviewBackToSummary, Say, Summary, Rest
      <4> QED
        BY <1>5, <3>1, <4>1, <4>2 DEF FromReview
    <3> QED
      BY <3>2, <3>3
  <2>5. CASE ReviewBadField
    BY <1>3, <2>5 DEF ReviewBadField, Rest, session
  <2>6. CASE ReviewCorrect
    <3>1. screen'.kind = "correcting"
      BY <2>6 DEF ReviewCorrect
    <3>2. \A id : Summary(id).kind = "summary"
      BY DEF Summary
    <3> QED
      BY <1>5, <2>6, <3>1, <3>2 DEF FromReview, ReviewCorrect
  <2> QED
    BY <1>5, <2>1, <2>2, <2>3, <2>4, <2>5, <2>6 DEF ReviewInput
<1> QED
  BY <1>4, <1>5, InputByType DEF DeafTypes

-----------------------------------------------------------------------------
\* Which step a message found.

LEMMA InitFound == Init => Found
BY DEF Init, Found

LEMMA NextFound ==
  ASSUME Steady, Found, [Next]_vars
  PROVE  Found'
<1>1. step \in StepIds \cup {NoStep}
  BY DEF Steady, Shape, TypeOK
<1>2. ASSUME NEW m, Receive(m) PROVE Found'
  BY <1>2 DEF Receive, Found, seen
<1>3. ASSUME Passive \/ Blocked PROVE Found'
  BY <1>3 DEF Passive, Blocked, Rest, Found, seen
<1>4. ASSUME GoBack \/ Start \/ StartOver \/ Answer PROVE Found'
  <2>1. from' = Standing /\ pc' \in {"enter", "input"}
    BY <1>4 DEF GoBack, Start, StartOver, Answer, StartChain
  <2> QED
    BY <1>1, <2>1 DEF Standing, Found
<1>5. CASE pc = "input" /\ ProcessInput
  BY <1>5, InputEffect DEF Answered, Handled, Found, Steady
<1>6. CASE pc = "exec" /\ Execute
  BY <1>6, ExecuteEffect DEF Executed, Handled, Found, Steady
<1>7. ASSUME StopLoop \/ EnterNowhere \/ EnterStep \/ Release PROVE Found'
  BY <1>7 DEF StopLoop, EnterNowhere, EnterStep, Release, Rest, Say, Silent, seen, Found
<1>8. ASSUME Interrupt \/ InterruptEntering PROVE Found'
  BY <1>8 DEF Interrupt, InterruptEntering, Stop, seen, Found
<1>9. ASSUME Expire \/ Unblock \/ ResetFlow \/ ToggleActive \/ \E f \in Flows : Publish(f) \/ Attach(f)
      PROVE  Found'
  BY <1>9 DEF Expire, Unblock, ResetFlow, ToggleActive, Publish, Attach, Change, seen, Found
<1>10. CASE UNCHANGED vars
  BY <1>10 DEF vars, seen, Found
<1> QED
  BY <1>2, <1>3, <1>4, <1>5, <1>6, <1>7, <1>8, <1>9, <1>10 DEF Next, Work, Interfere, ProcessInput,
     Execute

-----------------------------------------------------------------------------
\* A summary that is shown.

LEMMA InitSummarised == Init => Summarised
<1>1. \A id \in StepIds \cup {NoStep} : Summary(id) \in [kind : {"summary"}, about : StepIds \cup {NoStep}]
  BY DEF Summary
<1> QED
  BY <1>1, EngineAssumption DEF Init, Summarised

LEMMA NextSummarised ==
  ASSUME Steady, Summarised, [Next]_vars
  PROVE  Summarised'
<1> SUFFICES ASSUME NEW id \in StepIds \cup {NoStep}, changes' = 0, screen' = Summary(id)
             PROVE  /\ id \in DOMAIN def'.steps /\ def'.steps[id].type = "REVIEW"
                    /\ ~meta'.review_mode
  BY DEF Summarised, Summary
<1>1. changes = 0 /\ def' = def
  BY OneDefinition
<1>2. ASSUME screen' = screen, meta'.review_mode => meta.review_mode
      PROVE  /\ id \in DOMAIN def'.steps /\ def'.steps[id].type = "REVIEW"
             /\ ~meta'.review_mode
  BY <1>1, <1>2 DEF Summarised
<1>3. ASSUME NEW m, Receive(m) PROVE screen' = screen /\ meta' = meta
  BY <1>3 DEF Receive, seen, session
<1>4. ASSUME Passive \/ Blocked \/ GoBack \/ Start \/ StartOver \/ Answer
      PROVE  screen' = screen /\ meta' = meta
  BY <1>4 DEF Passive, Blocked, GoBack, Start, StartOver, Answer, StartChain, seen, session
<1>5. CASE pc = "input" /\ ProcessInput
  <2>1. /\ FromReview
        /\ meta'.review_mode => meta.review_mode
    BY <1>5, InputShows DEF Steady
  <2>2. CASE screen' = screen
    BY <1>2, <2>1, <2>2
  <2>3. CASE id = at /\ Here.type = "REVIEW" /\ ~meta'.review_mode
    BY <1>1, <1>5, <2>3 DEF Steady, Shape, TypeOK, Here
  <2> QED
    BY <2>1, <2>2, <2>3 DEF FromReview
<1>6. CASE pc = "exec" /\ Execute
  <2>1. /\ FromReview
        /\ meta'.review_mode => meta.review_mode
    BY <1>6, ExecuteShows DEF Steady
  <2>2. CASE screen' = screen
    BY <1>2, <2>1, <2>2
  <2>3. CASE id = at /\ Here.type = "REVIEW" /\ ~meta'.review_mode
    BY <1>1, <1>6, <2>3 DEF Steady, Shape, TypeOK, Here
  <2> QED
    BY <2>1, <2>2, <2>3 DEF FromReview
<1>7. ASSUME StopLoop PROVE FALSE
  BY <1>7, SaidOther DEF StopLoop
<1>8. ASSUME EnterNowhere \/ EnterStep \/ Release PROVE screen' = screen /\ meta' = meta
  BY <1>8 DEF EnterNowhere, EnterStep, Release, Silent, seen, session
<1>9. ASSUME Interrupt \/ InterruptEntering \/ Unblock PROVE screen' = screen /\ meta' = meta
  BY <1>9 DEF Interrupt, InterruptEntering, Stop, Unblock, seen, session
<1>10. CASE Expire
  <2>1. screen' = screen /\ meta' \in {meta, NoMetadata(StepIds)}
    BY <1>10 DEF Expire, seen
  <2> QED
    BY <1>2, <2>1 DEF NoMetadata
<1>11. ASSUME ResetFlow \/ ToggleActive \/ \E f \in Flows : Publish(f) \/ Attach(f) PROVE FALSE
  BY <1>1, <1>11 DEF ResetFlow, ToggleActive, Publish, Attach, Change
<1>12. CASE UNCHANGED vars
  BY <1>2, <1>12 DEF vars, seen, session
<1> QED
  BY <1>2, <1>3, <1>4, <1>5, <1>6, <1>7, <1>8, <1>9, <1>10, <1>11, <1>12 DEF Next, Work, Interfere,
     ProcessInput, Execute

\* Without a confirmation, a message that found a review whose summary was
\* shown stays at it.
LEMMA NextUnconfirmed ==
  ASSUME ShownReviews, Steady, Found, Summarised, Unconfirmed, [Next]_vars
  PROVE  Unconfirmed'
<1> SUFFICES ASSUME changes' = 0, screen' = Summary(from'), pc' \in {"input", "enter", "exec"},
                    Lower(msg') \notin {"1", "0", "voltar"}
             PROVE  at' = from'
  BY DEF Unconfirmed, Summary
<1>1. changes = 0 /\ def' = def /\ flow' = flow /\ def = flow
  BY OneDefinition DEF Steady, Settled
<1>2. from' \in DOMAIN def.steps /\ from' # NoStep
  <2>1. Found' /\ Summarised'
    BY NextFound, NextSummarised
  <2>2. from' \in DOMAIN def'.steps
    BY <2>1 DEF Found, Summarised, Summary
  <2> QED
    BY <1>1, <2>2, EngineAssumption DEF Steady, Shape, TypeOK
<1>3. msg' # "1"
  BY EngineAssumption
<1>4. ASSUME NEW m, Receive(m) PROVE FALSE
  BY <1>4 DEF Receive
<1>5. ASSUME Passive \/ Blocked \/ StopLoop \/ EnterNowhere \/ Release PROVE FALSE
  BY <1>5 DEF Passive, Blocked, StopLoop, EnterNowhere, Release, Rest
<1>6. ASSUME GoBack PROVE FALSE
  BY <1>6 DEF GoBack, BackAsked, StartChain
<1>7. ASSUME Start \/ StartOver PROVE FALSE
  <2>1. from' = Standing /\ (Standing = NoStep \/ Standing \notin DOMAIN flow.steps)
    BY <1>7 DEF Start, StartOver, StartChain
  <2> QED
    BY <1>1, <1>2, <2>1
<1>8. CASE Answer
  BY <1>8 DEF Answer
<1>9. CASE pc = "input" /\ ProcessInput
  <2>1. from' = from /\ msg' = msg
    BY <1>9, InputEffect DEF Answered, Handled, Steady
  <2>2. screen' = screen
    BY <1>9, InputShows DEF FromReview, Steady
  <2>3. at = from
    BY <1>1, <1>9, <2>1, <2>2 DEF Unconfirmed
  <2>4. Here.type = "REVIEW" /\ ~meta.review_mode
    BY <1>1, <2>1, <2>2, <2>3 DEF Summarised, Found, Here
  <2>5. at' = at
    BY <1>3, <1>9, <2>1, <2>4, InputShows DEF Steady
  <2> QED
    BY <2>1, <2>3, <2>5
<1>10. ASSUME pc = "exec", Execute PROVE FALSE
  <2>1. from' = from /\ msg' = msg
    BY <1>10, ExecuteEffect DEF Executed, Handled, Steady
  <2>2. screen' = screen
    BY <1>10, ExecuteShows DEF FromReview, Steady
  <2>3. at = from
    BY <1>1, <1>10, <2>1, <2>2 DEF Unconfirmed
  <2>4. Here.type = "REVIEW"
    BY <1>1, <2>1, <2>2, <2>3 DEF Summarised, Found, Here
  <2>5. ~Here.skip
    BY <1>10, <2>4 DEF ShownReviews, Steady, Shape, TypeOK, Here
  <2> QED
    BY <1>10, <2>4, <2>5, ExecuteShows DEF Steady
<1>11. CASE EnterStep
  BY <1>1, <1>11 DEF EnterStep, Silent, seen, Unconfirmed
<1>12. ASSUME Interrupt \/ InterruptEntering PROVE FALSE
  BY <1>12 DEF Interrupt, InterruptEntering, Stop
<1>13. ASSUME Expire PROVE FALSE
  BY <1>13 DEF Expire
<1>14. CASE Unblock
  BY <1>1, <1>14 DEF Unblock, work, seen, Unconfirmed
<1>15. ASSUME ResetFlow \/ ToggleActive \/ \E f \in Flows : Publish(f) \/ Attach(f) PROVE FALSE
  BY <1>1, <1>15 DEF ResetFlow, ToggleActive, Publish, Attach, Change
<1>16. CASE UNCHANGED vars
  BY <1>1, <1>16 DEF vars, work, seen, Unconfirmed
<1> QED
  BY <1>4, <1>5, <1>6, <1>7, <1>8, <1>9, <1>10, <1>11, <1>12, <1>13, <1>14, <1>15, <1>16
  DEF Next, Work, Interfere, ProcessInput, Execute

\* Where no review is skipped, a customer who was shown a summary gets past it
\* by "1" or by going back, whatever he writes first, whatever is interrupted
\* and whichever key expires (review.handler.ts:55-56, 97-114).
THEOREM ConfirmedHolds ==
  ASSUME ShownReviews
  PROVE  Spec => SummaryConfirmed
<1>1. Init => Unconfirmed
  BY DEF Init, Unconfirmed
<1>2. Unconfirmed /\ [Next]_vars
        => [EnterStep /\ changes = 0 /\ screen = [kind |-> "summary", about |-> from] /\ at # from
              => Lower(msg) \in {"1", "0", "voltar"}]_vars
  BY DEF Unconfirmed, Summary, EnterStep
<1>3. Steady /\ Found /\ Summarised /\ Unconfirmed /\ [Next]_vars => Unconfirmed'
  BY NextUnconfirmed
<1> QED
  BY <1>1, <1>2, <1>3, InitSteady, NextSteady, InitFound, NextFound, InitSummarised, NextSummarised,
     PTL DEF Spec, SummaryConfirmed

-----------------------------------------------------------------------------
\* A correction.

\* Where every review is correctable, the field that is chosen is the one the
\* correction step will ask for.
LEMMA CorrectionLeads ==
  ASSUME CorrectableReviews, Steady, pc = "input", Here.type = "REVIEW", ReviewCorrect, def' = def
  PROVE  pc' = "enter" /\ count' = count /\ WillAsk(fixing)'
<1> DEFINE key == Here.fields[FieldNumber]
           c == Here.correction
           fields == def.steps[c].fields
           idx == CorrectionIndexes(key)
<1>1. def \in Flows /\ at \in DOMAIN def.steps
  BY DEF Steady, Shape, TypeOK
<1>2. FieldNumber \in DOMAIN Here.fields /\ fixing' = key
  BY DEF ReviewCorrect
<1>3. /\ c \in DOMAIN def.steps
      /\ def.steps[c].type = "CUSTOMER_IDENTIFICATION" /\ ~def.steps[c].skip
      /\ \E k \in DOMAIN fields : fields[k].variable = key
  BY <1>1, <1>2 DEF CorrectableReviews, Here
<1>4. DOMAIN fields \subseteq Nat \ {0}
  BY <1>1, <1>3, EngineAssumption DEF WellFormed
<1>5. idx = {k - 1 : k \in {k \in DOMAIN fields : fields[k].variable = key}}
  BY <1>3 DEF CorrectionIndexes
<1>6. idx # {}
  BY <1>3, <1>5
<1>7. idx \subseteq Nat
  BY CorrectionIndexesFit DEF Steady, Shape
<1>8. Least(idx) \in idx
  BY <1>6, <1>7, LeastIn
<1>9. Least(idx) + 1 \in DOMAIN fields /\ fields[Least(idx) + 1].variable = key
  <2>1. PICK k \in DOMAIN fields : fields[k].variable = key /\ Least(idx) = k - 1
    BY <1>5, <1>8
  <2>2. Least(idx) + 1 = k
    BY <1>4, <2>1
  <2> QED
    BY <2>1, <2>2
<1>10. c # NoStep /\ Or(c, at) = c
  BY <1>1, <1>3, EngineAssumption DEF Or
<1>11. pc' = "enter" /\ at' = c /\ count' = count
  BY <1>10 DEF ReviewCorrect, Continue
<1>12. meta'.field_idx = Least(idx)
  <2>1. meta \in Metadata(StepIds)
    BY DEF Steady, Shape, TypeOK
  <2>2. meta' = [meta EXCEPT !.review_mode = FALSE, !.edit_one_mode = TRUE, !.field_idx = Least(idx)]
    BY <1>6 DEF ReviewCorrect
  <2> HIDE DEF idx
  <2> QED
    BY <2>1, <2>2 DEF Metadata
<1> HIDE DEF idx, key
<1> QED
  BY <1>2, <1>3, <1>9, <1>11, <1>12 DEF WillAsk, Here

LEMMA NextCorrecting ==
  ASSUME CorrectableReviews, Steady, Correcting, [Next]_vars
  PROVE  Correcting'
<1> DEFINE OnTheWay == /\ pc' \in {"enter", "exec", "release"}
                       /\ pc' = "enter" => count' = 0 /\ WillAsk(fixing)'
                       /\ pc' = "exec" => WillAsk(fixing)'
                       /\ pc' = "release" => screen' = [kind |-> "ask", about |-> fixing']
<1>1. Undisturbed' => changes = 0 /\ def' = def
  BY OneDefinition DEF Undisturbed
<1>2. interrupts \in Nat /\ expiries \in Nat /\ changes \in Nat
  BY DEF Steady, Shape, TypeOK
<1> DEFINE Result == (pc' = "input" => count' = 0) /\ (Undisturbed' /\ fixing' # "" => OnTheWay)
<1>3. SUFFICES Result
  BY DEF Correcting
<1>4. ASSUME NEW m, Receive(m) PROVE Result
  BY <1>4 DEF Receive, Correcting, Undisturbed, bounds, seen
<1>5. ASSUME Passive \/ Blocked \/ GoBack \/ Start \/ StartOver \/ Answer PROVE Result
  <2>1. pc = "dispatch" /\ UNCHANGED <<bounds, fixing>>
    BY <1>5 DEF Passive, Blocked, GoBack, Start, StartOver, Answer, GoingOn, Dispatching,
       StartChain, bounds, seen
  <2>2. ~(Undisturbed' /\ fixing' # "")
    BY <2>1 DEF Correcting, Undisturbed, bounds
  <2>3. pc' = "input" => count' = 0
    BY <1>5 DEF Passive, Blocked, GoBack, Start, StartOver, Answer, StartChain, Rest
  <2> QED
    BY <2>2, <2>3
<1>6. CASE pc = "input" /\ ProcessInput
  <2>1. Answered
    BY <1>6, InputEffect DEF Steady
  <2>2. pc' # "input"
    BY <2>1 DEF Answered, Handled
  <2>3. CASE fixing' = fixing
    BY <1>6, <2>1, <2>2, <2>3 DEF Answered, Handled, Correcting, Undisturbed, bounds
  <2>4. CASE Here.type = "REVIEW" /\ ReviewCorrect
    <3>1. def' = def
      BY <2>1 DEF Answered, Handled
    <3>2. pc' = "enter" /\ count' = count /\ WillAsk(fixing)'
      BY <1>6, <2>4, <3>1, CorrectionLeads
    <3> QED
      BY <1>6, <3>2 DEF Correcting
  <2> QED
    BY <1>6, <2>3, <2>4, InputShows DEF Steady
<1>7. CASE pc = "exec" /\ Execute
  <2>1. Executed /\ fixing' = fixing
    BY <1>7, ExecuteEffect, ExecuteShows DEF Steady
  <2>2. pc' # "input"
    BY <2>1 DEF Executed, Handled
  <2>3. ASSUME Undisturbed', fixing' # "" PROVE OnTheWay
    <3>1. WillAsk(fixing)
      BY <1>7, <2>1, <2>3 DEF Executed, Handled, Correcting, Undisturbed, bounds
    <3>2. IdentificationExecute
      BY <1>7, <3>1, ExecuteByType DEF Steady, WillAsk
    <3>3. ~SmartSkip(Vars(Here.fields))
      BY <3>1 DEF WillAsk, SmartSkip
    <3>4. ~(meta.field_idx >= Len(Here.fields))
      <4>1. def \in Flows /\ at \in DOMAIN def.steps
        BY <1>7 DEF Steady, Shape, TypeOK
      <4>2. Len(Here.fields) \in Nat /\ DOMAIN Here.fields = 1 .. Len(Here.fields)
        BY <3>1, <4>1, EngineAssumption DEF WillAsk, Here, WellFormed
      <4>3. meta.field_idx \in Nat
        BY DEF Steady, Shape, TypeOK, Metadata
      <4> QED
        BY <3>1, <4>2, <4>3 DEF WillAsk
    <3>5. Say("ask", Here.fields[meta.field_idx + 1].variable) /\ pc' = "release"
      BY <3>2, <3>3, <3>4 DEF IdentificationExecute, Rest
    <3> QED
      BY <2>1, <3>1, <3>5 DEF WillAsk, Say
  <2> QED
    BY <2>2, <2>3
<1>8. ASSUME StopLoop \/ EnterNowhere \/ EnterStep PROVE Result
  <2>1. pc = "enter" /\ UNCHANGED <<bounds, fixing>> /\ pc' # "input"
    BY <1>8 DEF StopLoop, EnterNowhere, EnterStep, Rest, Say, Silent, seen
  <2>2. ASSUME Undisturbed', fixing' # "" PROVE OnTheWay
    <3>1. count = 0 /\ WillAsk(fixing)
      BY <2>1, <2>2 DEF Correcting, Undisturbed, bounds
    <3>2. EnterStep
      BY <1>8, <3>1, EngineAssumption DEF StopLoop, EnterNowhere, WillAsk
    <3> QED
      BY <2>1, <3>1, <3>2 DEF EnterStep, WillAsk, Here
  <2> QED
    BY <2>1, <2>2
<1>9. CASE Release
  BY <1>9 DEF Release
<1>10. ASSUME Interrupt \/ InterruptEntering PROVE Result
  <2>1. interrupts' = interrupts + 1 /\ pc' # "input"
    BY <1>10 DEF Interrupt, InterruptEntering, Stop
  <2>2. ~Undisturbed'
    BY <1>2, <2>1 DEF Undisturbed
  <2> QED
    BY <2>1, <2>2
<1>11. CASE Expire
  <2>1. expiries' = expiries + 1 /\ pc' # "input"
    BY <1>11 DEF Expire
  <2>2. ~Undisturbed'
    BY <1>2, <2>1 DEF Undisturbed
  <2> QED
    BY <2>1, <2>2
<1>12. ASSUME ResetFlow \/ ToggleActive \/ \E f \in Flows : Publish(f) \/ Attach(f) PROVE Result
  <2>1. changes' = changes + 1 /\ pc' = pc /\ count' = count
    BY <1>12 DEF ResetFlow, ToggleActive, Publish, Attach, Change, work
  <2>2. ~Undisturbed'
    BY <1>2, <2>1 DEF Undisturbed
  <2>3. pc' = "input" => count' = 0
    BY <2>1 DEF Correcting
  <2> QED
    BY <2>2, <2>3
<1>13. ASSUME Unblock \/ UNCHANGED vars PROVE Result
  <2>1. UNCHANGED <<pc, work, meta, bounds, seen>>
    BY <1>13 DEF Unblock, vars, session
  <2> QED
    BY <2>1 DEF work, bounds, seen, Correcting, Undisturbed, WillAsk, Here
<1> QED
  BY <1>4, <1>5, <1>6, <1>7, <1>8, <1>9, <1>10, <1>11, <1>12, <1>13 DEF Next, Work, Interfere,
     ProcessInput, Execute

\* Where every variable a review shows has a field in an identification that
\* is not skipped, a customer who picks one is asked for that one before the
\* message is done with (review.handler.ts:125-177,
\* customer-identification.handler.ts:14-40).
THEOREM CorrectionHolds ==
  ASSUME CorrectableReviews
  PROVE  Spec => []CorrectionAsks
<1>1. Init => Correcting
  BY DEF Init, Correcting
<1>2. Correcting => CorrectionAsks
  BY DEF Correcting, CorrectionAsks
<1>3. Steady /\ Correcting /\ [Next]_vars => Correcting'
  BY NextCorrecting
<1> QED
  BY <1>1, <1>2, <1>3, InitSteady, NextSteady, PTL DEF Spec

-----------------------------------------------------------------------------
\* The history.

\* What is pushed is on top, whatever is trimmed at the other end.
LEMMA PushedOnTop ==
  ASSUME NEW past \in Seq(StepIds), NEW id \in StepIds
  PROVE  PushHistory(past, id) # <<>> /\ Head(PushHistory(past, id)) = id
<1> DEFINE longer == <<id>> \o past
           trimmed == Trim(longer, HistoryCap)
<1>1. longer \in Seq(StepIds) /\ Len(longer) = Len(past) + 1 /\ longer[1] = id
  BY ConcatProperties
<1>2. Len(past) \in Nat
  BY LenProperties
<1>3. trimmed = PushHistory(past, id)
  BY DEF PushHistory
<1> HIDE DEF longer
<1>4. /\ trimmed \in Seq(StepIds)
      /\ Len(trimmed) = IF Len(longer) < HistoryCap THEN Len(longer) ELSE HistoryCap
      /\ \A i \in 1 .. Len(trimmed) : trimmed[i] = longer[i]
  BY <1>1, TrimFits, StoreAssumption
<1> HIDE DEF trimmed
<1>5. Len(trimmed) \in Nat \ {0}
  BY <1>1, <1>2, <1>4, StoreAssumption
<1>6. trimmed # <<>> /\ trimmed[1] = id
  BY <1>1, <1>4, <1>5, EmptySeq
<1>7. Head(trimmed) = trimmed[1]
  BY <1>4, <1>6, HeadTailProperties
<1> QED
  BY <1>3, <1>6, <1>7

\* If "back" is asked for where there is nothing to go back to, nothing is
\* left of the history.
LEMMA NothingLeft ==
  ASSUME NEW past \in Seq(StepIds), PeekHistory(PopHistory(past)) = NoStep
  PROVE  PopHistory(PopHistory(past)) = <<>>
<1>1. CASE past = <<>>
  BY <1>1 DEF PopHistory
<1>2. CASE past # <<>>
  <2>1. Tail(past) \in Seq(StepIds)
    BY <1>2, HeadTailProperties
  <2>2. Tail(past) # <<>> => Head(Tail(past)) \in StepIds
    BY <2>1, HeadTailProperties
  <2> QED
    BY <1>2, <2>2, EngineAssumption DEF PopHistory, PeekHistory
<1> QED
  BY <1>1, <1>2

LEMMA NextOnTop ==
  ASSUME Steady, OnTop, [Next]_vars
  PROVE  OnTop'
<1> SUFFICES ASSUME Undisturbed', pc' # "enter", RestingAt(ListedTypes)', history' # <<>>
             PROVE  Head(history') = step'
  BY DEF OnTop
<1>1. changes = 0 /\ def' = def
  BY OneDefinition DEF Undisturbed
<1>2. step' \in DOMAIN def.steps /\ step' # NoStep /\ step' \in StepIds
  BY <1>1, EngineAssumption DEF RestingAt, Steady, Shape, TypeOK
<1>3. history \in Seq(StepIds)
  BY DEF Steady, Shape, TypeOK
<1>4. ASSUME UNCHANGED <<step, history, interrupts, expiries>>, pc # "enter"
      PROVE  Head(history') = step'
  BY <1>1, <1>4 DEF OnTop, Undisturbed, RestingAt
<1>5. ASSUME NEW m, Receive(m) PROVE Head(history') = step'
  BY <1>4, <1>5 DEF Receive, session, bounds
<1>6. ASSUME Passive \/ Blocked \/ Release PROVE Head(history') = step'
  BY <1>4, <1>6 DEF Passive, Blocked, Release, session, bounds
<1>7. ASSUME GoBack \/ Start \/ StartOver PROVE FALSE
  BY <1>7 DEF GoBack, Start, StartOver, StartChain
<1>8. CASE Answer
  <2>1. ~BackAsked
    BY <1>3, <1>8, NothingLeft DEF Answer, GoingOn, Previous, HistoryLeft
  <2> QED
    BY <1>4, <1>8, <2>1 DEF Answer, GoingOn, Dispatching, HistoryLeft, bounds
<1>9. CASE pc = "input" /\ ProcessInput
  BY <1>2, <1>4, <1>9, InputEffect DEF Answered, Handled, bounds, Steady
<1>10. CASE pc = "exec" /\ Execute
  BY <1>2, <1>4, <1>10, ExecuteEffect DEF Executed, Handled, bounds, Steady
<1>11. ASSUME StopLoop \/ EnterNowhere PROVE FALSE
  BY <1>2, <1>11 DEF StopLoop, EnterNowhere
<1>12. CASE EnterStep
  <2>1. step' = at /\ history' = Listed
    BY <1>12 DEF EnterStep
  <2>2. Here.type \in ListedTypes
    BY <1>1, <2>1 DEF RestingAt, Here
  <2>3. CASE PeekHistory(history) # at
    BY <1>2, <1>3, <2>1, <2>2, <2>3, PushedOnTop DEF Listed
  <2>4. CASE PeekHistory(history) = at
    BY <1>2, <2>1, <2>4 DEF Listed, PeekHistory
  <2> QED
    BY <2>3, <2>4
<1>13. ASSUME Interrupt \/ InterruptEntering \/ Expire PROVE FALSE
  <2>1. interrupts' = interrupts + 1 \/ expiries' = expiries + 1
    BY <1>13 DEF Interrupt, InterruptEntering, Stop, Expire
  <2>2. interrupts \in Nat /\ expiries \in Nat
    BY DEF Steady, Shape, TypeOK
  <2> QED
    BY <2>1, <2>2 DEF Undisturbed
<1>14. ASSUME ResetFlow \/ ToggleActive \/ \E f \in Flows : Publish(f) \/ Attach(f) PROVE FALSE
  BY <1>1, <1>14 DEF ResetFlow, ToggleActive, Publish, Attach, Change, Undisturbed
<1>15. ASSUME Unblock \/ UNCHANGED vars PROVE Head(history') = step'
  <2>1. UNCHANGED <<pc, session, bounds>>
    BY <1>15 DEF Unblock, vars
  <2> QED
    BY <1>4, <2>1 DEF session, bounds
<1> QED
  BY <1>5, <1>6, <1>7, <1>8, <1>9, <1>10, <1>11, <1>12, <1>13, <1>14, <1>15 DEF Next, Work,
     Interfere, ProcessInput, Execute

\* In every flow, the top of the history is the question the customer is
\* looking at, unless the history is used up: "back" at a step with nothing
\* behind it, the first step or one whose predecessors LTRIM has forgotten,
\* pops what there is and is then taken for an answer
\* (flow.service.ts:154-166, state.service.ts:79).
THEOREM TopHolds == Spec => [](history # <<>> => HistoryTop)
<1>1. Init => OnTop
  BY DEF Init, OnTop
<1>2. OnTop => (history # <<>> => HistoryTop)
  BY DEF OnTop, HistoryTop, RestingAt, ListedTypes, PeekHistory
<1>3. Steady /\ OnTop /\ [Next]_vars => OnTop'
  BY NextOnTop
<1> QED
  BY <1>1, <1>2, <1>3, InitSteady, NextSteady, PTL DEF Spec

=============================================================================
