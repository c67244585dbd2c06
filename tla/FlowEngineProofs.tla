-------------------------- MODULE FlowEngineProofs --------------------------
(***************************************************************************)
(* Proofs about FlowEngine, for every flow, every text a customer may      *)
(* write, every length of the session's lists and every number of          *)
(* exceptions, deaths, expired keys and interfering administrators.        *)
(*                                                                         *)
(* The handlers are looked at twice: Executed and Answered say what running *)
(* a step, and giving it a message, may do to the state, whatever the type *)
(* of the step is.  The invariants rest on those two lemmas.               *)
(***************************************************************************)
EXTENDS FlowEngine, SequenceTheorems, WellFoundedInduction, TLAPS

-----------------------------------------------------------------------------
\* The inductive invariants.

\* The columns of the contact's row that the handlers copy.
UserOK(u) ==
  /\ {"name", "metadata", "protocol", "blocked", "home"} \subseteq DOMAIN u
  /\ u.blocked \in BOOLEAN /\ u.home \in BOOLEAN /\ u.protocol \in Nat

\* A message is never given to an END step.
Shape == TypeOK /\ UserOK(user) /\ (pc = "input" => Here.type # "END")

\* While no administrator interferes, the definition worked with is the one
\* that is published.
Settled == changes = 0 => def = flow /\ active

\* The step worked on is the one in Redis, or an administrator cleared it.
AtWork == pc \in {"input", "exec"} => step = at \/ (changes > 0 /\ step = NoStep)

\* The phases in which the conversation has come to rest.
AtRest == {"idle", "dispatch", "release", "input"}

Rested ==
  interrupts = 0 /\ pc \in AtRest => step = NoStep \/ \E f \in Held : WaitsIn(f, step)

\* A step that is run is in the journey, unless the journey is full.
Entered ==
  pc = "exec" /\ changes = 0 =>
    \/ Len(journey) = JourneyCap
    \/ \E i \in DOMAIN journey : journey[i] = Event("entry")

\* A contact who is blocked is at the END step that did it.
Quiet ==
  user.blocked /\ expiries = 0 /\ changes = 0 => AtEnd /\ pc \in {"idle", "dispatch", "release"}

\* A conversation that rests at an identification has asked for the field
\* it is waiting for.
AskedLast ==
  Undisturbed /\ pc \in AtRest /\ RestingAt({"CUSTOMER_IDENTIFICATION"})
    /\ ~LeadsNowhere(def.steps[step])
    => screen = [kind |-> "ask", about |-> def.steps[step].fields[meta.field_idx + 1].variable]

-----------------------------------------------------------------------------
\* The operators on the session's lists.

\* A set of numbers that is not empty has a least element, and Least names it.
LEMMA LeastIn ==
  ASSUME NEW S, S \subseteq Nat, S # {}
  PROVE  Least(S) \in S
<1>1. PICK i \in S : \A k \in S : ~ (<<k, i>> \in OpToRel(<, Nat))
  BY WFMin, NatLessThanWellFounded
<1>2. \A k \in S : ~ (k < i)
  BY <1>1 DEF OpToRel
<1>3. \A k \in S : i <= k
  BY <1>2
<1> QED
  BY <1>3 DEF Least

\* LTRIM keeps the first elements of a list, at most n of them.
LEMMA TrimFits ==
  ASSUME NEW S, NEW list \in Seq(S), NEW n \in Nat \ {0}
  PROVE  /\ Trim(list, n) \in Seq(S)
         /\ Len(Trim(list, n)) = IF Len(list) < n THEN Len(list) ELSE n
         /\ \A i \in 1 .. Len(Trim(list, n)) : Trim(list, n)[i] = list[i]
<1> DEFINE len == IF Len(list) < n THEN Len(list) ELSE n
<1>1. Len(list) \in Nat /\ \A i \in 1 .. Len(list) : list[i] \in S
  BY LenProperties, ElementOfSeq
<1>2. len \in Nat /\ len <= Len(list)
  BY <1>1
<1>3. \A i \in 1 .. len : list[i] \in S
  BY <1>1, <1>2
<1>4. Trim(list, n) = SubSeq(list, 1, len)
  BY DEF Trim
<1>5. len = IF Len(list) < n THEN Len(list) ELSE n
  OBVIOUS
<1> HIDE DEF len
<1>6. /\ SubSeq(list, 1, len) \in Seq(S)
      /\ Len(SubSeq(list, 1, len)) = IF 1 <= len THEN len - 1 + 1 ELSE 0
      /\ \A i \in 1 .. len - 1 + 1 : SubSeq(list, 1, len)[i] = list[1 + i - 1]
  BY <1>2, <1>3, SubSeqProperties
<1>7. Len(SubSeq(list, 1, len)) = len
  BY <1>2, <1>6
<1>8. \A i \in 1 .. len : SubSeq(list, 1, len)[i] = list[i]
  BY <1>2, <1>6
<1> QED
  BY <1>4, <1>5, <1>6, <1>7, <1>8

\* A step put into the history leaves a history that fits.
LEMMA PushHistoryFits ==
  ASSUME NEW past \in Seq(StepIds), NEW id \in StepIds
  PROVE  /\ PushHistory(past, id) \in Seq(StepIds)
         /\ Len(PushHistory(past, id)) <= HistoryCap
<1> DEFINE longer == <<id>> \o past
<1>1. longer \in Seq(StepIds) /\ Len(longer) \in Nat
  BY ConcatProperties, LenProperties
<1>2. PushHistory(past, id) = Trim(longer, HistoryCap)
  BY DEF PushHistory
<1> HIDE DEF longer
<1> QED
  BY <1>1, <1>2, TrimFits, StoreAssumption

LEMMA PopHistoryFits ==
  ASSUME NEW past \in Seq(StepIds), Len(past) <= HistoryCap
  PROVE  /\ PopHistory(past) \in Seq(StepIds)
         /\ Len(PopHistory(past)) <= HistoryCap
<1>1. CASE past = <<>>
  BY <1>1 DEF PopHistory
<1>2. CASE past # <<>>
  <2>1. Tail(past) \in Seq(StepIds) /\ Len(Tail(past)) = Len(past) - 1 /\ Len(past) \in Nat
    BY <1>2, HeadTailProperties, LenProperties
  <2> QED
    BY <1>2, <2>1, StoreAssumption DEF PopHistory
<1> QED
  BY <1>1, <1>2

\* An event is entered in the journey unless the journey is full.
LEMMA PushJourneyFits ==
  ASSUME NEW S, NEW past \in Seq(S), NEW event \in S
  PROVE  /\ PushJourney(past, event) \in Seq(S)
         /\ Len(PushJourney(past, event)) <= JourneyCap
         /\ \/ Len(PushJourney(past, event)) = JourneyCap
            \/ \E i \in DOMAIN PushJourney(past, event) : PushJourney(past, event)[i] = event
<1> DEFINE longer == Append(past, event)
           next == PushJourney(past, event)
<1>1. Len(past) \in Nat
  BY LenProperties
<1>2. /\ longer \in Seq(S)
      /\ Len(longer) = Len(past) + 1
      /\ longer[Len(past) + 1] = event
  BY AppendProperties
<1>3. next = Trim(longer, JourneyCap)
  BY DEF PushJourney
<1> HIDE DEF longer, next
<1>4. /\ next \in Seq(S)
      /\ Len(next) = IF Len(longer) < JourneyCap THEN Len(longer) ELSE JourneyCap
      /\ \A i \in 1 .. Len(next) : next[i] = longer[i]
  BY <1>2, <1>3, TrimFits, StoreAssumption
<1>5. Len(next) <= JourneyCap
  BY <1>1, <1>2, <1>4, StoreAssumption
<1>6. Len(next) = JourneyCap \/ Len(next) = Len(past) + 1
  BY <1>2, <1>4
<1>7. Len(next) = Len(past) + 1 => next[Len(next)] = event
  BY <1>1, <1>2, <1>4
<1>8. Len(next) = Len(past) + 1 => Len(next) \in DOMAIN next
  BY <1>1, <1>4, LenProperties
<1>9. next \in Seq(S) /\ Len(next) <= JourneyCap
      /\ (Len(next) = JourneyCap \/ \E i \in DOMAIN next : next[i] = event)
  BY <1>4, <1>5, <1>6, <1>7, <1>8
<1> QED
  BY <1>9 DEF next

-----------------------------------------------------------------------------
\* The operators on the contact's row.

\* What becomes of a row when a value is stored in it.
Keeps(u, v) ==
  UserOK(v) /\ v.home = u.home /\ v.blocked = u.blocked /\ v.protocol = u.protocol

LEMMA NewContactFits == UserOK(NewContact(HomeContact))
BY EngineAssumption DEF UserOK, NewContact

LEMMA SetMetaKeeps ==
  ASSUME NEW u, UserOK(u), NEW key, NEW value
  PROVE  Keeps(u, SetMeta(u, key, value))
BY DEF UserOK, Keeps, SetMeta

LEMMA SaveFieldKeeps ==
  ASSUME NEW u, UserOK(u), NEW key, NEW value
  PROVE  Keeps(u, SaveField(u, key, value))
<1>1. CASE key \in {"wpp_name", "name"}
  BY <1>1 DEF SaveField, UserOK, Keeps
<1>2. CASE key \in {"wpp_phone", "phone"}
  BY <1>2, SetMetaKeeps DEF SaveField
<1>3. CASE key \notin {"wpp_name", "name", "wpp_phone", "phone"}
  BY <1>3, SetMetaKeeps DEF SaveField
<1> QED
  BY <1>1, <1>2, <1>3

LEMMA SaveAnswerKeeps ==
  ASSUME NEW u, UserOK(u), NEW key, NEW value
  PROVE  Keeps(u, SaveAnswer(u, key, value))
<1>1. CASE key = "name"
  BY <1>1 DEF SaveAnswer, UserOK, Keeps
<1>2. CASE key \in {"", "phone"}
  BY <1>2 DEF SaveAnswer, Keeps
<1>3. CASE key \notin {"", "phone", "name"}
  BY <1>3, SetMetaKeeps DEF SaveAnswer
<1> QED
  BY <1>1, <1>2, <1>3

LEMMA ClearVariableKeeps ==
  ASSUME NEW u, UserOK(u), NEW key
  PROVE  Keeps(u, ClearVariable(u, key))
<1>1. CASE key = "name"
  BY <1>1 DEF ClearVariable, UserOK, Keeps
<1>2. CASE key # "name"
  BY <1>2, SetMetaKeeps DEF ClearVariable, Keeps
<1> QED
  BY <1>1, <1>2

LEMMA KeepKeeps ==
  ASSUME NEW u, UserOK(u), NEW key, NEW value
  PROVE  Keeps(u, Keep(u, key, value))
BY SetMetaKeeps DEF Keep, Keeps

\* A number that is there is not drawn again.
LEMMA WithProtocolKeeps ==
  ASSUME NEW u, UserOK(u)
  PROVE  /\ UserOK(WithProtocol(u))
         /\ WithProtocol(u).home = u.home
         /\ WithProtocol(u).blocked = u.blocked
         /\ u.protocol # 0 => WithProtocol(u).protocol = u.protocol
BY DEF UserOK, WithProtocol

-----------------------------------------------------------------------------
\* What a handler may do.

\* Whatever the type of the step: the conversation goes on with a step, or
\* rests; the row and the session keep their shape.
Handled ==
  /\ UNCHANGED <<history, flow, active, msg, def, count, redo, bounds, from>>
  /\ meta' \in Metadata(StepIds)
  /\ journey' \in {journey, PushJourney(journey, Event("interaction"))}
  /\ UserOK(user') /\ user'.home = user.home
  /\ step' \in {step, NoStep}
  /\ \/ pc' = "enter" /\ at' # NoStep /\ step' = step
     \/ pc' = "release"

\* Only an END step blocks the contact, and files the ticket.
EndsHere ==
  \/ /\ Here.type # "END" /\ ticket' = ticket /\ user'.blocked = user.blocked
     /\ user'.protocol = user.protocol \/ user.protocol = 0
  \/ /\ Here.type = "END" /\ FileTicket /\ pc' = "release"
     /\ user'.protocol = user.protocol
     /\ user'.blocked => user.blocked \/ step' = step

\* The step "at" has been run.
Executed ==
  /\ Handled /\ EndsHere
  /\ pc' = "release" /\ step' # NoStep =>
       Here.type \in PromptTypes \cup {"HANDOVER", "END"} \/ LeadsNowhere(Here)
  /\ pc' = "release" /\ Here.type \in PromptTypes => said' \/ LeadsNowhere(Here)
  /\ pc' = "release" /\ Here.type = "CUSTOMER_IDENTIFICATION" /\ ~LeadsNowhere(Here) =>
       screen' = [kind |-> "ask", about |-> Here.fields[meta'.field_idx + 1].variable]

\* The step "at" has been given the message.
Answered ==
  /\ Handled
  /\ step' = step /\ ticket' = ticket
  /\ user'.blocked = user.blocked /\ user'.protocol = user.protocol
  /\ pc' = "release" /\ Here.type \in PromptTypes =>
       said' \/ LeadsNowhere(Here) \/ (msg = "9" /\ Here.type = "REVIEW" /\ Here.skip)
  /\ pc' = "release" /\ Here.type = "CUSTOMER_IDENTIFICATION" => LeadsNowhere(Here)

\* A step that is worked on is a step of a flow that can be published.
LEMMA HereIsStep ==
  ASSUME TypeOK, pc \in {"input", "exec"}
  PROVE  /\ at \in StepIds /\ at # NoStep
         /\ WellFormed(Here)
         /\ Event("interaction") \in Records(StepIds) /\ Event("entry") \in Records(StepIds)
<1>1. def \in Flows /\ at \in DOMAIN def.steps
  BY DEF TypeOK
<1>2. at \in StepIds /\ at # NoStep /\ WellFormed(Here)
  BY <1>1, EngineAssumption DEF Here
<1> QED
  BY <1>2 DEF Event, Records

LEMMA ShownMetaFits ==
  ASSUME meta \in Metadata(StepIds)
  PROVE  ShownMeta \in Metadata(StepIds)
BY DEF ShownMeta, Metadata

LEMMA NoMetadataFits == NoMetadata(StepIds) \in Metadata(StepIds)
BY DEF NoMetadata, Metadata

\* Each kind of step is run by its handler.
LEMMA ExecuteByType ==
  ASSUME Shape, pc = "exec", Execute
  PROVE  /\ UNCHANGED <<redo, bounds>>
         /\ \/ Here.type = "TEXT" /\ TextExecute
            \/ Here.type = "MEDIA" /\ MediaExecute
            \/ Here.type = "DELAY" /\ DelayExecute
            \/ Here.type = "JUMP" /\ JumpExecute
            \/ Here.type = "SET_VARIABLE" /\ SetVariableExecute
            \/ Here.type = "CONDITION" /\ ConditionExecute
            \/ Here.type = "SWITCH" /\ SwitchExecute
            \/ Here.type = "HTTP_REQUEST" /\ HttpExecute
            \/ Here.type = "HANDOVER" /\ HandoverExecute
            \/ Here.type = "END" /\ EndExecute
            \/ Here.type = "INPUT" /\ InputExecute
            \/ Here.type = "OPTIONS" /\ OptionsExecute
            \/ Here.type = "CUSTOMER_IDENTIFICATION" /\ IdentificationExecute
            \/ Here.type = "REVIEW" /\ ReviewExecute
<1>1. Here.type \in StepTypes
  BY HereIsStep DEF Shape, WellFormed
<1>2. Here.type = "TEXT" => TextExecute
  BY DEF Execute
<1>3. Here.type = "MEDIA" => MediaExecute
  BY DEF Execute
<1>4. Here.type = "DELAY" => DelayExecute
  BY DEF Execute
<1>5. Here.type = "JUMP" => JumpExecute
  BY DEF Execute
<1>6. Here.type = "SET_VARIABLE" => SetVariableExecute
  BY DEF Execute
<1>7. Here.type = "CONDITION" => ConditionExecute
  BY DEF Execute
<1>8. Here.type = "SWITCH" => SwitchExecute
  BY DEF Execute
<1>9. Here.type = "HTTP_REQUEST" => HttpExecute
  BY DEF Execute
<1>10. Here.type = "HANDOVER" => HandoverExecute
  BY DEF Execute
<1>11. Here.type = "END" => EndExecute
  BY DEF Execute
<1>12. Here.type = "INPUT" => InputExecute
  BY DEF Execute
<1>13. Here.type = "OPTIONS" => OptionsExecute
  BY DEF Execute
<1>14. Here.type = "CUSTOMER_IDENTIFICATION" => IdentificationExecute
  BY DEF Execute
<1>15. Here.type = "REVIEW" => ReviewExecute
  BY DEF Execute
<1>16. UNCHANGED <<redo, bounds>>
  BY DEF Execute
<1> QED
  BY <1>1, <1>2, <1>3, <1>4, <1>5, <1>6, <1>7, <1>8, <1>9, <1>10, <1>11, <1>12, <1>13, <1>14, <1>15, <1>16 DEF StepTypes

\* ... and given the message by its handler.
LEMMA InputByType ==
  ASSUME Shape, pc = "input", ProcessInput
  PROVE  /\ UNCHANGED <<redo, bounds>>
         /\ \/ Here.type = "TEXT" /\ TextInput
            \/ Here.type = "INPUT" /\ InputInput
            \/ Here.type = "OPTIONS" /\ OptionsInput
            \/ Here.type = "CUSTOMER_IDENTIFICATION" /\ IdentificationInput
            \/ Here.type = "REVIEW" /\ ReviewInput
            \/ Here.type \in DeafTypes /\ DeafInput
<1>1. Here.type \in StepTypes /\ Here.type # "END"
  BY HereIsStep DEF Shape, WellFormed
<1> QED
  BY <1>1 DEF ProcessInput, StepTypes, DeafTypes

\* Running a step does what Executed says.
LEMMA ExecuteEffect ==
  ASSUME Shape, pc = "exec", Execute
  PROVE  Executed
<1>1. /\ meta \in Metadata(StepIds) /\ UserOK(user)
      /\ at # NoStep /\ WellFormed(Here)
  BY HereIsStep DEF Shape, TypeOK
<1>2. UNCHANGED <<redo, bounds>>
  BY ExecuteByType
<1>3. CASE Here.type = "TEXT" /\ TextExecute
  BY <1>1, <1>2, <1>3 DEF TextExecute, Continue, Say, session, world, Executed, Handled, EndsHere,
     PromptTypes, LeadsNowhere
<1>4. CASE Here.type = "MEDIA" /\ MediaExecute
  BY <1>1, <1>2, <1>4 DEF MediaExecute, Continue, Say, Silent, seen, Note, session, world,
     Executed, Handled, EndsHere, PromptTypes, LeadsNowhere
<1>5. CASE Here.type = "DELAY" /\ DelayExecute
  BY <1>1, <1>2, <1>5 DEF DelayExecute, Continue, Silent, seen, session, world, Executed, Handled,
     EndsHere, PromptTypes, LeadsNowhere
<1>6. CASE Here.type = "JUMP" /\ JumpExecute
  BY <1>1, <1>2, <1>6 DEF JumpExecute, Continue, Silent, seen, session, world, Executed, Handled,
     EndsHere, PromptTypes, LeadsNowhere
<1>7. CASE Here.type = "SET_VARIABLE" /\ SetVariableExecute
  <2>1. Keeps(user, user')
    BY <1>1, <1>7, SetMetaKeeps DEF SetVariableExecute
  <2> QED
    BY <1>1, <1>2, <1>7, <2>1 DEF SetVariableExecute, Keeps, Continue, Silent, seen, Note, Executed,
       Handled, EndsHere, PromptTypes, LeadsNowhere
<1>8. CASE Here.type = "CONDITION" /\ ConditionExecute
  BY <1>1, <1>2, <1>8 DEF ConditionExecute, Continue, Silent, seen, session, world, Executed,
     Handled, EndsHere, PromptTypes, LeadsNowhere
<1>9. CASE Here.type = "SWITCH" /\ SwitchExecute
  <2>1. PICK target : Continue(target) /\ (target = NoStep => LeadsNowhere(Here))
    <3> DEFINE value == Lower(Get(user, Here.variable))
               hits == {i \in DOMAIN Here.branches : Same(value, Lower(Here.branches[i].value))}
    <3>1. hits \subseteq Nat /\ hits \subseteq DOMAIN Here.branches
      BY <1>1, <1>9 DEF WellFormed
    <3>2. hits # {} => Least(hits) \in DOMAIN Here.branches
      BY <3>1, LeastIn
    <3>3. SwitchTarget = IF hits = {} THEN Here.default ELSE Here.branches[Least(hits)].target
      BY DEF SwitchTarget
    <3> HIDE DEF hits
    <3>4. SwitchTarget = NoStep => LeadsNowhere(Here)
      BY <1>9, <3>2, <3>3 DEF LeadsNowhere
    <3>5. Here.default = NoStep => LeadsNowhere(Here)
      BY <1>9 DEF LeadsNowhere
    <3> QED
      BY <1>9, <3>4, <3>5 DEF SwitchExecute
  <2> QED
    BY <1>1, <1>2, <1>9, <2>1 DEF SwitchExecute, Continue, Silent, seen, Note, session, world,
       Executed, Handled, EndsHere, PromptTypes
<1>10. CASE Here.type = "HTTP_REQUEST" /\ HttpExecute
  <2>1. PICK outcome \in {"answered", "rejected", "failed"}, reply \in HttpBodies :
          LET target == Or(IF outcome = "answered" THEN Here.success ELSE Here.failure, Here.next)
              body   == IF outcome = "failed" THEN "error" ELSE reply
          IN  /\ user' = WithProtocol(Keep(Keep(user, Here.saveStatus, StatusOf(outcome)),
                                           Here.saveBody, body))
              /\ IF outcome = "failed" /\ Here.fallback THEN Say("fallback", at) ELSE Silent
              /\ step' = IF target = NoStep THEN NoStep ELSE step
              /\ Continue(target)
              /\ UNCHANGED <<history, journey, meta, ticket, flow, active>>
    BY <1>10 DEF HttpExecute
  <2> DEFINE target == Or(IF outcome = "answered" THEN Here.success ELSE Here.failure, Here.next)
             body == IF outcome = "failed" THEN "error" ELSE reply
             kept == Keep(user, Here.saveStatus, StatusOf(outcome))
  <2>2. UserOK(kept) /\ Keeps(user, kept)
    BY <1>1, KeepKeeps DEF Keeps
  <2>3. user' = WithProtocol(Keep(kept, Here.saveBody, body))
    BY <2>1
  <2>4. /\ UNCHANGED <<history, journey, meta, ticket, flow, active, from>>
        /\ step' = IF target = NoStep THEN NoStep ELSE step
        /\ Continue(target)
    BY <2>1 DEF Say, Silent, seen
  <2> HIDE DEF kept, body, target
  <2>5. UserOK(Keep(kept, Here.saveBody, body)) /\ Keeps(kept, Keep(kept, Here.saveBody, body))
    BY <2>2, KeepKeeps DEF Keeps
  <2>6. /\ UserOK(user') /\ user'.home = user.home /\ user'.blocked = user.blocked
        /\ user'.protocol = user.protocol \/ user.protocol = 0
    BY <2>2, <2>3, <2>5, WithProtocolKeeps DEF Keeps
  <2> QED
    BY <1>1, <1>2, <1>10, <2>4, <2>6 DEF Continue, Executed, Handled, EndsHere, PromptTypes
<1>11. CASE Here.type = "HANDOVER" /\ HandoverExecute
  BY <1>1, <1>2, <1>11 DEF HandoverExecute, Rest, work, Silent, seen, session, world, Executed,
     Handled, EndsHere, PromptTypes
<1>12. CASE Here.type = "END" /\ EndExecute
  <2>1. UserOK(user') /\ user'.home = user.home /\ user'.protocol = user.protocol
    BY <1>1, <1>12 DEF EndExecute, UserOK
  <2> QED
    BY <1>1, <1>2, <1>12, <2>1 DEF EndExecute, Rest, work, Silent, seen, Executed, Handled, EndsHere,
       PromptTypes
<1>13. CASE Here.type = "INPUT" /\ InputExecute
  BY <1>1, <1>2, <1>13 DEF InputExecute, Rest, work, Say, session, world, Executed, Handled,
     EndsHere, PromptTypes
<1>14. CASE Here.type = "OPTIONS" /\ OptionsExecute
  BY <1>1, <1>2, <1>14 DEF OptionsExecute, Rest, work, Say, session, world, Executed, Handled,
     EndsHere, PromptTypes
<1>15. CASE Here.type = "CUSTOMER_IDENTIFICATION" /\ IdentificationExecute
  <2>1. meta' \in Metadata(StepIds)
    BY <1>1, <1>15, NoMetadataFits DEF IdentificationExecute
  <2> QED
    BY <1>1, <1>2, <1>15, <2>1 DEF IdentificationExecute, Rest, work, Continue, Say, Silent, seen,
       world, Executed, Handled, EndsHere, PromptTypes, LeadsNowhere
<1>16. CASE Here.type = "REVIEW" /\ ReviewExecute
  <2>1. meta' \in Metadata(StepIds)
    BY <1>1, <1>16, ShownMetaFits DEF ReviewExecute
  <2> QED
    BY <1>1, <1>2, <1>16, <2>1 DEF ReviewExecute, Rest, work, Continue, Say, Silent, seen, world,
       Executed, Handled, EndsHere, PromptTypes, LeadsNowhere
<1> QED
  BY <1>3, <1>4, <1>5, <1>6, <1>7, <1>8, <1>9, <1>10, <1>11, <1>12, <1>13, <1>14, <1>15, <1>16,
     ExecuteByType

\* The indexes a review sets are those of fields.
LEMMA CorrectionIndexesFit ==
  ASSUME TypeOK, NEW key
  PROVE  /\ CorrectionIndexes(key) \subseteq Nat
         /\ CorrectionIndexes(key) # {} => Least(CorrectionIndexes(key)) \in Nat
<1> DEFINE id == Here.correction
<1>1. CASE id \in DOMAIN def.steps /\ def.steps[id].type = "CUSTOMER_IDENTIFICATION"
  <2>1. DOMAIN def.steps[id].fields \subseteq Nat \ {0}
    BY <1>1, EngineAssumption DEF TypeOK, WellFormed
  <2>2. CorrectionIndexes(key) = {i - 1 : i \in {k \in DOMAIN def.steps[id].fields :
                                                    def.steps[id].fields[k].variable = key}}
    BY <1>1 DEF CorrectionIndexes
  <2>3. CorrectionIndexes(key) \subseteq Nat
    BY <2>1, <2>2
  <2> QED
    BY <2>3, LeastIn
<1>2. CASE ~(id \in DOMAIN def.steps /\ def.steps[id].type = "CUSTOMER_IDENTIFICATION")
  BY <1>2 DEF CorrectionIndexes
<1> QED
  BY <1>1, <1>2

\* An option that is chosen is one of those that were listed.
LEMMA ChosenIsListed ==
  ASSUME Shape, pc = "input", Here.type = "OPTIONS", Here.dynamic = "", Chosen # 0
  PROVE  Options = Here.options /\ Chosen \in DOMAIN Here.options
<1> DEFINE exact == {i \in DOMAIN Options : Options[i].key = msg /\ Options[i].target # NoStep}
           loose == {i \in DOMAIN Options : Lower(Options[i].key) = Lower(msg)}
<1>1. Options = Here.options
  BY DEF Options
<1>2. DOMAIN Options \subseteq Nat
  BY <1>1, HereIsStep DEF Shape, WellFormed
<1>3. Chosen = CASE exact # {} -> Least(exact)
                 [] exact = {} /\ loose # {} -> Least(loose)
                 [] OTHER -> IF ParseInt(msg) \in DOMAIN Options THEN ParseInt(msg) ELSE 0
  BY DEF Chosen
<1>4. exact \subseteq DOMAIN Options /\ loose \subseteq DOMAIN Options
  OBVIOUS
<1> HIDE DEF exact, loose
<1>5. exact # {} => Least(exact) \in DOMAIN Options
  BY <1>2, <1>4, LeastIn
<1>6. loose # {} => Least(loose) \in DOMAIN Options
  BY <1>2, <1>4, LeastIn
<1> QED
  BY <1>1, <1>3, <1>5, <1>6

\* Giving a step a message does what Answered says.
LEMMA InputEffect ==
  ASSUME Shape, pc = "input", ProcessInput
  PROVE  Answered
<1>1. /\ meta \in Metadata(StepIds) /\ UserOK(user)
      /\ at \in StepIds /\ at # NoStep /\ WellFormed(Here)
  BY HereIsStep DEF Shape, TypeOK
<1>2. UNCHANGED <<redo, bounds>>
  BY InputByType
<1>3. CASE Here.type = "TEXT" /\ TextInput
  BY <1>1, <1>2, <1>3 DEF TextInput, Continue, Silent, seen, session, world, Answered, Handled,
     PromptTypes
<1>4. CASE Here.type = "INPUT" /\ InputInput
  <2>1. CASE InputRejected
    <3>1. meta' \in Metadata(StepIds)
      BY <1>1, <2>1 DEF InputRejected, Metadata
    <3> QED
      BY <1>1, <1>2, <1>4, <2>1, <3>1 DEF InputRejected, Continue, Say, world, Answered, Handled,
         PromptTypes
  <2>2. CASE InputAccepted
    <3>1. meta' \in Metadata(StepIds)
      BY <1>1, <2>2 DEF InputAccepted, Metadata
    <3>2. Keeps(user, user')
      BY <1>1, <2>2, SaveAnswerKeeps DEF InputAccepted
    <3> QED
      BY <1>1, <1>2, <1>4, <2>2, <3>1, <3>2 DEF InputAccepted, Keeps, Continue, Note, Silent, seen,
         Answered, Handled, PromptTypes, LeadsNowhere
  <2> QED
    BY <1>4, <2>1, <2>2 DEF InputInput
<1>5. CASE Here.type = "OPTIONS" /\ OptionsInput
  <2>1. CASE Chosen = 0
    BY <1>1, <1>2, <1>5, <2>1 DEF OptionsInput, Rest, work, Say, session, world, Answered, Handled
  <2>2. CASE Chosen # 0
    <3>1. Options[Chosen].target = NoStep => LeadsNowhere(Here)
      BY <1>5, <2>2, ChosenIsListed DEF LeadsNowhere
    <3> QED
      BY <1>1, <1>2, <1>5, <2>2, <3>1 DEF OptionsInput, Continue, Note, Silent, seen, world,
         Answered, Handled
  <2> QED
    BY <2>1, <2>2
<1>6. CASE Here.type = "CUSTOMER_IDENTIFICATION" /\ IdentificationInput
  <2>1. CASE IdentificationLost
    <3>1. meta' \in Metadata(StepIds)
      BY <2>1, NoMetadataFits DEF IdentificationLost
    <3> QED
      BY <1>1, <1>2, <1>6, <2>1, <3>1 DEF IdentificationLost, Continue, Silent, seen, world,
         Answered, Handled, PromptTypes, LeadsNowhere
  <2>2. CASE IdentificationRejected
    BY <1>1, <1>2, <1>6, <2>2 DEF IdentificationRejected, Continue, Say, session, world, Answered,
       Handled, PromptTypes
  <2>3. CASE IdentificationAccepted
    <3> DEFINE last == [meta EXCEPT !.edit_one_mode = FALSE, !.field_idx = 0,
                                    !.force_review_once = TRUE]
               another == [meta EXCEPT !.field_idx = meta.field_idx + 1]
    <3>1. meta.field_idx + 1 \in Nat
      BY <1>1 DEF Metadata
    <3>2. another \in Metadata(StepIds)
      BY <1>1, <3>1 DEF Metadata
    <3>3. last \in Metadata(StepIds)
      BY <1>1 DEF Metadata
    <3>4. meta' \in Metadata(StepIds)
      BY <2>3, <3>2, <3>3 DEF IdentificationAccepted
    <3>5. Keeps(user, user')
      BY <1>1, <2>3, SaveFieldKeeps DEF IdentificationAccepted
    <3> HIDE DEF last, another
    <3> QED
      BY <1>1, <1>2, <1>6, <2>3, <3>4, <3>5 DEF IdentificationAccepted, Keeps, Continue, Note,
         Silent, seen, Answered, Handled, PromptTypes, LeadsNowhere
  <2> QED
    BY <1>6, <2>1, <2>2, <2>3 DEF IdentificationInput
<1>7. CASE Here.type = "REVIEW" /\ ReviewInput
  <2>1. CASE ReviewConfirmed
    BY <1>1, <1>2, <1>7, <2>1 DEF ReviewConfirmed, Continue, Note, Silent, seen, world, Answered,
       Handled, LeadsNowhere
  <2>2. CASE ReviewEdit
    <3>1. meta' \in Metadata(StepIds)
      BY <1>1, <2>2 DEF ReviewEdit, Metadata
    <3> QED
      BY <1>1, <1>2, <1>7, <2>2, <3>1 DEF ReviewEdit, Rest, work, Say, world, Answered, Handled
  <2>3. CASE ReviewOther
    BY <1>1, <1>2, <1>7, <2>3 DEF ReviewOther, Continue, Silent, seen, session, world, Answered,
       Handled
  <2>4. CASE ReviewBackToSummary
    <3>1. meta' \in Metadata(StepIds)
      BY <1>1, <2>4, ShownMetaFits DEF ReviewBackToSummary
    <3>2. ReviewSkips => Here.skip
      BY DEF ReviewSkips, SmartSkip
    <3> QED
      BY <1>1, <1>2, <1>7, <2>4, <3>1, <3>2 DEF ReviewBackToSummary, Rest, work, Say, Silent, seen,
         world, Answered, Handled
  <2>5. CASE ReviewBadField
    BY <1>1, <1>2, <1>7, <2>5 DEF ReviewBadField, Rest, work, Say, session, world, Answered, Handled
  <2>6. CASE ReviewCorrect
    <3> DEFINE key == Here.fields[FieldNumber]
               idx == CorrectionIndexes(key)
    <3>1. /\ user' = ClearVariable(user, key)
          /\ meta' = IF idx = {} THEN [meta EXCEPT !.review_mode = FALSE]
                     ELSE [meta EXCEPT !.review_mode = FALSE, !.edit_one_mode = TRUE,
                                       !.field_idx = Least(idx)]
      BY <2>6 DEF ReviewCorrect
    <3>2. idx # {} => Least(idx) \in Nat
      BY CorrectionIndexesFit DEF Shape
    <3> HIDE DEF key, idx
    <3>3. meta' \in Metadata(StepIds)
      BY <1>1, <3>1, <3>2 DEF Metadata
    <3>4. Keeps(user, user')
      BY <1>1, <3>1, ClearVariableKeeps
    <3>5. Or(Here.correction, at) # NoStep
      BY <1>1 DEF Or
    <3> QED
      BY <1>1, <1>2, <1>7, <2>6, <3>3, <3>4, <3>5 DEF ReviewCorrect, Keeps, Continue, Note,
         Answered, Handled
  <2> QED
    BY <1>7, <2>1, <2>2, <2>3, <2>4, <2>5, <2>6 DEF ReviewInput
<1>8. CASE Here.type \in DeafTypes /\ DeafInput
  BY <1>1, <1>2, <1>8 DEF DeafInput, DeafTypes, Rest, work, Silent, seen, session, world, Answered,
     Handled, PromptTypes
<1> QED
  BY <1>3, <1>4, <1>5, <1>6, <1>7, <1>8, InputByType

-----------------------------------------------------------------------------
\* Type correctness.

LEMMA EmptyFits ==
  /\ <<>> \in Seq(StepIds) /\ Len(<<>>) <= HistoryCap
  /\ <<>> \in Seq(Records(StepIds)) /\ Len(<<>>) <= JourneyCap
<1>1. \A S : <<>> \in Seq(S)
  BY EmptySeq
<1>2. Len(<<>>) = 0
  BY EmptySeq
<1> QED
  BY <1>1, <1>2, StoreAssumption

LEMMA BoundsFit ==
  MaxSteps \in Nat \ {0} /\ MaxInterrupts \in Nat /\ MaxExpiries \in Nat /\ MaxChanges \in Nat
BY EngineAssumption

LEMMA ZeroFits ==
  /\ 0 \in 0 .. MaxSteps /\ 0 \in 0 .. MaxInterrupts
  /\ 0 \in 0 .. MaxExpiries /\ 0 \in 0 .. MaxChanges
BY BoundsFit

LEMMA InitShape == Init => Shape
<1> SUFFICES ASSUME Init PROVE Shape
  OBVIOUS
<1> USE DEF Init
<1>1. flow \in Flows /\ def \in Flows
  OBVIOUS
<1>2. meta \in Metadata(StepIds) /\ UserOK(user)
  BY NoMetadataFits, NewContactFits
<1>3. /\ history \in Seq(StepIds) /\ Len(history) <= HistoryCap
      /\ journey \in Seq(Records(StepIds)) /\ Len(journey) <= JourneyCap
  BY EmptyFits
<1>4. /\ count \in 0 .. MaxSteps /\ interrupts \in 0 .. MaxInterrupts
      /\ expiries \in 0 .. MaxExpiries /\ changes \in 0 .. MaxChanges
  BY ZeroFits
<1>5. /\ step \in StepIds \cup {NoStep} /\ active \in BOOLEAN /\ pc = "idle"
      /\ msg \in Inputs \cup {NoInput} /\ redo \in Inputs \cup {NoInput}
  OBVIOUS
<1> QED
  BY <1>1, <1>2, <1>3, <1>4, <1>5 DEF Shape, TypeOK, UserOK, Phases

\* What a handler does leaves the session and the contact's row in shape.
LEMMA HandledShape ==
  ASSUME Shape, Handled, pc \in {"input", "exec"}
  PROVE  Shape'
<1>1. journey' \in Seq(Records(StepIds)) /\ Len(journey') <= JourneyCap
  <2>1. /\ PushJourney(journey, Event("interaction")) \in Seq(Records(StepIds))
        /\ Len(PushJourney(journey, Event("interaction"))) <= JourneyCap
    BY HereIsStep, PushJourneyFits DEF Shape, TypeOK
  <2> QED
    BY <2>1 DEF Shape, TypeOK, Handled
<1> QED
  BY <1>1 DEF Shape, TypeOK, UserOK, Handled, Phases, bounds

\* The chain of steps starts: nothing of the session but what is said.
LEMMA StartChainShape ==
  ASSUME Shape, NEW id, StartChain(id),
         step' \in {step, NoStep}, meta' = meta, journey' \in {journey, <<>>},
         history' \in Seq(StepIds), Len(history') <= HistoryCap
  PROVE  Shape'
<1>1. journey' \in Seq(Records(StepIds)) /\ Len(journey') <= JourneyCap
  BY EmptyFits DEF Shape, TypeOK
<1>2. UserOK(user')
  BY DEF Shape, StartChain, world
<1> QED
  BY <1>1, <1>2, BoundsFit DEF Shape, TypeOK, UserOK, StartChain, world, bounds, Phases

LEMMA HistoryLeftFits ==
  ASSUME Shape
  PROVE  HistoryLeft \in Seq(StepIds) /\ Len(HistoryLeft) <= HistoryCap
<1>1. PopHistory(history) \in Seq(StepIds) /\ Len(PopHistory(history)) <= HistoryCap
  BY PopHistoryFits DEF Shape, TypeOK
<1>2. /\ PopHistory(PopHistory(history)) \in Seq(StepIds)
      /\ Len(PopHistory(PopHistory(history))) <= HistoryCap
  BY <1>1, PopHistoryFits
<1> QED
  BY <1>2 DEF HistoryLeft, Shape, TypeOK

LEMMA ListedFits ==
  ASSUME Shape, at \in DOMAIN def.steps
  PROVE  Listed \in Seq(StepIds) /\ Len(Listed) <= HistoryCap
<1>1. at \in StepIds
  BY EngineAssumption DEF Shape, TypeOK
<1> QED
  BY <1>1, PushHistoryFits DEF Listed, Shape, TypeOK

\* Entering a step: the session gets the step, a place in the history and an
\* event in the journey.
LEMMA EnterStepEffect ==
  ASSUME Shape, EnterStep
  PROVE  /\ at \in StepIds
         /\ history' \in Seq(StepIds) /\ Len(history') <= HistoryCap
         /\ journey' \in Seq(Records(StepIds)) /\ Len(journey') <= JourneyCap
         /\ \/ Len(journey') = JourneyCap
            \/ \E i \in DOMAIN journey' : journey'[i] = Event("entry")
<1>1. at \in StepIds
  BY EngineAssumption DEF Shape, TypeOK, EnterStep
<1>2. Event("entry") \in Records(StepIds)
  BY <1>1 DEF Event, Records
<1>3. history' = Listed /\ journey' = PushJourney(journey, Event("entry"))
  BY DEF EnterStep, Note
<1>4. journey \in Seq(Records(StepIds)) /\ at \in DOMAIN def.steps
  BY DEF EnterStep, Shape, TypeOK
<1>5. history' \in Seq(StepIds) /\ Len(history') <= HistoryCap
  BY <1>3, <1>4, ListedFits
<1> DEFINE next == PushJourney(journey, Event("entry"))
<1>6. /\ next \in Seq(Records(StepIds)) /\ Len(next) <= JourneyCap
      /\ \/ Len(next) = JourneyCap
         \/ \E i \in DOMAIN next : next[i] = Event("entry")
  BY <1>2, <1>4, PushJourneyFits
<1> QED
  BY <1>1, <1>3, <1>5, <1>6

LEMMA StopShape ==
  ASSUME Shape, Stop, step' \in StepIds \cup {NoStep}, UNCHANGED <<journey, meta>>,
         history' \in Seq(StepIds), Len(history') <= HistoryCap
  PROVE  Shape'
<1>1. UserOK(user')
  BY DEF Shape, Stop, world
<1>2. interrupts \in 0 .. MaxInterrupts /\ interrupts < MaxInterrupts
  BY DEF Shape, TypeOK, Stop
<1>3. interrupts + 1 \in 0 .. MaxInterrupts
  BY <1>2, BoundsFit
<1>4. interrupts' = interrupts + 1 /\ UNCHANGED <<expiries, changes, user, flow, active, def>>
  BY DEF Stop, work, world
<1>5. /\ pc' \in {"release", "idle"} /\ msg' \in {msg, NoInput}
      /\ redo' \in {redo, msg} /\ count' \in {count, 0}
  BY DEF Stop, work
<1>6. 0 \in 0 .. MaxSteps
  BY BoundsFit
<1> QED
  BY <1>1, <1>3, <1>4, <1>5, <1>6 DEF Shape, TypeOK, UserOK, Phases

\* Every step keeps the shape.
LEMMA NextShape ==
  ASSUME Shape, [Next]_vars
  PROVE  Shape'
<1>1. ASSUME NEW m \in Inputs \cup ({redo} \ {NoInput}), Receive(m)
      PROVE  Shape'
  <2>1. UserOK(user') /\ msg' \in Inputs \cup {NoInput} /\ redo' \in Inputs \cup {NoInput}
    BY <1>1 DEF Shape, TypeOK, Receive, world
  <2> QED
    BY <1>1, <2>1 DEF Shape, TypeOK, Receive, session, world, bounds, Phases
<1>2. ASSUME Passive \/ Blocked
      PROVE  Shape'
  BY <1>2 DEF Passive, Blocked, Rest, work, Shape, TypeOK, UserOK, session, world, bounds, Phases
<1>3. CASE GoBack
  BY <1>3, HistoryLeftFits, StartChainShape DEF GoBack
<1>4. CASE Start
  <2>1. history' = history /\ meta' = meta /\ step' = NoStep /\ journey' = <<>>
    BY <1>4 DEF Start
  <2>2. history \in Seq(StepIds) /\ Len(history) <= HistoryCap
    BY DEF Shape, TypeOK
  <2> QED
    BY <1>4, <2>1, <2>2, StartChainShape DEF Start
<1>5. CASE StartOver
  <2>1. UNCHANGED <<history, journey, meta>> /\ step' = NoStep
    BY <1>5 DEF StartOver
  <2>2. history \in Seq(StepIds) /\ Len(history) <= HistoryCap
    BY DEF Shape, TypeOK
  <2> QED
    BY <1>5, <2>1, <2>2, StartChainShape DEF StartOver
<1>6. CASE Answer
  <2>1. history' \in Seq(StepIds) /\ Len(history') <= HistoryCap
    BY <1>6, HistoryLeftFits DEF Answer
  <2>2. UserOK(user')
    BY <1>6 DEF Answer, world, Shape
  <2>3. flow.steps[Standing].type # "END"
    BY <1>6, EngineAssumption DEF Answer, Standing, AtEnd, Shape, TypeOK
  <2>4. at' \in DOMAIN def'.steps /\ def'.steps[at'].type # "END" /\ def' \in Flows
    BY <1>6, <2>3 DEF Answer, Shape, TypeOK
  <2> QED
    BY <1>6, <2>1, <2>2, <2>4, ZeroFits DEF Answer, Here, Shape, TypeOK, world, bounds, Phases
<1>7. CASE pc = "input" /\ ProcessInput
  BY <1>7, InputEffect, HandledShape DEF Answered
<1>8. CASE StopLoop
  BY <1>8, EmptyFits DEF StopLoop, Say, Rest, work, Shape, TypeOK, UserOK, world, bounds, Phases
<1>9. CASE EnterNowhere
  BY <1>9 DEF EnterNowhere, Rest, work, Shape, TypeOK, UserOK, world, bounds, Phases
<1>10. CASE EnterStep
  <2>1. count + 1 \in 0 .. MaxSteps
    BY <1>10, BoundsFit DEF EnterStep, Shape, TypeOK
  <2>2. UserOK(user')
    BY <1>10 DEF EnterStep, world, Shape
  <2> QED
    BY <1>10, <2>1, <2>2, EnterStepEffect DEF EnterStep, Shape, TypeOK, world, bounds, Phases
<1>11. CASE pc = "exec" /\ Execute
  BY <1>11, ExecuteEffect, HandledShape DEF Executed
<1>12. CASE Release
  <2>1. UserOK(user')
    BY <1>12 DEF Release, world, Shape
  <2> QED
    BY <1>12, <2>1, ZeroFits DEF Release, Shape, TypeOK, session, world, bounds, Phases
<1>13. CASE Interrupt
  BY <1>13, StopShape DEF Interrupt, session, Shape, TypeOK
<1>14. CASE InterruptEntering
  <2>1. history' \in Seq(StepIds) /\ Len(history') <= HistoryCap
    BY <1>14, ListedFits DEF InterruptEntering
  <2>2. step' \in StepIds \cup {NoStep}
    BY <1>14, EngineAssumption DEF InterruptEntering, Shape, TypeOK
  <2> QED
    BY <1>14, <2>1, <2>2, StopShape DEF InterruptEntering
<1>15. CASE Expire
  <2>1. expiries' \in 0 .. MaxExpiries
    BY <1>15, BoundsFit DEF Expire, Shape, TypeOK
  <2>2. /\ history' \in Seq(StepIds) /\ Len(history') <= HistoryCap
        /\ journey' \in Seq(Records(StepIds)) /\ Len(journey') <= JourneyCap
        /\ meta' \in Metadata(StepIds) /\ step' \in StepIds \cup {NoStep}
    BY <1>15, EmptyFits, NoMetadataFits DEF Expire, Shape, TypeOK
  <2>3. UserOK(user')
    BY <1>15 DEF Expire, world, Shape
  <2> QED
    BY <1>15, <2>1, <2>2, <2>3 DEF Expire, Shape, TypeOK, work, world
<1>16. CASE Unblock
  BY <1>16 DEF Unblock, Shape, TypeOK, UserOK, session, work, bounds, Here
<1>17. ASSUME Change,
              UNCHANGED <<user, def>>, flow' \in Flows, active' \in BOOLEAN,
              \/ UNCHANGED session
              \/ /\ step' = NoStep /\ meta' = NoMetadata(StepIds) /\ history' = <<>>
                 /\ journey' \in {journey, <<>>}
       PROVE  Shape'
  <2>1. changes' \in 0 .. MaxChanges
    BY <1>17, BoundsFit DEF Change, Shape, TypeOK
  <2>2. /\ history' \in Seq(StepIds) /\ Len(history') <= HistoryCap
        /\ journey' \in Seq(Records(StepIds)) /\ Len(journey') <= JourneyCap
        /\ meta' \in Metadata(StepIds) /\ step' \in StepIds \cup {NoStep}
    BY <1>17, EmptyFits, NoMetadataFits DEF Shape, TypeOK, session
  <2>3. UserOK(user')
    BY <1>17 DEF Shape
  <2> QED
    BY <1>17, <2>1, <2>2, <2>3 DEF Change, Shape, TypeOK, work, Here
<1>18. CASE ResetFlow
  BY <1>18, <1>17 DEF ResetFlow, Change, work, world, session, Shape, TypeOK
<1>19. CASE ToggleActive
  BY <1>19, <1>17 DEF ToggleActive, Change, work, Shape, TypeOK
<1>20. ASSUME NEW f \in Flows, Publish(f) \/ Attach(f)
       PROVE  Shape'
  BY <1>20, <1>17 DEF Publish, Attach, Change, work, Shape, TypeOK
<1>21. CASE UNCHANGED vars
  BY <1>21 DEF vars, Shape, TypeOK, UserOK, session, world, work, bounds, seen, Here
<1> QED
  BY <1>1, <1>2, <1>3, <1>4, <1>5, <1>6, <1>7, <1>8, <1>9, <1>10, <1>11, <1>12, <1>13, <1>14,
     <1>15, <1>16, <1>18, <1>19, <1>20, <1>21 DEF Next, Work, Interfere, ProcessInput, Execute

\* The session, the contact's row, the published flow and the work keep their
\* types; the lists of the session keep within their caps
\* (state.service.ts:79, 118), and a message is not worked on for more
\* than MAX_STEPS_PER_MESSAGE steps.
THEOREM TypeCorrect == Spec => []TypeOK
<1>1. Shape => TypeOK
  BY DEF Shape
<1> QED
  BY <1>1, InitShape, NextShape, PTL DEF Spec

-----------------------------------------------------------------------------
\* Protocol numbers.

\* The contact's row and the tickets are written by handlers only, but for the
\* block, which ends by itself.
LEMMA WhoWrites ==
  ASSUME [Next]_vars
  PROVE  \/ pc = "exec" /\ Execute
         \/ pc = "input" /\ ProcessInput
         \/ Unblock
         \/ UNCHANGED <<user, ticket>>
<1>1. ASSUME NEW m, Receive(m) PROVE UNCHANGED <<user, ticket>>
  BY <1>1 DEF Receive, world
<1>2. ASSUME Passive \/ Blocked \/ GoBack \/ Start \/ StartOver \/ Answer
      PROVE  UNCHANGED <<user, ticket>>
  BY <1>2 DEF Passive, Blocked, GoBack, Start, StartOver, Answer, StartChain, world
<1>3. ASSUME StopLoop \/ EnterNowhere \/ EnterStep \/ Release
      PROVE  UNCHANGED <<user, ticket>>
  BY <1>3 DEF StopLoop, EnterNowhere, EnterStep, Release, world
<1>4. ASSUME Interrupt \/ InterruptEntering \/ Expire
      PROVE  UNCHANGED <<user, ticket>>
  BY <1>4 DEF Interrupt, InterruptEntering, Stop, Expire, world
<1>5. ASSUME ResetFlow \/ ToggleActive \/ \E f \in Flows : Publish(f) \/ Attach(f)
      PROVE  UNCHANGED <<user, ticket>>
  BY <1>5 DEF ResetFlow, ToggleActive, Publish, Attach, world
<1>6. CASE UNCHANGED vars
  BY <1>6 DEF vars, world
<1> QED
  BY <1>1, <1>2, <1>3, <1>4, <1>5, <1>6 DEF Next, Work, Interfere, ProcessInput, Execute

LEMMA NextProtocol ==
  ASSUME Shape, ProtocolKept, [Next]_vars
  PROVE  ProtocolKept'
<1>1. CASE pc = "exec" /\ Execute
  <2>1. EndsHere
    BY <1>1, ExecuteEffect DEF Executed
  <2>2. CASE UNCHANGED ticket
    BY <2>1, <2>2 DEF EndsHere, ProtocolKept
  <2>3. CASE ticket' # ticket
    BY <2>1, <2>3 DEF EndsHere, FileTicket, ProtocolKept
  <2> QED
    BY <2>2, <2>3
<1>2. CASE pc = "input" /\ ProcessInput
  BY <1>2, InputEffect DEF Answered, ProtocolKept
<1>3. CASE Unblock
  BY <1>3 DEF Unblock, ProtocolKept, Shape, UserOK
<1>4. CASE UNCHANGED <<user, ticket>>
  BY <1>4 DEF ProtocolKept
<1> QED
  BY <1>1, <1>2, <1>3, <1>4, WhoWrites

\* However often a request to a service, an END step and the customer's
\* answers write the contact's row, the number a ticket was filed with is the
\* number the contact has ever after (variable.service.ts:117-127,
\* http-request.handler.ts:161-164).
THEOREM ProtocolHolds == Spec => []ProtocolKept
<1>1. Init => ProtocolKept
  BY DEF Init, ProtocolKept
<1> QED
  BY <1>1, InitShape, NextShape, NextProtocol, PTL DEF Spec

-----------------------------------------------------------------------------
\* The definition worked with, and the step worked on.

\* Administrators are the only ones who change what is published; the
\* definition is read when a message is dispatched.
LEMMA NextSettled ==
  ASSUME Shape, Settled, [Next]_vars
  PROVE  Settled'
<1>1. ASSUME NEW m, Receive(m) PROVE Settled'
  BY <1>1 DEF Receive, Settled, world, bounds
<1>2. ASSUME Passive \/ Blocked PROVE Settled'
  BY <1>2 DEF Passive, Blocked, Rest, work, Settled, world, bounds
<1>3. ASSUME GoBack \/ Start \/ StartOver \/ Answer PROVE Settled'
  BY <1>3 DEF GoBack, Start, StartOver, Answer, StartChain, Settled, world, bounds
<1>4. CASE pc = "input" /\ ProcessInput
  BY <1>4, InputEffect DEF Answered, Handled, Settled, bounds
<1>5. CASE pc = "exec" /\ Execute
  BY <1>5, ExecuteEffect DEF Executed, Handled, Settled, bounds
<1>6. ASSUME StopLoop \/ EnterNowhere \/ EnterStep \/ Release PROVE Settled'
  BY <1>6 DEF StopLoop, EnterNowhere, EnterStep, Release, Rest, work, Settled, world, bounds
<1>7. ASSUME Interrupt \/ InterruptEntering \/ Expire \/ Unblock PROVE Settled'
  BY <1>7 DEF Interrupt, InterruptEntering, Stop, Expire, Unblock, work, Settled, world, bounds
<1>8. ASSUME ResetFlow \/ ToggleActive \/ \E f \in Flows : Publish(f) \/ Attach(f)
      PROVE  Settled'
  <2>1. changes \in Nat /\ changes' = changes + 1
    BY <1>8 DEF ResetFlow, ToggleActive, Publish, Attach, Change, Shape, TypeOK
  <2> QED
    BY <2>1 DEF Settled
<1>9. CASE UNCHANGED vars
  BY <1>9 DEF vars, Settled, world, work, bounds
<1> QED
  BY <1>1, <1>2, <1>3, <1>4, <1>5, <1>6, <1>7, <1>8, <1>9 DEF Next, Work, Interfere, ProcessInput,
     Execute

\* Between reading the step and working on it nobody but an administrator
\* writes it.
LEMMA NextAtWork ==
  ASSUME Shape, AtWork, [Next]_vars
  PROVE  AtWork'
<1>1. ASSUME NEW m, Receive(m) PROVE AtWork'
  BY <1>1 DEF Receive, AtWork
<1>2. ASSUME Passive \/ Blocked \/ GoBack \/ Start \/ StartOver PROVE AtWork'
  BY <1>2 DEF Passive, Blocked, Rest, GoBack, Start, StartOver, StartChain, AtWork
<1>3. CASE Answer
  <2>1. Standing # NoStep
    BY <1>3, EngineAssumption DEF Answer, Shape, TypeOK
  <2>2. at' = step /\ step' = step
    BY <1>3, <2>1 DEF Answer, Standing
  <2> QED
    BY <2>2 DEF AtWork
<1>4. CASE pc = "input" /\ ProcessInput
  BY <1>4, InputEffect DEF Answered, Handled, AtWork
<1>5. CASE pc = "exec" /\ Execute
  BY <1>5, ExecuteEffect DEF Executed, Handled, AtWork
<1>6. ASSUME StopLoop \/ EnterNowhere \/ EnterStep \/ Release PROVE AtWork'
  BY <1>6 DEF StopLoop, EnterNowhere, EnterStep, Release, Rest, AtWork
<1>7. ASSUME Interrupt \/ InterruptEntering \/ Expire PROVE AtWork'
  BY <1>7 DEF Interrupt, InterruptEntering, Stop, Expire, AtWork
<1>8. CASE Unblock
  BY <1>8 DEF Unblock, session, work, bounds, AtWork
<1>9. ASSUME ResetFlow \/ ToggleActive \/ \E f \in Flows : Publish(f) \/ Attach(f)
      PROVE  AtWork'
  <2>1. changes \in Nat /\ changes' = changes + 1 /\ pc' = pc /\ at' = at
    BY <1>9 DEF ResetFlow, ToggleActive, Publish, Attach, Change, work, Shape, TypeOK
  <2>2. step' \in {step, NoStep}
    BY <1>9 DEF ResetFlow, ToggleActive, Publish, Attach, session
  <2> QED
    BY <2>1, <2>2 DEF AtWork
<1>10. CASE UNCHANGED vars
  BY <1>10 DEF vars, AtWork, session, work, bounds
<1> QED
  BY <1>1, <1>2, <1>3, <1>4, <1>5, <1>6, <1>7, <1>8, <1>9, <1>10 DEF Next, Work, Interfere,
     ProcessInput, Execute

Steady == Shape /\ Settled /\ AtWork

LEMMA InitSteady == Init => Steady
BY InitShape DEF Init, Steady, Settled, AtWork

LEMMA NextSteady ==
  ASSUME Steady, [Next]_vars
  PROVE  Steady'
BY NextShape, NextSettled, NextAtWork DEF Steady

-----------------------------------------------------------------------------
\* Where a conversation comes to rest.

LEMMA NextRested ==
  ASSUME Steady, Rested, [Next]_vars
  PROVE  Rested'
<1>1. ASSUME NEW m, Receive(m) PROVE Rested'
  BY <1>1 DEF Receive, Rested, Held, AtRest, session, bounds
<1>2. ASSUME Passive \/ Blocked PROVE Rested'
  BY <1>2 DEF Passive, Blocked, Rest, work, Rested, Held, AtRest, session, bounds
<1>3. ASSUME GoBack \/ Start \/ StartOver PROVE Rested'
  BY <1>3 DEF GoBack, Start, StartOver, StartChain, Rested, AtRest
<1>4. CASE Answer
  <2>1. UNCHANGED <<step, interrupts, changes>> /\ pc = "dispatch" /\ def' = flow
    BY <1>4 DEF Answer, GoingOn, Dispatching, bounds
  <2>2. Held' = Held
    BY <2>1 DEF Held, Steady, Settled
  <2> QED
    BY <2>1, <2>2 DEF Rested, AtRest
<1>5. CASE pc = "input" /\ ProcessInput
  BY <1>5, InputEffect DEF Answered, Handled, Steady, Rested, Held, AtRest, bounds
<1>6. CASE pc = "exec" /\ Execute
  <2>1. Executed
    BY <1>6, ExecuteEffect DEF Steady
  <2>2. /\ UNCHANGED <<def, changes, interrupts>>
        /\ step' \in {step, NoStep}
        /\ pc' = "enter" \/ pc' = "release"
    BY <2>1 DEF Executed, Handled, bounds
  <2>3. CASE pc' = "release" /\ step' # NoStep
    <3>1. step' = at
      BY <1>6, <2>2, <2>3 DEF Steady, AtWork
    <3>2. at \in DOMAIN def.steps /\ def \in Flows
      BY <1>6 DEF Steady, Shape, TypeOK
    <3>3. WaitsIn(def, at)
      BY <2>1, <2>3, <3>2 DEF Executed, WaitsIn, Here
    <3>4. def \in Held'
      BY <2>2, <3>2 DEF Held
    <3> QED
      BY <3>1, <3>3, <3>4 DEF Rested
  <2> QED
    BY <2>2, <2>3 DEF Rested, AtRest
<1>7. ASSUME StopLoop \/ EnterNowhere \/ EnterStep PROVE Rested'
  BY <1>7 DEF StopLoop, EnterNowhere, EnterStep, Rested, AtRest
<1>8. CASE Release
  BY <1>8 DEF Release, Rested, Held, AtRest, session, bounds
<1>9. ASSUME Interrupt \/ InterruptEntering PROVE Rested'
  <2>1. interrupts' = interrupts + 1
    BY <1>9 DEF Interrupt, InterruptEntering, Stop
  <2>2. interrupts \in Nat
    BY DEF Steady, Shape, TypeOK
  <2> QED
    BY <2>1, <2>2 DEF Rested
<1>10. CASE Expire
  BY <1>10 DEF Expire, work, Rested, Held, AtRest
<1>11. CASE Unblock
  BY <1>11 DEF Unblock, session, work, bounds, Rested, Held
<1>12. ASSUME ResetFlow \/ ToggleActive \/ \E f \in Flows : Publish(f) \/ Attach(f)
       PROVE  Rested'
  <2>1. /\ changes \in Nat /\ changes' = changes + 1 /\ UNCHANGED <<pc, interrupts, def>>
        /\ def \in Flows
    BY <1>12 DEF ResetFlow, ToggleActive, Publish, Attach, Change, work, Steady, Shape, TypeOK
  <2>2. step' \in {step, NoStep}
    BY <1>12 DEF ResetFlow, ToggleActive, Publish, Attach, session
  <2>3. Held \subseteq Held'
    BY <2>1 DEF Held
  <2> QED
    BY <2>1, <2>2, <2>3 DEF Rested
<1>13. CASE UNCHANGED vars
  BY <1>13 DEF vars, session, work, bounds, Rested, Held
<1> QED
  BY <1>1, <1>2, <1>3, <1>4, <1>5, <1>6, <1>7, <1>8, <1>9, <1>10, <1>11, <1>12, <1>13 DEF Next,
     Work, Interfere, ProcessInput, Execute

\* A chain of automatic steps, whatever its length and whatever administrators
\* do meanwhile, leaves the conversation at no step, or at one that waits for
\* something or leads nowhere (flow.service.ts:234-289).
THEOREM RestsHolds == Spec => []RestsAtPrompt
<1>1. Init => Rested
  BY DEF Init, Rested
<1>2. Rested => RestsAtPrompt
  BY DEF Rested, RestsAtPrompt, AtRest
<1> QED
  BY <1>1, <1>2, InitSteady, NextSteady, NextRested, PTL DEF Spec

-----------------------------------------------------------------------------
\* Tickets.

LEMMA NextEntered ==
  ASSUME Steady, Entered, [Next]_vars
  PROVE  Entered'
<1>1. CASE pc' # "exec" \/ changes' # 0
  BY <1>1 DEF Entered
<1>2. CASE EnterStep
  BY <1>2, EnterStepEffect DEF EnterStep, Event, Entered, Steady
<1>3. CASE Unblock
  BY <1>3 DEF Unblock, Entered, Event, session, work, bounds
<1>4. CASE UNCHANGED vars
  BY <1>4 DEF vars, Entered, Event, session, work, bounds
<1>5. ASSUME NEW m, Receive(m) PROVE pc' # "exec"
  BY <1>5 DEF Receive
<1>6. ASSUME Passive \/ Blocked \/ GoBack \/ Start \/ StartOver \/ Answer PROVE pc' # "exec"
  BY <1>6 DEF Passive, Blocked, Rest, GoBack, Start, StartOver, Answer, StartChain
<1>7. CASE pc = "input" /\ ProcessInput
  BY <1>1, <1>7, InputEffect DEF Answered, Handled, Steady
<1>8. CASE pc = "exec" /\ Execute
  BY <1>1, <1>8, ExecuteEffect DEF Executed, Handled, Steady
<1>9. ASSUME StopLoop \/ EnterNowhere \/ Release \/ Interrupt \/ InterruptEntering \/ Expire
      PROVE  pc' # "exec"
  BY <1>9 DEF StopLoop, EnterNowhere, Rest, Release, Interrupt, InterruptEntering, Stop, Expire
<1>10. ASSUME ResetFlow \/ ToggleActive \/ \E f \in Flows : Publish(f) \/ Attach(f)
       PROVE  changes' # 0
  BY <1>10 DEF ResetFlow, ToggleActive, Publish, Attach, Change, Steady, Shape, TypeOK
<1> QED
  BY <1>1, <1>2, <1>3, <1>4, <1>5, <1>6, <1>7, <1>8, <1>9, <1>10 DEF Next, Work, Interfere,
     ProcessInput, Execute

\* While no administrator interferes, one definition is worked with.
LEMMA OneDefinition ==
  ASSUME Steady, [Next]_vars, changes' = 0
  PROVE  changes = 0 /\ def' = def /\ flow' = flow
<1>1. changes' = changes /\ flow' = flow
  <2>1. ASSUME ResetFlow \/ ToggleActive \/ \E f \in Flows : Publish(f) \/ Attach(f)
        PROVE  FALSE
    BY <2>1 DEF ResetFlow, ToggleActive, Publish, Attach, Change, Steady, Shape, TypeOK
  <2>2. ASSUME NEW m, Receive(m) PROVE UNCHANGED <<changes, flow>>
    BY <2>2 DEF Receive, bounds, world
  <2>3. ASSUME Passive \/ Blocked \/ GoBack \/ Start \/ StartOver \/ Answer
        PROVE  UNCHANGED <<changes, flow>>
    BY <2>3 DEF Passive, Blocked, GoBack, Start, StartOver, Answer, StartChain, bounds, world
  <2>4. ASSUME StopLoop \/ EnterNowhere \/ EnterStep \/ Release
        PROVE  UNCHANGED <<changes, flow>>
    BY <2>4 DEF StopLoop, EnterNowhere, EnterStep, Release, bounds, world
  <2>5. CASE ProcessInput
    BY <2>5, InputEffect DEF ProcessInput, Answered, Handled, Steady, bounds
  <2>6. CASE Execute
    BY <2>6, ExecuteEffect DEF Execute, Executed, Handled, Steady, bounds
  <2>7. ASSUME Interrupt \/ InterruptEntering \/ Expire \/ Unblock \/ UNCHANGED vars
        PROVE  UNCHANGED <<changes, flow>>
    BY <2>7 DEF Interrupt, InterruptEntering, Stop, Expire, Unblock, vars, bounds, world
  <2> QED
    BY <2>1, <2>2, <2>3, <2>4, <2>5, <2>6, <2>7 DEF Next, Work, Interfere
<1> QED
  BY <1>1, NextSteady DEF Steady, Settled

LEMMA NextTicket ==
  ASSUME Steady, Entered, TicketTellsEnd, [Next]_vars
  PROVE  TicketTellsEnd'
<1> SUFFICES ASSUME changes' = 0, ticket' # NoTicket, user'.home,
                    Len(ticket'.journey) < JourneyCap
             PROVE  \E i \in DOMAIN ticket'.journey :
                      /\ ticket'.journey[i].kind = "entry"
                      /\ ticket'.journey[i].step \in DOMAIN def'.steps
                      /\ def'.steps[ticket'.journey[i].step].type = "END"
  BY DEF TicketTellsEnd
<1>1. changes = 0 /\ def' = def
  BY OneDefinition
<1>2. CASE UNCHANGED ticket /\ user.home
  BY <1>1, <1>2 DEF TicketTellsEnd
<1>3. CASE pc = "exec" /\ Execute
  <2>1. EndsHere /\ user'.home = user.home
    BY <1>3, ExecuteEffect DEF Executed, Handled, Steady
  <2>2. CASE ticket' # ticket
    <3>1. Here.type = "END" /\ ticket'.journey = journey
      BY <2>1, <2>2 DEF EndsHere, FileTicket
    <3>2. PICK i \in DOMAIN journey : journey[i] = Event("entry")
      BY <1>1, <1>3, <3>1, StoreAssumption DEF Entered
    <3>3. journey[i].kind = "entry" /\ journey[i].step = at
      BY <3>2 DEF Event
    <3>4. at \in DOMAIN def.steps /\ def.steps[at].type = "END"
      BY <1>3, <3>1 DEF Here, Steady, Shape, TypeOK
    <3> QED
      BY <1>1, <3>1, <3>2, <3>3, <3>4
  <2> QED
    BY <1>2, <2>1, <2>2
<1>4. CASE pc = "input" /\ ProcessInput
  BY <1>2, <1>4, InputEffect DEF Answered, Handled, Steady
<1>5. CASE Unblock
  BY <1>2, <1>5 DEF Unblock, Steady, Shape, UserOK
<1>6. CASE UNCHANGED <<user, ticket>>
  BY <1>2, <1>6
<1> QED
  BY <1>3, <1>4, <1>5, <1>6, WhoWrites

\* As long as the flow stays as it is, a ticket whose journey is not full, of
\* a contact whose row names the instance, has the END step that filed it
\* among its entries (ticket.service.ts:16-46, schema.prisma:100).
THEOREM TicketHolds == Spec => []TicketTellsEnd
<1>1. Init => Entered /\ TicketTellsEnd
  BY DEF Init, Entered, TicketTellsEnd
<1> QED
  BY <1>1, InitSteady, NextSteady, NextEntered, NextTicket, PTL DEF Spec

-----------------------------------------------------------------------------
\* The block of an END step.

\* The phases in which nothing is said.
Silence == {"idle", "dispatch", "release"}

LEMMA NextQuiet ==
  ASSUME Steady, Quiet, [Next]_vars
  PROVE  Quiet'
<1> SUFFICES ASSUME user'.blocked, expiries' = 0, changes' = 0
             PROVE  AtEnd' /\ pc' \in Silence
  BY DEF Quiet, Silence
<1>1. changes = 0 /\ def' = def /\ flow' = flow
  BY OneDefinition
<1>2. ASSUME user.blocked, expiries = 0
      PROVE  AtEnd /\ pc \in Silence
  BY <1>1, <1>2 DEF Quiet, Silence
<1>3. ASSUME user.blocked, expiries = 0, step' = step, pc' \in Silence
      PROVE  AtEnd' /\ pc' \in Silence
  BY <1>1, <1>2, <1>3 DEF AtEnd
<1>4. ASSUME NEW m, Receive(m) PROVE AtEnd' /\ pc' \in Silence
  BY <1>3, <1>4 DEF Receive, session, world, bounds, Silence
<1>5. ASSUME Passive \/ Blocked PROVE AtEnd' /\ pc' \in Silence
  BY <1>3, <1>5 DEF Passive, Blocked, Rest, session, world, bounds, Silence
<1>6. ASSUME GoBack \/ Start \/ StartOver \/ Answer PROVE FALSE
  BY <1>2, <1>6 DEF GoBack, Start, StartOver, Answer, StartChain, GoingOn, Dispatching, world, bounds
<1>7. CASE pc = "input" /\ ProcessInput
  BY <1>2, <1>7, InputEffect DEF Answered, Handled, Steady, bounds, Silence
<1>8. CASE pc = "exec" /\ Execute
  <2>1. Handled /\ EndsHere /\ ~user.blocked
    BY <1>2, <1>8, ExecuteEffect DEF Executed, Handled, Steady, bounds, Silence
  <2>2. Here.type = "END" /\ pc' = "release" /\ step' = step
    BY <2>1 DEF EndsHere
  <2>3. step = at \/ step = NoStep
    BY <1>8 DEF Steady, AtWork
  <2>4. step = at
    BY <1>1, <1>8, <2>3 DEF Steady, AtWork, Shape, TypeOK
  <2>5. at \in DOMAIN def.steps /\ def = flow
    BY <1>1, <1>8 DEF Steady, Settled, Shape, TypeOK
  <2> QED
    BY <1>1, <2>2, <2>4, <2>5 DEF AtEnd, Here, Silence
<1>9. ASSUME StopLoop \/ EnterNowhere \/ EnterStep PROVE FALSE
  BY <1>2, <1>9 DEF StopLoop, EnterNowhere, EnterStep, world, bounds, Silence
<1>10. CASE Release
  BY <1>3, <1>10 DEF Release, session, world, bounds, Silence
<1>11. ASSUME Interrupt \/ InterruptEntering PROVE AtEnd' /\ pc' \in Silence
  <2>1. user.blocked /\ expiries = 0 /\ pc' \in Silence
    BY <1>11 DEF Interrupt, InterruptEntering, Stop, world, Silence
  <2>2. step' = step
    BY <1>2, <1>11, <2>1 DEF Interrupt, InterruptEntering, session, Silence
  <2> QED
    BY <1>3, <2>1, <2>2
<1>12. ASSUME Expire PROVE FALSE
  <2>1. expiries' = expiries + 1
    BY <1>12 DEF Expire
  <2>2. expiries \in Nat
    BY DEF Steady, Shape, TypeOK
  <2> QED
    BY <2>1, <2>2
<1>13. ASSUME Unblock PROVE FALSE
  BY <1>13 DEF Unblock, Steady, Shape, UserOK
<1>14. ASSUME ResetFlow \/ ToggleActive \/ \E f \in Flows : Publish(f) \/ Attach(f)
       PROVE  FALSE
  BY <1>14 DEF ResetFlow, ToggleActive, Publish, Attach, Change, Steady, Shape, TypeOK
<1>15. CASE UNCHANGED vars
  BY <1>2, <1>3, <1>15 DEF vars, session, world, bounds
<1> QED
  BY <1>4, <1>5, <1>6, <1>7, <1>8, <1>9, <1>10, <1>11, <1>12, <1>13, <1>14, <1>15 DEF Next, Work,
     Interfere, ProcessInput, Execute

\* Nothing is said where a message is not worked on.
LEMMA SaidByWork ==
  ASSUME pc \in Silence, [Next]_vars
  PROVE  ~(~said /\ said')
<1>1. ASSUME NEW m, Receive(m) PROVE said' = said
  BY <1>1 DEF Receive, seen
<1>2. ASSUME Passive \/ Blocked \/ GoBack \/ Start \/ StartOver \/ Answer PROVE said' = said
  BY <1>2 DEF Passive, Blocked, GoBack, Start, StartOver, Answer, StartChain, seen
<1>3. ASSUME ProcessInput \/ Execute \/ StopLoop \/ EnterNowhere \/ EnterStep \/ InterruptEntering
      PROVE  FALSE
  BY <1>3 DEF ProcessInput, Execute, StopLoop, EnterNowhere, EnterStep, InterruptEntering, Silence
<1>4. ASSUME Release \/ Interrupt PROVE said' = said \/ said' = FALSE
  BY <1>4 DEF Release, Interrupt, Stop, seen
<1>5. ASSUME Expire \/ Unblock PROVE said' = said
  BY <1>5 DEF Expire, Unblock, seen
<1>6. ASSUME ResetFlow \/ ToggleActive \/ \E f \in Flows : Publish(f) \/ Attach(f)
      PROVE  said' = said
  BY <1>6 DEF ResetFlow, ToggleActive, Publish, Attach, Change, seen
<1>7. CASE UNCHANGED vars
  BY <1>7 DEF vars, seen
<1> QED
  BY <1>1, <1>2, <1>3, <1>4, <1>5, <1>6, <1>7 DEF Next, Work, Interfere

\* A contact who is blocked at an END step is sent nothing before the block is
\* over, an administrator interferes or the session expires
\* (flow.service.ts:132-142).
THEOREM QuietHolds == Spec => BlockedStaysQuiet
<1>1. Init => Quiet
  <2>1. NewContact(HomeContact).blocked = FALSE
    BY DEF NewContact
  <2> QED
    BY <2>1 DEF Init, Quiet
<1>2. Quiet /\ [Next]_vars
        => [~said /\ said' /\ expiries = 0 /\ changes = 0 => ~user.blocked]_vars
  BY SaidByWork DEF Quiet, Silence
<1> QED
  BY <1>1, <1>2, InitSteady, NextSteady, NextQuiet, PTL DEF Spec, BlockedStaysQuiet

-----------------------------------------------------------------------------
\* What the customer is left with.

LEMMA NextNeverSilent ==
  ASSUME Steady, NeverSilent, [Next]_vars
  PROVE  NeverSilent'
<1> DEFINE Excused == \/ said'
                      \/ LeadsNowhere(def'.steps[step'])
                      \/ /\ msg' = "9" /\ def'.steps[step'].type = "REVIEW"
                         /\ def'.steps[step'].skip
<1> SUFFICES ASSUME pc' = "release", Undisturbed', active', RestingAt(PromptTypes)'
             PROVE  Excused
  BY DEF NeverSilent
<1>1. changes = 0 /\ def' = def /\ flow' = flow
  BY OneDefinition DEF Undisturbed
<1>2. step' \in DOMAIN def.steps /\ def.steps[step'].type \in PromptTypes /\ step' # NoStep
  BY <1>1, EngineAssumption DEF RestingAt, Steady, Shape, TypeOK
<1>3. ASSUME NEW m, Receive(m) PROVE FALSE
  BY <1>3 DEF Receive
<1>4. ASSUME Passive PROVE FALSE
  BY <1>4 DEF Passive, world
<1>5. ASSUME Blocked PROVE FALSE
  BY <1>1, <1>2, <1>5 DEF Blocked, AtEnd, session, PromptTypes, Steady, Settled
<1>6. ASSUME GoBack \/ Start \/ StartOver \/ Answer \/ EnterStep \/ Release \/ Expire PROVE FALSE
  BY <1>6 DEF GoBack, Start, StartOver, Answer, StartChain, EnterStep, Release, Expire
<1>7. ASSUME StopLoop \/ EnterNowhere PROVE FALSE
  BY <1>2, <1>7 DEF StopLoop, EnterNowhere
<1>8. CASE pc = "input" /\ ProcessInput
  <2>1. Answered
    BY <1>8, InputEffect DEF Steady
  <2>2. step' = at
    BY <1>1, <1>2, <1>8, <2>1 DEF Answered, Steady, AtWork
  <2> QED
    BY <1>1, <1>2, <2>1, <2>2 DEF Answered, Handled, Here
<1>9. CASE pc = "exec" /\ Execute
  <2>1. Executed
    BY <1>9, ExecuteEffect DEF Steady
  <2>2. step' = at
    BY <1>1, <1>2, <1>9, <2>1 DEF Executed, Handled, Steady, AtWork
  <2> QED
    BY <1>1, <1>2, <2>1, <2>2 DEF Executed, Here
<1>10. ASSUME Interrupt \/ InterruptEntering PROVE FALSE
  <2>1. interrupts' = interrupts + 1
    BY <1>10 DEF Interrupt, InterruptEntering, Stop
  <2>2. interrupts \in Nat
    BY DEF Steady, Shape, TypeOK
  <2> QED
    BY <2>1, <2>2 DEF Undisturbed
<1>11. CASE Unblock
  BY <1>1, <1>11 DEF Unblock, NeverSilent, Undisturbed, RestingAt, session, work, bounds, seen
<1>12. ASSUME ResetFlow \/ ToggleActive \/ \E f \in Flows : Publish(f) \/ Attach(f)
       PROVE  FALSE
  BY <1>1, <1>12 DEF ResetFlow, ToggleActive, Publish, Attach, Change, Undisturbed
<1>13. CASE UNCHANGED vars
  BY <1>1, <1>13 DEF vars, NeverSilent, Undisturbed, RestingAt, session, world, work, bounds, seen
<1> QED
  BY <1>3, <1>4, <1>5, <1>6, <1>7, <1>8, <1>9, <1>10, <1>11, <1>12, <1>13 DEF Next, Work,
     Interfere, ProcessInput, Execute

\* A message that leaves the conversation at a question is answered, but for
\* a question that leads nowhere and "9" at a review that skips itself
\* (review.handler.ts:119-123), in every flow.
THEOREM NeverSilentHolds == Spec => []NeverSilent
<1>1. Init => NeverSilent
  BY DEF Init, NeverSilent
<1> QED
  BY <1>1, InitSteady, NextSteady, NextNeverSilent, PTL DEF Spec

LEMMA NextAskedLast ==
  ASSUME Steady, AskedLast, [Next]_vars
  PROVE  AskedLast'
<1> DEFINE Asks(s, m) == [kind |-> "ask", about |-> s.fields[m.field_idx + 1].variable]
<1> SUFFICES ASSUME Undisturbed', pc' \in AtRest, RestingAt({"CUSTOMER_IDENTIFICATION"})',
                    ~LeadsNowhere(def'.steps[step'])
             PROVE  screen' = Asks(def'.steps[step'], meta')
  BY DEF AskedLast
<1>1. changes = 0 /\ def' = def /\ flow' = flow
  BY OneDefinition DEF Undisturbed
<1>2. /\ step' \in DOMAIN def.steps /\ step' # NoStep
      /\ def.steps[step'].type = "CUSTOMER_IDENTIFICATION"
      /\ ~LeadsNowhere(def.steps[step'])
  BY <1>1, EngineAssumption DEF RestingAt, Steady, Shape, TypeOK
<1>3. ASSUME UNCHANGED <<step, meta, screen, interrupts, expiries>>, pc \in AtRest
      PROVE  screen' = Asks(def'.steps[step'], meta')
  BY <1>1, <1>2, <1>3 DEF AskedLast, Undisturbed, RestingAt
<1>4. ASSUME NEW m, Receive(m) PROVE screen' = Asks(def'.steps[step'], meta')
  BY <1>3, <1>4 DEF Receive, session, bounds, seen, AtRest
<1>5. ASSUME Passive \/ Blocked \/ Answer \/ Release
      PROVE  screen' = Asks(def'.steps[step'], meta')
  BY <1>3, <1>5 DEF Passive, Blocked, Answer, GoingOn, Dispatching, Release, session, bounds, seen,
     AtRest
<1>6. ASSUME GoBack \/ Start \/ StartOver \/ EnterStep PROVE FALSE
  BY <1>6 DEF GoBack, Start, StartOver, StartChain, EnterStep, AtRest
<1>7. ASSUME StopLoop \/ EnterNowhere PROVE FALSE
  BY <1>2, <1>7 DEF StopLoop, EnterNowhere
<1>8. ASSUME pc = "input", ProcessInput PROVE FALSE
  <2>1. Answered
    BY <1>8, InputEffect DEF Steady
  <2>2. step' = at
    BY <1>1, <1>2, <1>8, <2>1 DEF Answered, Steady, AtWork
  <2>3. pc' = "release"
    BY <2>1 DEF Answered, Handled, AtRest
  <2> QED
    BY <1>2, <2>1, <2>2, <2>3 DEF Answered, Here
<1>9. CASE pc = "exec" /\ Execute
  <2>1. Executed
    BY <1>9, ExecuteEffect DEF Steady
  <2>2. step' = at
    BY <1>1, <1>2, <1>9, <2>1 DEF Executed, Handled, Steady, AtWork
  <2>3. pc' = "release"
    BY <2>1 DEF Executed, Handled, AtRest
  <2> QED
    BY <1>1, <1>2, <2>1, <2>2, <2>3 DEF Executed, Here
<1>10. ASSUME Interrupt \/ InterruptEntering \/ Expire PROVE FALSE
  <2>1. interrupts' = interrupts + 1 \/ expiries' = expiries + 1
    BY <1>10 DEF Interrupt, InterruptEntering, Stop, Expire
  <2>2. interrupts \in Nat /\ expiries \in Nat
    BY DEF Steady, Shape, TypeOK
  <2> QED
    BY <2>1, <2>2 DEF Undisturbed
<1>11. CASE Unblock
  BY <1>3, <1>11 DEF Unblock, session, bounds, seen
<1>12. ASSUME ResetFlow \/ ToggleActive \/ \E f \in Flows : Publish(f) \/ Attach(f)
       PROVE  FALSE
  BY <1>1, <1>12 DEF ResetFlow, ToggleActive, Publish, Attach, Change, Undisturbed
<1>13. CASE UNCHANGED vars
  BY <1>3, <1>13 DEF vars, session, bounds, seen
<1> QED
  BY <1>4, <1>5, <1>6, <1>7, <1>8, <1>9, <1>10, <1>11, <1>12, <1>13 DEF Next, Work, Interfere,
     ProcessInput, Execute

\* What a customer writes at an identification is stored in the field he was
\* asked for last, whatever he wrote before
\* (customer-identification.handler.ts).
THEOREM AskedHolds == Spec => AnswerGoesToAskedField
<1>1. Init => AskedLast
  BY EngineAssumption DEF Init, AskedLast, RestingAt
<1>2. Steady /\ AskedLast /\ [Next]_vars
        => [pc = "input" /\ Here.type = "CUSTOMER_IDENTIFICATION" /\ ~LeadsNowhere(Here)
              /\ Undisturbed /\ user' # user
              => screen = [kind |-> "ask", about |-> Field.variable]]_vars
  <2> SUFFICES ASSUME Steady, AskedLast, pc = "input", Undisturbed,
                      Here.type = "CUSTOMER_IDENTIFICATION", ~LeadsNowhere(Here)
               PROVE  screen = [kind |-> "ask", about |-> Field.variable]
    OBVIOUS
  <2>1. step = at /\ at \in DOMAIN def.steps
    BY DEF Steady, AtWork, Shape, TypeOK, Undisturbed
  <2> QED
    BY <2>1 DEF AskedLast, RestingAt, Field, Here, AtRest
<1> QED
  BY <1>1, <1>2, InitSteady, NextSteady, NextAskedLast, PTL DEF Spec, AnswerGoesToAskedField

-----------------------------------------------------------------------------
\* The work on a message runs down.

LEMMA StepsFromPhase ==
  ASSUME NEW entered \in 0 .. MaxSteps
  PROVE  /\ \A phase \in Phases : StepsFrom(phase, entered) \in Nat
         /\ StepsFrom("idle", entered) = 0 /\ StepsFrom("release", entered) = 1
         /\ StepsFrom("enter", entered) = 2 * (MaxSteps - entered) + 2
         /\ StepsFrom("exec", entered) = 2 * (MaxSteps - entered) + 3
         /\ StepsFrom("input", entered) = 2 * MaxSteps + 3
         /\ StepsFrom("dispatch", entered) = 2 * MaxSteps + 4
BY EngineAssumption DEF StepsFrom, Phases

LEMMA HandlersRunDown ==
  ASSUME Shape, (pc = "exec" /\ Execute) \/ (pc = "input" /\ ProcessInput)
  PROVE  StepsLeft' < StepsLeft
<1>1. count \in 0 .. MaxSteps /\ MaxSteps \in Nat
  BY EngineAssumption DEF Shape, TypeOK
<1>2. Handled
  BY ExecuteEffect, InputEffect DEF Executed, Answered
<1>3. count' = count /\ pc' \in {"enter", "release"}
  BY <1>2 DEF Handled
<1>4. CASE pc' = "enter"
  BY <1>1, <1>3, <1>4, StepsFromPhase DEF StepsLeft
<1>5. CASE pc' = "release"
  BY <1>1, <1>3, <1>5, StepsFromPhase DEF StepsLeft
<1> QED
  BY <1>3, <1>4, <1>5

\* Every step of the work on a message brings it nearer to its end, and nobody
\* who interferes puts it off, in every flow and however many steps are allowed
\* (MAX_STEPS_PER_MESSAGE, flow.service.ts:235-248).  With the fairness of
\* FairSpec this is why Released holds.
THEOREM WorkRunsDownHolds == Spec => WorkRunsDown
<1>1. ASSUME Shape, [Next]_vars
      PROVE  [pc # "idle" => StepsLeft' <= StepsLeft /\ (Work => StepsLeft' < StepsLeft)]_vars
  <2> SUFFICES ASSUME Next, pc # "idle"
               PROVE  StepsLeft' <= StepsLeft /\ (Work => StepsLeft' < StepsLeft)
    BY <1>1
  <2> DEFINE Down == StepsLeft' < StepsLeft
  <2>1. /\ count \in 0 .. MaxSteps /\ MaxSteps \in Nat \ {0} /\ pc \in Phases
        /\ count' \in 0 .. MaxSteps /\ pc' \in Phases
    BY <1>1, EngineAssumption, NextShape DEF Shape, TypeOK
  <2>2. StepsLeft \in Nat /\ StepsLeft' \in Nat
    BY <2>1, StepsFromPhase DEF StepsLeft
  <2>3. ASSUME Passive \/ Blocked PROVE Down
    <3>1. pc = "dispatch" /\ pc' = "release"
      BY <2>3 DEF Passive, Blocked, Rest
    <3> QED
      BY <2>1, <3>1, StepsFromPhase DEF StepsLeft
  <2>4. ASSUME GoBack \/ Start \/ StartOver PROVE Down
    <3>1. pc = "dispatch" /\ pc' = "enter" /\ count' = 0
      BY <2>4 DEF GoBack, Start, StartOver, GoingOn, Dispatching, StartChain
    <3> QED
      BY <2>1, <3>1, StepsFromPhase DEF StepsLeft
  <2>5. ASSUME Answer PROVE Down
    <3>1. pc = "dispatch" /\ pc' = "input"
      BY <2>5 DEF Answer, GoingOn, Dispatching
    <3> QED
      BY <2>1, <3>1, StepsFromPhase DEF StepsLeft
  <2>6. ASSUME StopLoop \/ EnterNowhere PROVE Down
    <3>1. pc = "enter" /\ pc' = "release"
      BY <2>6 DEF StopLoop, EnterNowhere, Rest
    <3> QED
      BY <2>1, <3>1, StepsFromPhase DEF StepsLeft
  <2>7. ASSUME EnterStep PROVE Down
    <3>1. pc = "enter" /\ pc' = "exec" /\ count' = count + 1
      BY <2>7 DEF EnterStep
    <3> QED
      BY <2>1, <3>1, StepsFromPhase DEF StepsLeft
  <2>8. ASSUME Release PROVE Down
    <3>1. pc = "release" /\ pc' = "idle"
      BY <2>8 DEF Release
    <3> QED
      BY <2>1, <3>1, StepsFromPhase DEF StepsLeft
  <2>9. ASSUME Execute \/ ProcessInput PROVE Down
    BY <1>1, <2>9, HandlersRunDown DEF Execute, ProcessInput
  <2>10. Work => Down
    BY <2>3, <2>4, <2>5, <2>6, <2>7, <2>8, <2>9 DEF Work
  <2>11. Down => StepsLeft' <= StepsLeft
    BY <2>2
  <2>12. ASSUME Interrupt \/ InterruptEntering PROVE StepsLeft' <= StepsLeft
    <3>1. pc \in {"dispatch", "input", "enter", "exec"} /\ pc' \in {"release", "idle"}
      BY <2>12 DEF Interrupt, InterruptEntering, Stop
    <3>2. StepsLeft' <= 1
      BY <2>1, <3>1, StepsFromPhase DEF StepsLeft
    <3>3. StepsLeft >= 1
      BY <2>1, <3>1, StepsFromPhase DEF StepsLeft
    <3> QED
      BY <2>2, <3>2, <3>3
  <2>13. ASSUME Unblock \/ ResetFlow \/ ToggleActive \/ \E f \in Flows : Publish(f) \/ Attach(f)
         PROVE  StepsLeft' <= StepsLeft
    <3>1. pc' = pc /\ UNCHANGED work
      BY <2>13 DEF Unblock, ResetFlow, ToggleActive, Publish, Attach, Change
    <3>2. StepsLeft' = StepsLeft
      BY <3>1 DEF work, StepsLeft
    <3> QED
      BY <2>2, <3>2
  <2>14. ASSUME NEW m, Receive(m) \/ Expire PROVE FALSE
    BY <2>14 DEF Receive, Expire
  <2> HIDE DEF Down
  <2>15. Work \/ Interfere
    BY <2>14 DEF Next
  <2>16. Interfere => StepsLeft' <= StepsLeft
    BY <2>12, <2>13, <2>14 DEF Interfere
  <2> QED
    BY <2>10, <2>11, <2>15, <2>16 DEF Down
<1> QED
  BY <1>1, InitShape, NextShape, PTL DEF Spec, WorkRunsDown

=============================================================================
