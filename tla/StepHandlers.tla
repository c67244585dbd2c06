---------------------------- MODULE StepHandlers ----------------------------
(***************************************************************************)
(* The step handlers: <Type>Execute is executeStep, called when the flow   *)
(* enters the step "at"; <Type>Input is processInput, called when a        *)
(* message finds the conversation at that step.  Both end with Continue    *)
(* (the step they return) or Rest (null).                                  *)
(***************************************************************************)
EXTENDS FlowState

-----------------------------------------------------------------------------
\* Steps that pass the conversation on.

TextExecute ==
  /\ Say("text", at)
  /\ Continue(Here.next)
  /\ UNCHANGED <<session, world>>

TextInput == Continue(Here.next) /\ Silent /\ UNCHANGED <<session, world>>

\* The address is literal, or held in a variable that may be empty.
MediaExecute ==
  /\ IF Here.url = "" \/ Get(user, Here.url) # ""
     THEN Say("media", at) /\ Note("interaction") /\ UNCHANGED <<step, history, meta>>
     ELSE Silent /\ UNCHANGED session
  /\ Continue(Here.next)
  /\ UNCHANGED world

DelayExecute == Continue(Here.next) /\ Silent /\ UNCHANGED <<session, world>>

JumpExecute == Continue(Here.target) /\ Silent /\ UNCHANGED <<session, world>>

NumberOr0(text) == IF NumberOf(text) = {} THEN 0 ELSE CHOOSE n \in NumberOf(text) : TRUE

NewValue ==
  LET current == NumberOr0(MetaOf(user, Here.variable))
      change  == NumberOr0(Here.value)
  IN  CASE Here.action = "INCREMENT" -> TextOf(current + change)
        [] Here.action = "DECREMENT" -> TextOf(current - change)
        [] OTHER -> Here.value

SetVariableExecute ==
  /\ user' = SetMeta(user, Here.variable, NewValue)
  /\ Note("interaction")
  /\ Continue(Here.next)
  /\ Silent
  /\ UNCHANGED <<step, history, meta, ticket, flow, active>>

\* Numbers are compared as numbers, everything else as text.
Same(left, right) ==
  IF NumberOf(left) # {} /\ NumberOf(right) # {}
  THEN NumberOf(left) = NumberOf(right)
  ELSE left = right

ConditionHolds ==
  LET left == Get(user, Here.variable)
  IN  CASE Here.operator = "EQUALS" -> Same(left, Here.value)
        [] Here.operator = "NOT_EQUALS" -> ~Same(left, Here.value)
        [] Here.operator = "CONTAINS" -> Contains(left, Here.value)
        [] Here.operator = "IS_EMPTY" -> left = ""
        [] Here.operator = "IS_NOT_EMPTY" -> left # ""
        [] OTHER -> FALSE

ConditionExecute ==
  /\ Continue(IF ConditionHolds THEN Here.trueStep ELSE Here.falseStep)
  /\ Silent
  /\ UNCHANGED <<session, world>>

\* The first branch whose value is the variable's, or the default.
SwitchTarget ==
  LET value == Lower(Get(user, Here.variable))
      hits  == {i \in DOMAIN Here.branches : Same(value, Lower(Here.branches[i].value))}
  IN  IF hits = {} THEN Here.default ELSE Here.branches[Least(hits)].target

SwitchExecute ==
  /\ Continue(IF Here.variable = "" THEN Here.default ELSE SwitchTarget)
  /\ IF Here.variable = ""
     THEN UNCHANGED session
     ELSE Note("interaction") /\ UNCHANGED <<step, history, meta>>
  /\ Silent
  /\ UNCHANGED world

\* Also TRACK_DESK.  The service answers, rejects the request, or the request
\* fails; a step that leads nowhere ends the conversation.
StatusOf(outcome) == CASE outcome = "answered" -> "200"
                       [] outcome = "rejected" -> "404"
                       [] outcome = "failed" -> "500"

Keep(contact, key, value) == IF key = "" THEN contact ELSE SetMeta(contact, key, value)

\* Mutant: a step that leads nowhere leaves the conversation there.
HttpExecuteWithoutClear ==
  \E outcome \in {"answered", "failed"}, reply \in HttpBodies :
    LET target == Or(IF outcome = "answered" THEN Here.success ELSE Here.failure, Here.next)
    IN  /\ user' = WithProtocol(Keep(user, Here.saveBody, reply))
        /\ Continue(target)
        /\ Silent
        /\ UNCHANGED <<session, ticket, flow, active>>

HttpExecute ==
  \E outcome \in {"answered", "rejected", "failed"}, reply \in HttpBodies :
    LET target == Or(IF outcome = "answered" THEN Here.success ELSE Here.failure, Here.next)
        body   == IF outcome = "failed" THEN "error" ELSE reply
    IN  /\ user' = WithProtocol(Keep(Keep(user, Here.saveStatus, StatusOf(outcome)), Here.saveBody, body))
        /\ IF outcome = "failed" /\ Here.fallback THEN Say("fallback", at) ELSE Silent
        /\ step' = IF target = NoStep THEN NoStep ELSE step
        /\ Continue(target)
        /\ UNCHANGED <<history, journey, meta, ticket, flow, active>>

-----------------------------------------------------------------------------
\* Steps the conversation ends or waits at without a question.

\* The update names a column the User table does not have; it throws, and the
\* chain ends there with nothing written.
HandoverExecute == Rest /\ Silent /\ UNCHANGED <<session, world>>

\* The journey is read under the instance named in the contact's row.
\* TicketService logs what goes wrong and returns, so a ticket may be missing.
FileTicket ==
  \/ ticket' = [journey |-> IF user.home THEN journey ELSE <<>>, protocol |-> user.protocol]
  \/ UNCHANGED ticket

EndExecute ==
  /\ FileTicket
  /\ IF Here.timeout
     THEN user' = [user EXCEPT !.blocked = TRUE] /\ UNCHANGED step
     ELSE step' = NoStep /\ UNCHANGED user
  /\ Rest /\ Silent
  /\ UNCHANGED <<history, journey, meta, flow, active>>

\* MEDIA, DELAY, JUMP, SET_VARIABLE, SWITCH, CONDITION, HTTP_REQUEST and
\* HANDOVER have nothing to do with what the customer writes.
DeafTypes == {"MEDIA", "DELAY", "JUMP", "SET_VARIABLE", "SWITCH", "CONDITION",
              "HTTP_REQUEST", "HANDOVER"}

DeafInput == Rest /\ Silent /\ UNCHANGED <<session, world>>

-----------------------------------------------------------------------------
\* INPUT

InputExecute == Say("prompt", at) /\ Rest /\ UNCHANGED <<session, world>>

InputRejected ==
  LET retries  == meta.retries[at] + 1
      exceeded == Here.maxRetries # 0 /\ retries >= Here.maxRetries
  IN  /\ ~InputAccepts(Here.expected, msg)
      /\ meta' = [meta EXCEPT !.retries[at] = IF exceeded THEN 0 ELSE retries]
      /\ Say(IF exceeded THEN "skipping" ELSE "invalid", at)
      /\ Continue(IF exceeded THEN Here.next ELSE at)
      /\ UNCHANGED <<step, history, journey, world>>

InputAccepted ==
  /\ InputAccepts(Here.expected, msg)
  /\ meta' = [meta EXCEPT !.retries[at] = 0]
  /\ Note("interaction")
  /\ user' = SaveAnswer(user, Here.variable, InputFormat(Here.expected, msg))
  /\ Continue(Here.next)
  /\ Silent
  /\ UNCHANGED <<step, history, ticket, flow, active>>

InputInput == InputRejected \/ InputAccepted

-----------------------------------------------------------------------------
\* OPTIONS.  Options are listed in the order of Object.keys.

Merge(options, more) ==
  LET with(i) == {k \in DOMAIN more : more[k].key = options[i].key}
  IN  [i \in DOMAIN options |-> IF with(i) = {} THEN options[i] ELSE more[Least(with(i))]]
        \o SelectSeq(more, LAMBDA o : \A i \in DOMAIN options : options[i].key # o.key)

Options ==
  IF Here.dynamic = "" THEN Here.options
  ELSE Merge(Here.options, OptionsIn(Get(user, Here.dynamic)))

\* The key as written, in any case, or its number in the list; 0 if none.
Chosen ==
  LET exact == {i \in DOMAIN Options : Options[i].key = msg /\ Options[i].target # NoStep}
      loose == {i \in DOMAIN Options : Lower(Options[i].key) = Lower(msg)}
  IN  CASE exact # {} -> Least(exact)
        [] exact = {} /\ loose # {} -> Least(loose)
        [] OTHER -> IF ParseInt(msg) \in DOMAIN Options THEN ParseInt(msg) ELSE 0

OptionsExecute == Say("menu", at) /\ Rest /\ UNCHANGED <<session, world>>

\* Mutant: an invalid choice is ignored.
OptionsInputInSilence ==
  /\ IF Chosen = 0
     THEN Rest /\ UNCHANGED session
     ELSE Note("interaction") /\ Continue(Options[Chosen].target) /\ UNCHANGED <<step, history, meta>>
  /\ Silent
  /\ UNCHANGED world

OptionsInput ==
  /\ IF Chosen = 0
     THEN Say("invalid", at) /\ Rest /\ UNCHANGED session
     ELSE /\ Note("interaction")
          /\ Continue(Options[Chosen].target)
          /\ Silent
          /\ UNCHANGED <<step, history, meta>>
  /\ UNCHANGED world

-----------------------------------------------------------------------------
\* CUSTOMER_IDENTIFICATION

Vars(fields) == {fields[i].variable : i \in DOMAIN fields}

\* Every field has a value, and no correction or fresh answer asks for more.
SmartSkip(keys) == Here.skip /\ ~meta.force_review_once /\ Filled(user, keys)

IdentificationExecute ==
  /\ IF SmartSkip(Vars(Here.fields))
     THEN Continue(Here.next) /\ Silent /\ UNCHANGED meta
     ELSE IF meta.field_idx >= Len(Here.fields)
     THEN meta' = NoMetadata(StepIds) /\ Continue(Here.next) /\ Silent
     ELSE Say("ask", Here.fields[meta.field_idx + 1].variable) /\ Rest /\ UNCHANGED meta
  /\ UNCHANGED <<step, history, journey, world>>

IdentificationLost ==
  /\ meta.field_idx >= Len(Here.fields)
  /\ meta' = NoMetadata(StepIds)
  /\ Continue(Here.next)
  /\ Silent
  /\ UNCHANGED <<step, history, journey, world>>

Field == Here.fields[meta.field_idx + 1]

IdentificationRejected ==
  /\ meta.field_idx < Len(Here.fields)
  /\ ~FieldAccepts(Field.type, msg)
  /\ Say("invalid", at)
  /\ Continue(at)
  /\ UNCHANGED <<session, world>>

\* Mutant: the next field is not asked for.
IdentificationAcceptedInSilence ==
  LET next == meta.field_idx + 1
      last == meta.edit_one_mode \/ next >= Len(Here.fields)
  IN  /\ meta.field_idx < Len(Here.fields) /\ FieldAccepts(Field.type, msg)
      /\ user' = SaveField(user, Field.variable, msg)
      /\ Note("interaction")
      /\ meta' = IF last
                 THEN [meta EXCEPT !.edit_one_mode = FALSE, !.field_idx = 0,
                                   !.force_review_once = TRUE]
                 ELSE [meta EXCEPT !.field_idx = next]
      /\ IF last THEN Continue(Here.next) ELSE Rest
      /\ Silent
      /\ UNCHANGED <<step, history, ticket, flow, active>>

\* Mutant: off by one, the last field is not asked for.
IdentificationAcceptedTooSoon ==
  LET next == meta.field_idx + 1
      last == meta.edit_one_mode \/ next + 1 >= Len(Here.fields)
  IN  /\ meta.field_idx < Len(Here.fields) /\ FieldAccepts(Field.type, msg)
      /\ user' = SaveField(user, Field.variable, msg)
      /\ Note("interaction")
      /\ meta' = IF last
                 THEN [meta EXCEPT !.edit_one_mode = FALSE, !.field_idx = 0,
                                   !.force_review_once = TRUE]
                 ELSE [meta EXCEPT !.field_idx = next]
      /\ Continue(IF last THEN Here.next ELSE at)
      /\ Silent
      /\ UNCHANGED <<step, history, ticket, flow, active>>

\* The answer to the last field, or to the one being corrected, ends the
\* identification and makes the review show itself once.
IdentificationAccepted ==
  LET next == meta.field_idx + 1
      last == meta.edit_one_mode \/ next >= Len(Here.fields)
  IN  /\ meta.field_idx < Len(Here.fields)
      /\ FieldAccepts(Field.type, msg)
      /\ user' = SaveField(user, Field.variable, msg)
      /\ Note("interaction")
      /\ meta' = IF last
                 THEN [meta EXCEPT !.edit_one_mode = FALSE, !.field_idx = 0,
                                   !.force_review_once = TRUE]
                 ELSE [meta EXCEPT !.field_idx = next]
      /\ Continue(IF last THEN Here.next ELSE at)
      /\ Silent
      /\ UNCHANGED <<step, history, ticket, flow, active>>

IdentificationInput ==
  IdentificationLost \/ IdentificationRejected \/ IdentificationAccepted

-----------------------------------------------------------------------------
\* REVIEW.  Its fields are variable names.

ShownMeta ==
  [meta EXCEPT !.review_mode = FALSE,
               !.force_review_once = @ /\ ~Here.skip]

ReviewSkips == SmartSkip({Here.fields[i] : i \in DOMAIN Here.fields})

ReviewExecute ==
  /\ meta' = ShownMeta
  /\ IF ReviewSkips
     THEN Continue(Here.next) /\ Silent
     ELSE Say("summary", at) /\ Rest
  /\ UNCHANGED <<step, history, journey, world>>

ReviewConfirmed ==
  /\ ~meta.review_mode /\ msg = "1"
  /\ Note("interaction")
  /\ Continue(Here.next)
  /\ Silent
  /\ UNCHANGED <<step, history, meta, world>>

ReviewEdit ==
  /\ ~meta.review_mode /\ msg = "2"
  /\ meta' = [meta EXCEPT !.review_mode = TRUE]
  /\ Say("fields", at)
  /\ Rest
  /\ UNCHANGED <<step, history, journey, world>>

\* Mutant: everything but "2" confirms.
ReviewOtherConfirms ==
  /\ ~meta.review_mode /\ msg \notin {"1", "2"}
  /\ Continue(Here.next)
  /\ Silent
  /\ UNCHANGED <<session, world>>

ReviewOther ==
  /\ ~meta.review_mode /\ msg \notin {"1", "2"}
  /\ Continue(at)
  /\ Silent
  /\ UNCHANGED <<session, world>>

\* "9" runs executeStep again and ignores the step it returns.
ReviewBackToSummary ==
  /\ meta.review_mode /\ msg = "9"
  /\ meta' = ShownMeta
  /\ IF ReviewSkips THEN Silent ELSE Say("summary", at)
  /\ Rest
  /\ UNCHANGED <<step, history, journey, world>>

FieldNumber == ParseInt(msg)

ReviewBadField ==
  /\ meta.review_mode /\ msg # "9"
  /\ FieldNumber \notin DOMAIN Here.fields
  /\ Say("invalid", at)
  /\ Rest
  /\ UNCHANGED <<session, world>>

\* Mutant: the correction step is not told which field to ask for.
CorrectionIndexesNone(key) == {}

\* The fields of the correction step that hold the variable, 0-based.
CorrectionIndexes(key) ==
  LET id == Here.correction
  IN  IF id \in DOMAIN def.steps /\ def.steps[id].type = "CUSTOMER_IDENTIFICATION"
      THEN {i - 1 : i \in {k \in DOMAIN def.steps[id].fields :
                              def.steps[id].fields[k].variable = key}}
      ELSE {}

\* The variable is emptied and the correction step asked for that field only.
ReviewCorrect ==
  LET key == Here.fields[FieldNumber]
      idx == CorrectionIndexes(key)
  IN  /\ meta.review_mode /\ msg # "9"
      /\ FieldNumber \in DOMAIN Here.fields
      /\ Note("interaction")
      /\ user' = ClearVariable(user, key)
      /\ meta' = IF idx = {} THEN [meta EXCEPT !.review_mode = FALSE]
                 ELSE [meta EXCEPT !.review_mode = FALSE, !.edit_one_mode = TRUE,
                                   !.field_idx = Least(idx)]
      /\ screen' = [kind |-> "correcting", about |-> key]
      /\ said' = TRUE
      /\ fixing' = key
      /\ Continue(Or(Here.correction, at))
      /\ UNCHANGED <<step, history, ticket, flow, active, from>>

ReviewInput ==
  \/ ReviewConfirmed \/ ReviewEdit \/ ReviewOther
  \/ ReviewBackToSummary \/ ReviewBadField \/ ReviewCorrect
=============================================================================
