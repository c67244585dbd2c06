------------------------------ MODULE FlowState ------------------------------
(***************************************************************************)
(* The state FlowService and its step handlers work on, for one contact on *)
(* one instance: the session in Redis, the contact's row, the flow that is *)
(* published, and the message being worked on (StepHandlerContext).        *)
(***************************************************************************)
EXTENDS SessionStore, Contacts

CONSTANTS
  StepIds,             \* step ids of all the flows
  Flows,               \* flow definitions that can be published
  Inputs,              \* what the customer may write
  HomeContact,         \* does the User row name this instance?
  MaxSteps,            \* MAX_STEPS_PER_MESSAGE (20 in the code)
  MaxInterrupts,       \* bound on exceptions and process deaths
  MaxExpiries,         \* bound on session keys that expire
  MaxChanges,          \* bound on what administrators do
  HttpBodies,          \* what services answer
  NoInput, NoTicket, NoScreen,
  Lower(_),            \* toLowerCase of the trimmed text
  ParseInt(_),         \* parseInt, 0 for not-a-number
  NumberOf(_),         \* {Number(text)}, {} for not-a-number or an empty text
  TextOf(_),           \* String(number)
  Contains(_, _),      \* lower-cased includes
  OptionsIn(_),        \* the options an object stored in a variable stands for
  FieldAccepts(_, _),  \* CustomerIdentificationHandler.validateField
  InputAccepts(_, _),  \* FieldValidatorService.validateAndFormat, isValid
  InputFormat(_, _)    \* ... and value

\* The kinds of step; TRACK_DESK is an HTTP_REQUEST to HttpRequestHandler.
StepTypes == {"TEXT", "OPTIONS", "INPUT", "CONDITION", "HTTP_REQUEST", "DELAY", "MEDIA",
              "SET_VARIABLE", "HANDOVER", "CUSTOMER_IDENTIFICATION", "SWITCH", "REVIEW", "JUMP", "END"}

\* A step has a kind; its options (by order of their keys), branches and fields are lists.
WellFormed(s) ==
  /\ s.type \in StepTypes
  /\ s.type = "OPTIONS" => DOMAIN s.options \subseteq Nat \ {0}
  /\ s.type = "SWITCH" => DOMAIN s.branches \subseteq Nat \ {0}
  /\ s.type = "CUSTOMER_IDENTIFICATION" =>
       Len(s.fields) \in Nat /\ DOMAIN s.fields = 1 .. Len(s.fields)

ASSUME EngineAssumption ==
  /\ MaxSteps \in Nat \ {0}
  /\ MaxInterrupts \in Nat /\ MaxExpiries \in Nat /\ MaxChanges \in Nat
  /\ HomeContact \in BOOLEAN
  /\ \A f \in Flows : /\ DOMAIN f.steps \subseteq StepIds
                       /\ \A id \in DOMAIN f.steps : WellFormed(f.steps[id])
  /\ NoStep \notin StepIds
  /\ NoScreen \notin [kind : {"summary"}, about : StepIds \cup {NoStep}]
  /\ Lower("1") = "1"

VARIABLES
  step, history, journey, meta,   \* the session in Redis
  user, ticket,                   \* the contact's row, the last ticket
  flow, active,                   \* what is published for the instance; is it on?
  pc,        \* what the worker does next
  msg,       \* the message it works on
  def,       \* the flow definition it works with
  at,        \* the step it is about to enter, or works on
  count,     \* steps entered for this message
  redo,      \* a message to be delivered again
  interrupts, expiries, changes,
  screen,    \* the last thing the customer was sent (history)
  said,      \* was anything sent for this message? (history)
  from,      \* the step the message found the conversation at (history)
  fixing     \* the variable the customer asked to correct (history)

session == <<step, history, journey, meta>>
world   == <<user, ticket, flow, active>>
work    == <<msg, def, at, count>>
bounds  == <<interrupts, expiries, changes>>
seen    == <<screen, said, from, fixing>>
vars    == <<session, world, pc, work, redo, bounds, seen>>

Phases == {"idle", "dispatch", "input", "enter", "exec", "release"}

PromptTypes == {"OPTIONS", "INPUT", "CUSTOMER_IDENTIFICATION", "REVIEW"}

\* Mutant: questions are not put into the history.
ListedTypesWithoutInput == {"OPTIONS", "CUSTOMER_IDENTIFICATION", "REVIEW", "TEXT", "MEDIA"}

\* The steps "back" can return to.
ListedTypes == PromptTypes \cup {"TEXT", "MEDIA"}

Here == def.steps[at]

Event(kind) == [kind |-> kind, step |-> at]
Note(kind) == journey' = PushJourney(journey, Event(kind))

\* outgoingQueue.add
Say(kind, about) ==
  /\ screen' = [kind |-> kind, about |-> about]
  /\ said' = TRUE
  /\ UNCHANGED <<from, fixing>>

\* Continue with a step, or come to rest if it is null.
Continue(id) ==
  /\ at' = id
  /\ pc' = IF id = NoStep THEN "release" ELSE "enter"
  /\ UNCHANGED <<msg, def, count>>

Rest == pc' = "release" /\ UNCHANGED work

\* a || b
Or(a, b) == IF a = NoStep THEN b ELSE a

Least(S) == CHOOSE i \in S : \A k \in S : i <= k

Silent == UNCHANGED seen
=============================================================================
