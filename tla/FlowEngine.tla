----------------------------- MODULE FlowEngine -----------------------------
(***************************************************************************)
(* FlowService: how one inbound message moves one contact's conversation   *)
(* through the flow that is published for the instance.                    *)
(*                                                                         *)
(* Only one message of a conversation is worked on at a time here; that is *)
(* what MessageLock establishes.  Everybody else is free to interfere      *)
(* between two steps of the work: an administrator resets the              *)
(* conversation, publishes another flow or switches it off, a call throws, *)
(* the process dies and the message is delivered again; and while nobody   *)
(* works on the conversation, Redis expires its keys.                      *)
(*                                                                         *)
(* Entering a step of the flow is one step here and running its handler is *)
(* another: between them the state is in Redis.                            *)
(***************************************************************************)
EXTENDS StepHandlers

Init ==
  /\ step = NoStep /\ history = <<>> /\ journey = <<>> /\ meta = NoMetadata(StepIds)
  /\ user = NewContact(HomeContact) /\ ticket = NoTicket
  /\ flow \in Flows /\ active = TRUE
  /\ pc = "idle" /\ msg = NoInput /\ def = flow /\ at = NoStep /\ count = 0
  /\ redo = NoInput
  /\ interrupts = 0 /\ expiries = 0 /\ changes = 0
  /\ screen = NoScreen /\ said = FALSE /\ from = NoStep /\ fixing = ""

-----------------------------------------------------------------------------
\* processMessage

\* The lock is taken; the message is a new one or one delivered again.
Receive(m) ==
  /\ pc = "idle"
  /\ pc' = "dispatch" /\ msg' = m
  /\ redo' = IF m = redo THEN NoInput ELSE redo
  /\ UNCHANGED <<session, world, def, at, count, bounds, seen>>

\* The step of the published flow the conversation is at, if it is there.
AtEnd == step \in DOMAIN flow.steps /\ flow.steps[step].type = "END"

\* An END step that is not blocked any more has been cleared.
Standing == IF AtEnd THEN NoStep ELSE step

\* Passive mode: no flow, or one that is switched off.
Passive ==
  /\ pc = "dispatch" /\ ~active
  /\ Rest
  /\ UNCHANGED <<session, world, redo, bounds, seen>>

\* flow_expires_at is still to come.
Blocked ==
  /\ pc = "dispatch" /\ active
  /\ AtEnd /\ user.blocked
  /\ Rest
  /\ UNCHANGED <<session, world, redo, bounds, seen>>

BackAsked ==
  /\ Lower(msg) \in {"0", "voltar"}
  /\ Standing \in DOMAIN flow.steps /\ flow.steps[Standing].allowBack

\* Mutant: only one step is popped.
PreviousPoppedOnce == PeekHistory(history)

\* popHistory twice: the step itself, then the one before it.
Previous == PeekHistory(PopHistory(history))

\* What is left of the history if the message asks to go back, whether or
\* not there is a step to go back to.
HistoryLeft ==
  IF BackAsked THEN PopHistory(PopHistory(history)) ELSE history

\* The chain of steps starts with this one.
StartChain(id) ==
  /\ pc' = "enter" /\ at' = id /\ count' = 0 /\ def' = flow
  /\ from' = Standing
  /\ UNCHANGED <<msg, redo, bounds, screen, said, fixing, world>>

\* Mutant: flow_expires_at is not looked at.
DispatchingUnblocked == pc = "dispatch" /\ active

Dispatching == pc = "dispatch" /\ active /\ ~(AtEnd /\ user.blocked)

GoBack ==
  /\ Dispatching /\ BackAsked /\ Previous # NoStep
  /\ history' = HistoryLeft
  /\ StartChain(Previous)
  /\ UNCHANGED <<step, journey, meta>>

GoingOn == Dispatching /\ ~(BackAsked /\ Previous # NoStep)

FirstStep ==
  IF flow.first # NoStep THEN flow.first
  ELSE IF user.name # "" THEN "MENU_PRINCIPAL" ELSE "INITIAL"

\* A conversation starts; history and metadata of an earlier one stay.
Start ==
  /\ GoingOn /\ Standing = NoStep
  /\ step' = NoStep /\ journey' = <<>>
  /\ StartChain(FirstStep)
  /\ UNCHANGED <<history, meta>>

\* The step is not in the flow (any more).
StartOver ==
  /\ GoingOn /\ Standing # NoStep /\ Standing \notin DOMAIN flow.steps
  /\ step' = NoStep
  /\ StartChain(FirstStep)
  /\ UNCHANGED <<history, journey, meta>>

Answer ==
  /\ GoingOn /\ Standing \in DOMAIN flow.steps
  /\ pc' = "input" /\ at' = Standing /\ count' = 0 /\ def' = flow
  /\ from' = Standing
  /\ history' = HistoryLeft
  /\ UNCHANGED <<step, journey, meta, world, msg, redo, bounds, screen, said, fixing>>

\* The finally block releases the lock.
Release ==
  /\ pc = "release"
  /\ pc' = "idle" /\ msg' = NoInput /\ at' = NoStep /\ count' = 0
  /\ said' = FALSE /\ from' = NoStep /\ fixing' = ""
  /\ UNCHANGED <<session, world, def, redo, bounds, screen>>

-----------------------------------------------------------------------------
\* executeStepChain

\* Too many steps for one message: the customer is told and the chain ends.
StopLoop ==
  /\ pc = "enter" /\ count >= MaxSteps
  /\ Say("restarted", at)
  /\ step' = NoStep /\ journey' = <<>>
  /\ Rest
  /\ UNCHANGED <<history, meta, world, redo, bounds>>

EnterNowhere ==
  /\ pc = "enter" /\ count < MaxSteps /\ at \notin DOMAIN def.steps
  /\ step' = NoStep
  /\ Rest /\ Silent
  /\ UNCHANGED <<history, journey, meta, world, redo, bounds>>

Listed ==
  IF Here.type \in ListedTypes /\ PeekHistory(history) # at
  THEN PushHistory(history, at)
  ELSE history

\* Mutant: the steps of a message are not counted.
EnterStepUncounted ==
  /\ pc = "enter" /\ count < MaxSteps /\ at \in DOMAIN def.steps
  /\ history' = Listed
  /\ step' = at
  /\ Note("entry")
  /\ pc' = "exec"
  /\ Silent
  /\ UNCHANGED <<count, meta, world, msg, def, at, redo, bounds>>

\* Mutant: only questions are entered in the journey.
EnterStepUnnoted ==
  /\ pc = "enter" /\ count < MaxSteps /\ at \in DOMAIN def.steps
  /\ count' = count + 1
  /\ history' = Listed
  /\ step' = at
  /\ IF Here.type \in PromptTypes THEN Note("entry") ELSE UNCHANGED journey
  /\ pc' = "exec"
  /\ Silent
  /\ UNCHANGED <<meta, world, msg, def, at, redo, bounds>>

EnterStep ==
  /\ pc = "enter" /\ count < MaxSteps /\ at \in DOMAIN def.steps
  /\ count' = count + 1
  /\ history' = Listed
  /\ step' = at
  /\ Note("entry")
  /\ pc' = "exec"
  /\ Silent
  /\ UNCHANGED <<meta, world, msg, def, at, redo, bounds>>

Execute ==
  /\ pc = "exec"
  /\ CASE Here.type = "TEXT" -> TextExecute
       [] Here.type = "MEDIA" -> MediaExecute
       [] Here.type = "DELAY" -> DelayExecute
       [] Here.type = "JUMP" -> JumpExecute
       [] Here.type = "SET_VARIABLE" -> SetVariableExecute
       [] Here.type = "CONDITION" -> ConditionExecute
       [] Here.type = "SWITCH" -> SwitchExecute
       [] Here.type = "HTTP_REQUEST" -> HttpExecute
       [] Here.type = "HANDOVER" -> HandoverExecute
       [] Here.type = "END" -> EndExecute
       [] Here.type = "INPUT" -> InputExecute
       [] Here.type = "OPTIONS" -> OptionsExecute
       [] Here.type = "CUSTOMER_IDENTIFICATION" -> IdentificationExecute
       [] Here.type = "REVIEW" -> ReviewExecute
  /\ UNCHANGED <<redo, bounds>>

ProcessInput ==
  /\ pc = "input"
  /\ CASE Here.type = "TEXT" -> TextInput
       [] Here.type = "INPUT" -> InputInput
       [] Here.type = "OPTIONS" -> OptionsInput
       [] Here.type = "CUSTOMER_IDENTIFICATION" -> IdentificationInput
       [] Here.type = "REVIEW" -> ReviewInput
       [] Here.type \in DeafTypes -> DeafInput
  /\ UNCHANGED <<redo, bounds>>

-----------------------------------------------------------------------------
\* Interference

\* A call throws, which is logged, or the process dies and the message is
\* delivered again.
Stop ==
  /\ interrupts < MaxInterrupts
  /\ interrupts' = interrupts + 1
  /\ \/ pc' = "release" /\ UNCHANGED <<work, redo, seen>>
     \/ /\ pc' = "idle" /\ msg' = NoInput /\ at' = NoStep /\ count' = 0
        /\ redo' = msg
        /\ said' = FALSE /\ from' = NoStep /\ fixing' = ""
        /\ UNCHANGED <<def, screen>>
  /\ UNCHANGED <<expiries, changes, world>>

Interrupt ==
  /\ pc \in {"dispatch", "input", "enter", "exec"}
  /\ Stop
  /\ UNCHANGED session

\* ... while a step is being entered: the history, and perhaps the step, are
\* written already.
InterruptEntering ==
  /\ pc = "enter" /\ count < MaxSteps /\ at \in DOMAIN def.steps
  /\ Stop
  /\ history' = Listed
  /\ step' \in {step, at}
  /\ UNCHANGED <<journey, meta>>

\* Keys of a conversation at rest live for 24 hours from their last write;
\* entering a step writes history, step and journey in this order.
Expire ==
  /\ pc = "idle"
  /\ expiries < MaxExpiries
  /\ expiries' = expiries + 1
  /\ \/ /\ history # <<>>
        /\ history' = <<>> /\ UNCHANGED <<step, journey, meta>>
     \/ /\ history = <<>> /\ step # NoStep
        /\ step' = NoStep /\ UNCHANGED <<history, journey, meta>>
     \/ /\ history = <<>> /\ step = NoStep /\ journey # <<>>
        /\ journey' = <<>> /\ UNCHANGED <<step, history, meta>>
     \/ /\ meta # NoMetadata(StepIds)
        /\ meta' = NoMetadata(StepIds) /\ UNCHANGED <<step, history, journey>>
  /\ UNCHANGED <<world, pc, work, redo, interrupts, changes, seen>>

\* The block of an END step is over.
Unblock ==
  /\ user.blocked
  /\ user' = [user EXCEPT !.blocked = FALSE]
  /\ UNCHANGED <<session, ticket, flow, active, pc, work, redo, bounds, seen>>

Change ==
  /\ changes < MaxChanges
  /\ changes' = changes + 1
  /\ UNCHANGED <<pc, work, redo, interrupts, expiries, seen>>

\* POST /users/:id/reset takes no lock, and does nothing for a contact whose
\* row names no instance.
ResetFlow ==
  /\ Change
  /\ IF user.home
     THEN step' = NoStep /\ meta' = NoMetadata(StepIds) /\ history' = <<>> /\ UNCHANGED journey
     ELSE UNCHANGED session
  /\ UNCHANGED world

\* Publishing clears every session of the instances that have the flow.
Publish(f) ==
  /\ Change
  /\ flow' = f
  /\ step' = NoStep /\ meta' = NoMetadata(StepIds) /\ history' = <<>> /\ journey' = <<>>
  /\ UNCHANGED <<user, ticket, active>>

\* Another flow is attached to the instance; the sessions stay.
Attach(f) ==
  /\ Change
  /\ f # flow /\ flow' = f
  /\ UNCHANGED <<session, user, ticket, active>>

ToggleActive ==
  /\ Change
  /\ active' = ~active
  /\ UNCHANGED <<session, user, ticket, flow>>

-----------------------------------------------------------------------------
Work ==
  \/ Passive \/ Blocked \/ GoBack \/ Start \/ StartOver \/ Answer
  \/ ProcessInput \/ StopLoop \/ EnterNowhere \/ EnterStep \/ Execute
  \/ Release

Interfere ==
  \/ Interrupt \/ InterruptEntering \/ Expire \/ Unblock
  \/ ResetFlow \/ ToggleActive \/ \E f \in Flows : Publish(f) \/ Attach(f)

Next ==
  \/ \E m \in Inputs \cup ({redo} \ {NoInput}) : Receive(m)
  \/ Work
  \/ Interfere

Spec == Init /\ [][Next]_vars

\* Node keeps running the handler of a message it has started.
FairSpec == Spec /\ WF_vars(Work)

-----------------------------------------------------------------------------
Records(Steps) == [kind : {"entry", "interaction"}, step : Steps]

TypeOK ==
  /\ step \in StepIds \cup {NoStep}
  /\ history \in Seq(StepIds) /\ Len(history) <= HistoryCap
  /\ journey \in Seq(Records(StepIds)) /\ Len(journey) <= JourneyCap
  /\ meta \in Metadata(StepIds)
  /\ user.blocked \in BOOLEAN /\ user.home \in BOOLEAN /\ user.protocol \in Nat
  /\ flow \in Flows /\ def \in Flows /\ active \in BOOLEAN
  /\ pc \in Phases
  /\ msg \in Inputs \cup {NoInput} /\ redo \in Inputs \cup {NoInput}
  /\ pc \in {"input", "exec"} => at \in DOMAIN def.steps
  /\ count \in 0 .. MaxSteps
  /\ interrupts \in 0 .. MaxInterrupts
  /\ expiries \in 0 .. MaxExpiries
  /\ changes \in 0 .. MaxChanges

-----------------------------------------------------------------------------
\* No exception, death, expired key or administrator so far.
Undisturbed == interrupts = 0 /\ expiries = 0 /\ changes = 0

RestingAt(types) == step \in DOMAIN def.steps /\ def.steps[step].type \in types

\* A step that has, or may have, a way on that is empty: nextStepId is optional,
\* and nothing checks a flow that is published.  Options out of a variable are
\* known only when they are shown.
LeadsNowhere(s) ==
  \/ /\ s.type \in {"TEXT", "MEDIA", "DELAY", "SET_VARIABLE", "INPUT", "CUSTOMER_IDENTIFICATION", "REVIEW"}
     /\ s.next = NoStep
  \/ s.type = "JUMP" /\ s.target = NoStep
  \/ s.type = "CONDITION" /\ NoStep \in {s.trueStep, s.falseStep}
  \/ /\ s.type = "SWITCH"
     /\ s.default = NoStep \/ \E i \in DOMAIN s.branches : s.branches[i].target = NoStep
  \/ /\ s.type = "OPTIONS"
     /\ s.dynamic # "" \/ \E i \in DOMAIN s.options : s.options[i].target = NoStep

WaitsIn(f, id) ==
  /\ id \in DOMAIN f.steps
  /\ f.steps[id].type \in PromptTypes \cup {"HANDOVER", "END"} \/ LeadsNowhere(f.steps[id])

\* The flows the conversation can have come to rest in.
Held == IF changes = 0 THEN {def} ELSE Flows

\* However long the chain of automatic steps was, and whatever administrators
\* did meanwhile, it does not leave the conversation at a step that waits for
\* nothing: the customer's next message would be swallowed there
\* (executeStepChain, flow.service.ts:234-289).
RestsAtPrompt ==
  pc = "release" /\ interrupts = 0 => step = NoStep \/ \E f \in Held : WaitsIn(f, step)

\* The top of the history is the question the customer is looking at, so that
\* "back" pops the question first and the step before it next
\* (flow.service.ts:154-158, 259-268).
HistoryTop ==
  pc = "release" /\ Undisturbed /\ RestingAt(PromptTypes) => PeekHistory(history) = step

\* A customer who goes back from a step that offers it does not find himself
\* at the same step again ("Digite *0* para voltar").
BackMovesOn ==
  pc = "release" /\ Undisturbed /\ Lower(msg) \in {"0", "voltar"}
    /\ from \in DOMAIN def.steps /\ def.steps[from].allowBack
    => step # from

\* A message that leaves the conversation at a question has been answered:
\* the customer is never left in front of a question without a reaction, but
\* by a question that leads nowhere, and by "9. Voltar ao Resumo" at a review
\* that skips itself (review.handler.ts:123).
NeverSilent ==
  pc = "release" /\ Undisturbed /\ active /\ RestingAt(PromptTypes) =>
    \/ said
    \/ LeadsNowhere(def.steps[step])
    \/ msg = "9" /\ def.steps[step].type = "REVIEW" /\ def.steps[step].skip

\* While the block of a TIMEOUT end lasts, the customer is sent nothing
\* (flow.service.ts:132-142).
BlockedStaysQuiet ==
  [][~said /\ said' /\ expiries = 0 /\ changes = 0 => ~user.blocked]_vars

\* A customer who was shown the summary of a review gets past it by "1. Confirmar
\* e Continuar" only (review.handler.ts:55-56), or by going back.
SummaryConfirmed ==
  [][EnterStep /\ changes = 0 /\ screen = [kind |-> "summary", about |-> from] /\ at # from
       => Lower(msg) \in {"1", "0", "voltar"}]_vars

\* An answer is stored in the field the customer was asked for last, if the
\* identification leads on when it is over.
AnswerGoesToAskedField ==
  [][pc = "input" /\ Here.type = "CUSTOMER_IDENTIFICATION" /\ ~LeadsNowhere(Here)
       /\ Undisturbed /\ user' # user
       => screen = [kind |-> "ask", about |-> Field.variable]]_vars

\* When an identification ends, every field of it has a value.
IdentificationComplete ==
  [][pc = "input" /\ Here.type = "CUSTOMER_IDENTIFICATION" /\ pc' = "enter" /\ at' # at
       /\ Undisturbed
       => Filled(user', Vars(Here.fields))]_vars

\* A customer who picks a field to correct is asked for that field at once
\* ("Vamos corrigir seu ...", review.handler.ts:170).
CorrectionAsks ==
  pc = "release" /\ Undisturbed /\ fixing # "" => screen = [kind |-> "ask", about |-> fixing]

\* Unless the journey is full, the ticket tells the conversation up to the END
\* step that filed it ("Snapshot completo", schema.prisma:100).  A full journey
\* has lost its newest events, and a contact whose row names another instance
\* gets a ticket without any.
TicketTellsEnd ==
  ticket # NoTicket /\ changes = 0 /\ user.home /\ Len(ticket.journey) < JourneyCap =>
    \E i \in DOMAIN ticket.journey :
      /\ ticket.journey[i].kind = "entry"
      /\ ticket.journey[i].step \in DOMAIN def.steps
      /\ def.steps[ticket.journey[i].step].type = "END"

\* The protocol number of a ticket is the one the customer is told ever after:
\* {{sys.protocol}} in a text, and requests to a service, name it too
\* (variable.service.ts:117-127, http-request.handler.ts:161-164).  A ticket
\* filed before any request has a number of its own.
ProtocolKept ==
  ticket # NoTicket => ticket.protocol \in {0, user.protocol}

\* How many steps of work a message in this phase is away from its end, at most.
StepsFrom(phase, entered) ==
  CASE phase = "idle" -> 0
    [] phase = "release" -> 1
    [] phase = "enter" -> 2 * (MaxSteps - entered) + 2
    [] phase = "exec" -> 2 * (MaxSteps - entered) + 3
    [] phase = "input" -> 2 * MaxSteps + 3
    [] phase = "dispatch" -> 2 * MaxSteps + 4

StepsLeft == StepsFrom(pc, count)

\* All work brings a message nearer to its end, and nobody who interferes puts
\* it off: a flow that goes round in circles, an invalid answer that is asked
\* for again and a flow published meanwhile do not hold the conversation's lock
\* for longer than the steps that are allowed (MAX_STEPS_PER_MESSAGE, flow.service.ts:14, 235-248).
WorkRunsDown ==
  [][pc # "idle" => StepsLeft' <= StepsLeft /\ (Work => StepsLeft' < StepsLeft)]_vars

\* Every message is done with some day, also in a flow that goes round in
\* circles (MAX_STEPS_PER_MESSAGE).
Released == pc # "idle" ~> pc = "idle"
=============================================================================
