# Verification of trackbot-backend

TLA+ specifications of the WhatsApp bot backend in `src/`, the TLC runs that check
them, and TLAPS proofs about them. Paths below are relative to the repository's `src/src`
directory (`bot/flow/flow.service.ts` is `src/src/bot/flow/flow.service.ts`).

    tlc -config MCMessageLock_safe.cfg MCMessageLock.tla     # one run
    tlapm MessageLockProofs.tla                              # the proofs

`PROJECT.json` lists the runs, the mutants that show each property can fail, the source
lines of each definition, the hazards, the findings and the theorems.

## 1. The system

A customer writes on WhatsApp; a provider (Baileys socket or Meta webhook) hands the
message to `SessionManagerService`, which queues it in BullMQ's `incoming_messages`. A
worker takes it and calls `FlowService.processMessage`, which moves the contact's
conversation through the flow published for the instance and queues what is to be
sent in `outgoing_messages`. Administrators edit flows, contacts and instances over HTTP
meanwhile. Several replicas of the backend may share the Redis and the database.

| Component | State | Operations | Hard behaviour | Correct when |
|---|---|---|---|---|
| Inbound queue and lock (`queue/workers/incoming-message.worker.ts`, `flow.service.ts:62-88,225`, `state.service.ts:148-157`) | queue, jobs, `lock:process:<instance>:<phone>` with a 30 s TTL and no owner | receive, take, poll the lock up to 10 times, give up, work, release | replicas, deaths, redelivery, TTL against duration, overtaking | one message of a conversation at a time; every job ends; drops only behind somebody working |
| Flow engine (`flow.service.ts:90-296`) | step, history, journey, metadata in Redis; the contact's row | dispatch, back, start, answer, enter and execute a chain of steps | chains of up to 20 steps, interference without the lock, exceptions, deaths between two writes | rests at a question or an end; back goes where the customer came from; no silence |
| Step handlers (`bot/flow/handlers/`) | keys of the metadata hash shared by identification and review; retry counters | `executeStep`, `processInput` of 14 kinds | two handlers and several steps sharing flags | answers go to the field asked; a review is passed by confirmation |
| Session state (`state.service.ts`) | the Redis keys, 24 h each | push, pop, trim, clear, scan | caps, keys that expire separately | bounds hold |
| Variables, contact data (`variable.service.ts`) | `User.name`, `User.metadata` | resolve, get | one value under several keys | what is written is what is read |
| Tickets (`ticket.service.ts`) | `Ticket` rows | create from the journey | capped journey; instance of the contact's row | the ticket tells the conversation |
| Field validation (`services/field-validator.service.ts`) | none | validate, format | two CPF implementations | they agree |
| Contact administration (`api/user`) | `User` | create, edit, delete, reset | no lock; whole-column writes of a snapshot | edits and answers both survive |
| Flow administration (`api/flow`) | draft, published content, in-memory cache | publish, attach, toggle | cache filled from a read before the publish; other replicas | conversations follow what is published |
| Instance lifecycle (`whatsapp/`) | sockets, providers, timers, `status` column | start, stop, delete, reconnect | timers after stop, duplicate sockets, unordered and failing status writes, restart | one socket per started instance |
| Outgoing delivery (`queue/workers/outgoing-message.worker.ts`) | `outgoing_messages` | send after a delay | five at once, missing retries | order and delivery |
| Auth, gateway, metrics, history rows, app shell | none of interest | | | not modelled |

Interaction: calls from the worker into the engine, the engine into handlers and services;
shared state in Redis and the database between replicas and administrators; messages
through the two queues; callbacks from the providers.

## 2. Modules

| Module | What it is |
|---|---|
| `SerialSessions` | abstract: messages are begun, answered or refused, settled; one at a time per conversation |
| `MessageLock` | the queue, the replicas, the lock, deaths and BullMQ's redelivery |
| `MessageLockProofs` | the theorems about `MessageLock` |
| `MCMessageLock` | its instances for TLC |
| `SessionStore` | the values StateService keeps, as operators |
| `Contacts` | the contact's row and the rules by which handlers read and write it |
| `FlowState` | constants, variables and idioms of the engine |
| `StepHandlers` | `executeStep` (`...Execute`) and `processInput` (`...Input`) of every kind of step |
| `FlowEngine` | `processMessage` and `executeStepChain`, interference, properties |
| `AuthoredFlows` | kinds of flows, as an author draws them: the hypotheses of the theorems about reviews, "back" and identifications |
| `MCFlowEngine` | small flows and the conversion of a few texts |
| `MCFlowTalk` | the same for `engine_talk`, with the check that its flows are of those kinds |
| `FlowPublishing` | drafts, published content, the replicas' flow caches, publications and their session scans, beside messages |
| `FlowPublishingProofs` | the theorems about it |
| `InstanceLifecycle` | administrators' requests, sockets, reconnect timers, status writes, the start of the process |
| `ContactRow` | one contact's row, its creation and its whole-column writes by messages and administrators |
| `FieldValidation` | the validations of INPUT and of CUSTOMER_IDENTIFICATION, as operators |
| `FieldAnswers` | the field of an INPUT step and the answers it gets |
| `FieldValidationProofs` | the theorems about both |
| `ContactRowProofs`, `InstanceLifecycleProofs`, `FlowEngineProofs` | the theorems about these |
| `FlowReviewProofs` | the theorems about reviews and the history, on top of `FlowEngineProofs` |
| `AuthoredFlowProofs` | the theorems about "back" and about complete identifications, on top of `FlowReviewProofs` |
| `MCFlowPublishing`, `MCInstanceLifecycle`, `MCContactRow`, `MCFieldAnswers` | their instances for TLC |

### MessageLock

A worker is one replica: the incoming worker has BullMQ's default concurrency of 1.
`queue`, `status`, `stalls` are BullMQ's; `job`, `phase`, `attempts` are the local
state of the replica's `process` call; `lock` is the Redis key. The code stores no owner;
the model records who set the key for the properties only, no guard reads it. `Finish`
therefore deletes the key whoever set it, as `releaseLock` does. `Crash` loses the replica
and leaves lock and job behind; `Requeue` and `Fail` are BullMQ's stalled check (once, then failed).
`SlowProcessing` says whether a message may take longer than the 30 s TTL. With FALSE,
`Expire` takes only a key nobody is working under; TRUE is what a long HTTP or DELAY step does.

Left out: errors of Redis in `acquireLock` itself (the job fails; nothing was done).

### FlowEngine

One conversation, one message at a time: `MessageLock` shows that this is so. `pc` is where
`processMessage` is: `dispatch` (before the step is known), `input` (`processInput`
next), `enter` (top of the loop in `executeStepChain`), `exec` (`executeStep` next), `release`
(the finally block). Entering a step (history, step key, journey) and running its handler are two
steps, because that is where an exception or a death parks the conversation; `InterruptEntering` cuts
the entering itself short. One handler call is one step. `user` is read live where the code
holds the row it read at the start: in this module only handlers write the fields they read.
What other actors write to the row meanwhile is in `ContactRow`.

`Dispatching` and the actions after it follow the returns of `processMessage` in order: passive mode,
blocked END, back, no step, unknown step, `processInput`. An END step that is not blocked is cleared and
the conversation starts over (`Standing`). `HistoryLeft` keeps the fact that the two pops of "back"
have happened even if there is nothing to go back to.

A flow is what `FlowDefinition` allows, not what the editor's author would draw: `WellFormed` asks only that the parts a type declares are there. In particular `nextStepId` is
optional in most types and nothing validates a flow when it is published, so a step may lead nowhere (`LeadsNowhere`). There the chain ends without a word; `RestsAtPrompt`, `NeverSilent` and
`AnswerGoesToAskedField` except those steps by name, and `NeverSilent` also the "9" at a review that skips (`review.handler.ts:119-123`).

`screen`, `said`, `from` and `fixing` are history variables: the last thing queued for the customer, whether
anything was queued for this message, the step the message found, the variable chosen for
correction. No guard reads them.

Abstractions, all constant operators bound in `MCFlowEngine`: trimming and case (`Lower`), `Number`,
`parseInt`, `includes`, `/\D/g`, objects as option lists. The two validators are those of `FieldValidation`, on what `MCTextSeen` says their
expressions see of the few texts customers type in the instances. Left out: message texts,
delays, `sys.last_http_*` and `responseMapping` (variables like any other), dotted variable paths. The protocol number
(`variable.service.ts:117-127`) is 0 until an HTTP step stores one (`WithProtocol`); a naming before that draws its own. `EndHandler.processInput` is dead code, because `processMessage` clears an END first.
`HandoverExecute` writes nothing: `HandoverHandler` updates a column `status` the `User` table does
not have (`prisma/schema.prisma:13-28`), so Prisma throws before the journey entry is
written, and the chain ends at the HANDOVER step.

### FlowPublishing

The content of a flow is a version number: `Update` draws a new one for a draft, `Publish` makes the version that `ReadDraft` read the
published one. `api/flow/flow.service.ts:71-100` is four steps (`ReadDraft`, `Publish`, `Invalidate`, the scan), because each is an `await`: other
requests, other publications and messages fall between them. The scan (`state.service.ts:135-146`) deletes in rounds; `left` is what was
there when it began, which SCAN must return, and keys written later it may return or miss (`ScanBatch`). With two instances on one flow the
second is scanned after the first. `fetchFlowDefinition` is `FromCache`, or `FromDatabase` and `Store`, with the publication's
`flows.delete` possibly in between. A message writes its session keys (`Enter`) as often as its chain has steps; the lock of the conversation is the guard
of `Begin`. A replica restarts with an empty cache; a scan fails when Redis does, after the row was updated.

`behind` and `strays` are history variables, read by no guard. They hold the exceptions of the two properties, and each is entered at the one place that
causes it: `behind` when a publication finds another replica holding the flow in its cache, or a message between read and store; `strays` when a message
writes keys on outdated content, when an instance changes its flow (no session is cleared then), or when a publication breaks off. They are left again as
soon as the cause is gone, for instance when the keys are cleared or the next publication of that replica drops the cache. The properties therefore say that these are
*all* the ways to miss a publication.

### InstanceLifecycle

One process. A request is a record in `call` that goes through `stopSession`, `startSession` and the deletion of the row as the controller calls them; a Baileys
`disconnect` is `StopBaileys`, `Logout`, the awaited status write, `RemoveKeys`. `connect` has two awaits before it makes a socket: `opening` counts the
calls that wait there, `Connect` is the rest, which replaces the entry of the map (`current`) without closing the socket it held. `Progress`, `CloseLoggedOut` and
`CloseOther` are what WhatsApp does to a socket and what `connection.update` makes of it. The status writes of that callback are not awaited: they lie in
`writes`, and `Write` takes any of them, or `Fail` does: `updateInstanceDbStatus` catches and logs whatever goes wrong (no row, another instance with the unique `phone` that is written with
CONNECTED, the database away), so any update may fail at any time and the socket stays as it is. A reconnect timer is a number per instance; nothing cancels it. `Restart` loses the process; `Boot` starts
what `onModuleInit` found in another status than DISCONNECTED. All Meta instances share one provider object and so one callback (`SameProvider`, `heard`).

All Meta starts may end without the write: no row, no credentials in it, or an update that fails (`MetaConnected`).

`wanted`, `untold`, `revived`, `meddled` and `forgotten` are history variables of the Baileys instances, read by no guard but the bound in `Bound`. `wanted` holds those that an administrator has started and that neither
an administrator nor the phone has ended since; a restart leaves it alone. `untold` marks an instance whose newest status failed or landed before an older one, until the next status is
issued. `revived` marks an instance that nobody wants and a restart brings back all the same, and only for one of the reasons in `Revived`: the row says something else than DISCONNECTED because the instance is `untold`, a
write was on its way when the process went, one of the races had happened, or it was `revived` before. `meddled` marks an instance when one of three races happens to a stop: another request for the
same instance is under way; a reconnect is waiting or opening, which is not in the map; `logout` fails softly and leaves the socket alive, or the socket
had closed by itself. Left out: the phone numbers themselves, the content of the stored keys,
and the translation of messages (`sendMessage`, the parsing of sockets' and webhooks' messages), which keeps no state.

### ContactRow

The conversation lock is per instance and phone, the `User` row per phone: messages of one phone at two instances run side by side, and administrators take no lock. A message reads
the row (`Find`), or creates it, records itself (`KeepMessage`, which needs the row) and then has its handlers write: the name is a column of its own, anything else
rewrites the whole metadata column from the copy (`Updated`, `Written`). `Save` also refreshes the copy, as the handlers do with `ctx.user`; `EndStep`
does not. `updateUser`, `deleteUser` and `resetFlow` read the row and write later. Values are numbered by the write they come from, so a value written back is told from a new one.

`deleteUser` clears the step, the metadata hash and the history in three calls (`user.controller.ts:88-92`); `session` stands for the step key alone, so `ForgetSession` is one action: no property
of this module tells the keys apart.

`stale`, `raced` and `leftover` are history variables: what somebody else wrote since an actor read; whether the row was created or deleted during its work; at which instances a deletion
need not have caught the step key (not the row's own instance, or a message at work there).

### FieldValidation and FieldAnswers

Every type of `FieldValidatorService` and of the identification handler's own `validateField`. A text is the record of what the regular expressions see of it: digits,
characters by kind, whether it is an e-mail, the number, date or time it reads as (`Readable` says which records a text can be, and is the assumption `TypedAssumption`). JavaScript's `Date`, which carries day and month over, is `JsDate` (external). That module has no
variables and is used by `MCFlowEngine` too. `FieldAnswers` is the field of one INPUT step at a time: the question is asked (`Ask`), the customer types (`Answer`), the service
judges, and the value it made is stored (`Accept`) or the question asked again (`Reject`, `input.handler.ts`); after either another question may follow. `stored` is a set of at most
one value, as `ValidateAndFormat` returns. Retries are counted in `StepHandlers`, so here any number of answers may be refused.

## 3. Runs

| Run | Instance | Shows |
|---|---|---|
| `lock_safe` | 2 replicas, 2 conversations, 5 messages, 2 polls, 2 deaths | types, `LockGuardsWork`, `OneHome`, `MutualExclusion`, `DropOnlyBehindLiveHolder` (while nobody has died), and that the lock implements `SerialSessions` |
| `lock_live` | the same with 3 messages, two of them of one conversation, and fairness | `EverySettled`, `LockFreed`, with deaths |
| `engine_talk` | two flows: menus with back, an input with 2 retries, a jump, a missing step, a circle of TEXT and JUMP, a timed END with a ticket; and two fields, their review and correction without smart skip; fairness | `HistoryTop`, `BackMovesOn`, `NeverSilent`, `TicketTellsEnd`, `BlockedStaysQuiet`, `Released`, `SummaryConfirmed`, `AnswerGoesToAskedField`, `IdentificationComplete`, `CorrectionAsks` |
| `answers` | numbers with every pair of check digits, texts on both sides of every bound, every expected type | `CpfChecksAgree`, `StoredIsNormal`, `AcceptedDatesExist` |
| `engine_world` | every automatic kind of step and dynamic options, two flows that share step ids; 1 interruption, 1 expiry, 1 intervention of an administrator, at any moment | `TypeOK`, `RestsAtPrompt`, `ProtocolKept`, `WorkRunsDown` |
| `publish` | 2 replicas, 2 flows, 2 instances, both on one flow at the start, 2 conversations of one of them, 1 publication at a time, 2 drafts, 1 operation and 1 failure more | `TypeOK`, `OnlyPublished`, `CacheFollowsPublication`, `SessionFollowsPublication` |
| `instances` | 1 Baileys and 2 Meta instances, 2 requests at a time, 3 in all, 2 sockets, 1 restart; fairness | `TypeOK`, `OneConnection`, `StaysStopped`, `StatusIsTrue`, `ConnectedIsHeard`, `ComesBack` |
| `contacts` | 2 instances of one phone, 2 metadata keys and the name, 2 administrators, 3 messages, 2 requests, 2 writes | `TypeOK`, `CopyIsRow`, `DroppedOnlyIfRaced`, `StartsAfresh`, `LostOnlyToOverlap` |

Bounds. Two replicas are the fewest that race and three messages of one conversation the fewest in which one
holds, one polls and one waits in the queue; in `lock_safe` the
fourth belongs to another conversation and the fifth is a photo without text. Two polls exercise "found taken, then free" and "found taken until giving up" (10 in the code). Two
deaths are needed for a job to fail. `FlowEngine` has one conversation, because conversations share nothing the properties are about. The
caps, 10 for the history and 50 for the journey in the code, are 3 and 6 in `engine_talk`, 2 and 1 in
`engine_world`: each is reached, and in `engine_talk` the shortest way to a ticket takes five events, so that tickets are filed with and without a full journey. The step limit (20) is 6 where a circle reaches it, and 12, above the
longest chain, in `engine_world`. Retry counters grow without bound in a step without `maxRetries`, so the instances
set one. In `publish` one flow is shared by both instances (the scan's second round) and the other exists only after a copy or
a creation; two drafts make an old and a new version. Two publications at a time, and three conversations, do not fit into the run; the theorems cover them.
In `instances` the stop that meets another request needs two requests at a time, and creating, stopping and
connecting an instance again three in all; the second Meta instance is there because both share one callback. `MaxWrites` bounds the writes of callbacks on their way to two, so
that they may overtake each other, and the two of a `disconnect` come on top. After one of the races the properties are silent until a restart, and one unawaited write less is enough (`Bound`);
a request that meets another one on the same instance comes when there is room for two writes more (`Room`). Writes fail as often as they like.
Of several instances of a provider that do not exist yet, unused sockets or idle requests, an action takes the one CHOOSE yields: they are interchangeable. In `contacts` two writes are the fewest of which one can be lost; with three nothing else appeared.
`CHECK_DEADLOCK FALSE` is for `MessageLock`, which stops when every message is settled, and for the three runs above, which stop when their
counters are used up.

Fairness. `MessageLock`: each replica goes on with its job, BullMQ goes on looking for stalled jobs, Redis expires keys;
nobody has to write or die. `FlowEngine`: Node goes on with a message it has started (`WF_vars(Work)`).
`InstanceLifecycle`: Node carries requests and the start through, timers fire, `connect` gets its keys and version, writes are answered, well or with a failure; nothing is assumed of WhatsApp, of administrators
or of restarts. So `ComesBack` promises a socket, not a session: whether it opens is WhatsApp's.

Runs that are expected to be violated, one per finding:

| Run | What the trace shows |
|---|---|
| `lock_slow` | message slower than the TTL: a second worker enters, the first one's release deletes the second's lock |
| `engine_first_back` | "0. Voltar" at the first step is answered "invalid"; `hasHistory` is always true because the step itself was just pushed |
| `review_any_text` | any text confirms a summary under smart skip, because showing it spent `force_review_once` |
| `two_identifications` | the field index outlives the identification left by "back" and starts the next one in the middle |

`engine_talk` is checked in `MCFlowTalk`, whose `ASSUME`s have TLC evaluate the hypotheses of section 4 on its flows.

The passing runs are the same properties where these causes are absent: work shorter than the TTL, a first step without "back", no
smart skip, one identification. They show that nothing else breaks them.

### Seen while modelling, without a run of its own

The model contains each of these; the instances of the passing runs avoid them, or the property names the exception.

- A reconnect timer survives stop and delete: five seconds later a socket of a stopped or deleted instance is opened, shows a QR code and, while the row
  exists, writes its status (`meddled`). `logout` on a socket that does not answer leaves it alive with its listeners but out of the map.
- `connect` on an instance that is just reconnecting ends with two sockets of one account; the map knows the later one.
- A status update that fails, CONNECTED for instance because of the phone, or one that lands after a newer one leaves the column wrong until the next status, and a restart goes by the column: an instance
  stopped by the administrator is connected again (`untold`, `revived`).
- A restart within five seconds of a disconnection finds DISCONNECTED and forgets the instance for good (`forgotten`).
- A replica other than the publishing one keeps the old flow in its cache until it restarts, and so does the publishing one if a message held the old row over
  the publication (`behind`). Conversations on them write old steps after the scan (`strays`).
- A PATCH of a contact and an answer of the customer undo each other's keys when they overlap (`stale`); so do two conversations of one phone at two instances.
- A protocol number told before the first HTTP step is drawn anew at the next naming: the ticket and the body of that very request (drawn once for the body, once more
  to be stored) carry others. A stored one is kept for good, so all later tickets of the contact share it.
- Deleting a contact clears the conversation at the instance of its row only; another instance's step meets the next contact of that phone (`leftover`), and deleting an instance
  sets that column to null (`prisma/schema.prisma:26`).

- The lock of a dead replica lives 30 s and its successors poll 5 s, so messages are dropped behind nobody
  (`DropOnlyBehindLiveHolder` says "while nobody has died"). With two replicas a later message may overtake an earlier one.
- TEXT and MEDIA are put into the history: going back from the question after a TEXT re-enters the TEXT, which chains to
  the same question.
- "9. Voltar ao Resumo" with smart skip sends nothing, because the return value of `executeStep` is ignored.
- A step whose `nextStepId` is missing leaves the conversation there: the answer is stored, nothing is sent, and the next message is given to the same step again.
- "back" at the first step, or when LTRIM has dropped the predecessors, empties the history; the "0" is then taken for an answer, and no later "back" works until a step is entered again (`TopHolds`).
- A field `wpp_name` is saved as the name and cleared as metadata: "Vamos corrigir" and no question follows.
- A full journey keeps its oldest events, so the ticket lacks the end; a contact whose row names another
  instance gets a ticket without a journey (both excepted by `TicketTellsEnd`).
- "sua sessão foi reiniciada" keeps history and metadata.
- An interrupted chain parks the conversation at a deaf step for 24 h; a redelivered answer is stored in the next field; an
  attached flow inherits steps and indexes; an option whose target is empty is answered with silence.

## 4. Proofs

`MessageLockProofs`, for any sets of replicas and conversations, any number of messages, polls and deaths, from
`LockAssumption` (the kinds of the constants; at least one poll):

- `TypeCorrect`: `Spec => []TypeOK`. Inductive as it stands.
- `LockGuardsWorkHolds` and `MutualExclusionHolds`, assuming `~SlowProcessing`. Mutual exclusion alone is not inductive: it says
  nothing of the lock, so a release or an expiry might free a lock somebody works under. The strengthening
  `LockGuardsWork` says who works on a conversation is who set its lock: `Acquire` needs a free
  lock, hence nobody at work; `Finish` deletes the finisher's own; `Expire` with `~SlowProcessing` finds nobody at work;
  `GiveUp` and `Crash` do not touch the lock. Two workers in one conversation would both equal its lock's owner.
- `OneHomeHolds`: `Spec => []OneHome`, without the assumption. A job is in the queue once, or with one worker, or neither.
- `LockImplementsSerial`, assuming `~SlowProcessing`: every step is a step of `SerialSessions` or a stutter. `Stage` reads a message's
  stage off its status and the worker that has it; `OneHome` makes that worker unique (`StageByHomeHolds`), the frame
  lemmas say that no other message moves, and `LockGuardsWork` gives `Begin` its guard.

- `DropHolds`: a message is dropped only behind somebody at work, as long as nobody has died, however slow the work is. `NobodyDied` says that then every lock is kept by somebody at work
  on its conversation (`Occupied`) and whoever polls has been waiting behind somebody (`Witnessed`): an expiry takes a lock away, it never leaves one behind.

The assumption `~SlowProcessing` is needed where it is made: `lock_slow` is the counterexample without it.

`FlowPublishingProofs`, for any sets of replicas, flows, instances and conversations, any number of publications at a time, drafts and failures, from
`PublishingAssumption` (the kinds of the constants):

- `TypeCorrect`: inductive as it stands, with the clauses that whoever works has a conversation and a flow.
- `OnlyPublishedHolds`. `OnlyPublished` says nothing of the rows a cache is filled from; `Frozen` adds that every published content was released. `Publish` releases
  what it publishes, nothing else writes the column, and versions only travel from there to reads, caches and sessions.
- `CacheFollows`. A cache may be filled from a row read earlier, so `Reads` relates every message between read and store to the row: it holds the published version, or its replica is `behind`, or its flow is removed.
  `UnbornUnused` says that nothing refers to a flow before it exists, so that its creation disturbs neither.
- `SessionFollows`. `Pending` says that only publications at work have instances to do and keys left; `InOrder` is the property for one
  conversation. `Publish` makes conversations of the flow out of date and puts their instances into `todo` in the same step; `Invalidate` moves an instance's
  keys from `todo` to `left`; `ScanEnd` needs `left` to be empty.

`FlowEngineProofs`, for any set of published flows, step ids and texts, any caps, and any number of interruptions, expiries and interventions, from `EngineAssumption`. What the
abstractions of texts (`Lower`, `Number`, `Select`, ...) return is left open but for `Lower("1") = "1"`. `ExecuteEffect` and `InputEffect` say once, for all kinds of step, what a handler
may do (`Executed`, `Answered`); lemmas on the lists (`TrimFits`, `PushHistoryFits`, `PopHistoryFits`, `PushJourneyFits`) and on the contact's row (`SetMetaKeeps`, ...) carry them.

- `TypeCorrect`, with the caps of history and journey. `Shape` adds that the row keeps its columns and that an END step is never given a message.
- `ProtocolHolds`, an action property: `WhoWrites` lists who may touch the number.
- `RestsHolds`. `RestsAtPrompt` speaks of `idle` only; `Rested` says the same from the rest through `dispatch` and `input` to the release. It needs `AtWork` (the step worked on is
  the one in Redis unless an administrator cleared it) and `Settled` (the definition worked with is the published one until somebody publishes).
- `TicketHolds`: `Entered` says that the step being run is in the journey, unless the journey is full. `QuietHolds`: `Quiet` says that a blocked contact is at the END that
  blocked him, so that no phase can send. `NeverSilentHolds`: whoever enters the release has said something, or is at one of the exceptions.
- `WorkRunsDownHolds`, an action property of every flow, circles and missing steps included: each step of the work lowers the rank `StepsLeft` (phase and steps entered, at most
  2 * `MaxSteps` + 4) and no interference raises it. With the fairness of `FairSpec` this is why `Released`, which TLC checks, holds: the proof of that last step would be
  about `ENABLED`.
- `AskedHolds`: `AskedLast` says that a conversation resting at an identification was last sent the question for the field the index names.

`FlowReviewProofs` (it extends `FlowEngineProofs`; its hypotheses are in `AuthoredFlows`):

- `ConfirmedHolds`, assuming `ShownReviews` (no review skips): a summary is passed by "1" or "back" only, also under interruptions and expiries. `Summarised` says that a
  summary on the screen is one of a review that is not waiting for a correction; `Found` that the step a message found is fixed at its dispatch; `Unconfirmed` that a message that is neither gets
  no further than that review. `review_any_text` is the counterexample without the hypothesis.
- `CorrectionHolds`, assuming `CorrectableReviews` (each variable shown is a field of the identification that corrects it, and that is not skipped). `Correcting` follows the chosen
  field from the answer to the question: the index points at it when the step is entered, run and left. A review of a variable no step asks for has nothing to ask, hence the hypothesis.
- `TopHolds`: in every flow the top of the history is the question the customer is at, or the history is empty.

`AuthoredFlowProofs` (it extends `FlowReviewProofs`), for undisturbed conversations in any flow of the kind each theorem names. Nothing in the code
makes a published flow one of these, so they are hypotheses and not assumptions on the constants; what happens in other flows is in section 3.

- `HistoryTopHolds`, assuming `BackEnds`: only questions offer "back", the first step does not, and those that do can be given a depth that grows along the steps and stays below the cap of the history. The
  property needs a history that does not run empty. `Remembered` says what is in it; `Ended` that somewhere in it lies a step that does not offer "back", no
  deeper than the step on top is, so that as many "back" as the customer can write end there, and LTRIM has not dropped it; `Backed` relates this to the step the
  conversation is at or about to enter (`Stands`, `Comes`). Circles are allowed where they pass a step without "back".
- `BackMovesOnHolds`, assuming also `BackToQuestions`: what comes to lie behind a step that offers "back" waits for the customer. `Linked` says of the history
  that neighbours differ and that the one behind such a step waits; `Laid` carries it through the chain, where steps that wait for nothing are passed (`Passing`). `IndexFits` is needed because an identification
  waits only if the index has a field. `GoneBack` is the property from the dispatch of the "0" to the release: one step is entered, it is another one, and it waits.
- `IdentificationCompleteHolds`, assuming `GuidedIdentifications`: one identification, which is not skipped and not left by "back"; fields that are the name or keep their own key; nothing else writes them; accepted answers that no reader takes for empty; reviews
  behind it that send the customer there. A correction empties the field first (`review.handler.ts:149,179-191`), so "every field is filled" is not inductive.
  `Guarded` says what holds instead: while a field is being corrected (`Mending`) the conversation is kept at the identification, and all other fields are filled; otherwise (`Filling`) those before
  the index are, and all of them as soon as the conversation, or a step in the history, is behind the identification. `Columns` and `Given` are the row's keys and the origin of the message.

`InstanceLifecycleProofs`, for any numbers of instances, sockets, requests at a time and restarts, from `LifecycleAssumption`:

- `TypeCorrect` from `Shape`: `CallsFit` (a request is in a phase its operation has), `SocketsFit`, `WritesFit` (a request awaits one write, of its instance).
- `HeardHolds`: inductive with `Shape`. Also over a restart, because whatever row says CONNECTED is started.
- `OneConnectionHolds`, `StaysStoppedHolds`, `StatusHolds`, from one invariant, `AllSound`. `Sound` says of an instance outside `meddled`: its live socket is the entry of the map; timer, opening and
  socket exclude each other; there is one request, and nothing is left once it is past the logout; a connection means that the instance is `wanted` or `revived` (`Single`); and, outside `untold`, the last
  write issued is the status the column is going to have (`Told`): an answer to an older write keeps it, one to the newest makes the instance `untold` unless it lands last and well (`AnswerSound`). The parts need each other: `disconnect` closes what the map names, so
  it empties the instance only if nothing else lives; a restart boots what the column says, so that whatever it boots is wanted or `Revived` needs both `Told` and the last part of `Single` (`RestartSound`).

`ContactRowProofs`, for any numbers of instances, administrators, fields, messages and writes, from `ContactAssumption`:

- `TypeCorrect`: inductive as it stands.
- `CopyIsRowHolds`: `Copies` adds that ids only grow (`IdsGrow`: a copy of a deleted row is never a copy of the next one) and the same of requests (`RequestCopyIsRow`).
- `OverlapHolds` (`LostOnlyToOverlap`, an action property) adds `ValuesGrow`: a value in a copy is one written before, so a new value is not mistaken for an old one.
- `DroppedHolds` from `Races`: a message is in `raced` as soon as its row has gone or come, before it notices.
- `AfreshHolds` from `Forgotten`: a message whose contact has gone is in `leftover`; and from the moment `deleteUser` clears the session until it deletes the row, no other instance
  has a session or a message.

`FieldValidationProofs`, for any documents and any texts, from `DocumentsAssumption` and `TypedAssumption`. Each theorem is `Spec => []...` of `FieldAnswers` and rests on the invariant
`Judged`: whatever lies in `typed` is an answer somebody can give, and what is stored is what the service made of it.

- `CpfChecksAgreeHolds`. The lemma `SameCheckDigit` is the arithmetic: `(sum * 10) % 11` and `11 - sum % 11`, each with its special cases made 0, are the same digit.
- `AcceptedDatesExistHolds`, for any day and month of two digits and any year: what `validateDate` lets through is a day of the calendar. `Date` carries 31 April over to 1 May, which
  differs from what was written.
- `StoredIsNormalHolds`, for every expected type and text: what was stored is accepted again and left as it is.

The assumptions on the constants say what kind of thing a constant is; the hypotheses of `FlowReviewProofs` and `AuthoredFlowProofs` are about the flows authors publish. Those of `engine_talk` meet all of them: `MCFlowTalk` has TLC check that, with a depth for each step.
TLC checked each inductive invariant on the runs' instances before it was proved.

Model-checked only: liveness (`EverySettled`, `LockFreed`, `Released`, `ComesBack`), which is out of the prover's reach. Every invariant and action property of the passing runs is
stated by a theorem; outside the hypotheses named above, `HistoryTop`, `BackMovesOn` and `IdentificationComplete` are false, as they are of the code: "back" at the first step empties
the history, a TEXT before a question leads back to the question, and a placeholder for a name, a second identification, a field `wpp_name` or a correction left by "back" leave a field empty.

## 5. Not modelled

- A `releaseLock` that Redis refuses (`state.service.ts:154`): the key stays until it expires, as after a death, and messages may be dropped meanwhile behind nobody.
- Outgoing delivery: a job waits its delay and makes one call; jobs share no state. That five run at once, so a later message with a shorter delay overtakes, and that the registration the
  engine injects has no `attempts`, can be read off `queue/queue.module.ts:16` and `outgoing-message.worker.ts:18`; the code promises neither order nor retry.
- The translation of messages in the providers and the webhook: stateless.
- Bodies that never end (`http-request.handler.ts:84`). That the service answered and the update fails is the outcome `failed` of `HttpExecute`, as in the code.
- Authentication (stateless), the event gateway, metrics and history rows (write-only or read-only), `whatsapp/auth/prisma-auth.ts`
  (unused by the provider), wiring.

## 6. Plan

1. A refinement of the handlers into their single writes (HTTP succeeded and update failed, review flags).
2. Outgoing delivery, if the code comes to promise an order.
