---------------------------- MODULE MessageLock ----------------------------
(***************************************************************************)
(* Inbound messages from the queue to the conversation they belong to:     *)
(* the incoming_messages queue, the workers that take jobs from it, and    *)
(* the Redis lock FlowService.processMessage takes around a conversation.  *)
(*                                                                         *)
(* A worker is one replica of the backend: IncomingMessageWorker has       *)
(* BullMQ's default concurrency of one job.  A replica that dies is        *)
(* replaced, and its job is found stalled and queued again by BullMQ.      *)
(* What happens between taking the lock and releasing it is one step here; *)
(* FlowEngine models it.                                                   *)
(***************************************************************************)
EXTENDS Naturals, Sequences

CONSTANTS Workers,         \* replicas
          Sessions,        \* conversations: pairs of an instance and a phone
          NumMessages,     \* messages are numbered in order of arrival
          SessionOf,       \* the conversation of each message
          Blank,           \* messages without text (a photo, a sticker)
          MaxAttempts,     \* polls of the lock before giving up (10 in the code)
          MaxCrashes,      \* bound on the replicas that die
          SlowProcessing,  \* may a message take longer than the lock lives?
          Nobody           \* not a worker

Messages == 1 .. NumMessages
NoJob == 0

ASSUME LockAssumption ==
  /\ NumMessages \in Nat
  /\ SessionOf \in [Messages -> Sessions]
  /\ Blank \subseteq Messages
  /\ MaxAttempts \in Nat \ {0}
  /\ MaxCrashes \in Nat
  /\ SlowProcessing \in BOOLEAN
  /\ Nobody \notin Workers

VARIABLES
  queue,     \* jobs waiting in incoming_messages, next one first
  status,    \* what BullMQ knows of each job
  stalls,    \* how often BullMQ found the job stalled
  outcome,   \* what the last run of processMessage made of the message (history)
  job,       \* the job of each worker
  phase,     \* where in the job the worker is
  attempts,  \* polls of the lock that found it taken
  lock,      \* lock:process:<instance>:<phone>; the code stores no owner, who
             \* set the key is recorded here for the properties only
  contended, \* did a poll find the conversation really being worked on? (history)
  crashes

vars == <<queue, status, stalls, outcome, job, phase, attempts, lock, contended, crashes>>

Statuses == {"new", "waiting", "active", "stalled", "done", "failed"}
Outcomes == {"none", "processed", "dropped", "ignored"}
Phases   == {"idle", "acquiring", "processing", "returned"}

\* BullMQ's default maxStalledCount: a job may stall once, the second time it fails.
MaxStalledCount == 1

Session(w) == SessionOf[job[w]]
WorksOn(w, s) == phase[w] = "processing" /\ Session(w) = s

-----------------------------------------------------------------------------
Init ==
  /\ queue = <<>>
  /\ status = [m \in Messages |-> "new"]
  /\ stalls = [m \in Messages |-> 0]
  /\ outcome = [m \in Messages |-> "none"]
  /\ job = [w \in Workers |-> NoJob]
  /\ phase = [w \in Workers |-> "idle"]
  /\ attempts = [w \in Workers |-> 0]
  /\ lock = [s \in Sessions |-> Nobody]
  /\ contended = [w \in Workers |-> FALSE]
  /\ crashes = 0

\* A provider hands the next message over and it is queued.
Receive(m) ==
  /\ status[m] = "new"
  /\ \A k \in Messages : k < m => status[k] # "new"
  /\ status' = [status EXCEPT ![m] = "waiting"]
  /\ queue' = Append(queue, m)
  /\ UNCHANGED <<stalls, outcome, job, phase, attempts, lock, contended, crashes>>

\* Mutant: the job stays in the queue while a worker has it.
TakeWithoutRemoving(w) ==
  /\ phase[w] = "idle"
  /\ queue # <<>>
  /\ status' = [status EXCEPT ![Head(queue)] = "active"]
  /\ job' = [job EXCEPT ![w] = Head(queue)]
  /\ phase' = [phase EXCEPT ![w] = "acquiring"]
  /\ attempts' = [attempts EXCEPT ![w] = 0]
  /\ contended' = [contended EXCEPT ![w] = FALSE]
  /\ UNCHANGED <<queue, stalls, outcome, lock, crashes>>

\* An idle worker takes the job at the head of the queue.
Take(w) ==
  /\ phase[w] = "idle"
  /\ queue # <<>>
  /\ queue' = Tail(queue)
  /\ status' = [status EXCEPT ![Head(queue)] = "active"]
  /\ job' = [job EXCEPT ![w] = Head(queue)]
  /\ phase' = [phase EXCEPT ![w] = "acquiring"]
  /\ attempts' = [attempts EXCEPT ![w] = 0]
  /\ contended' = [contended EXCEPT ![w] = FALSE]
  /\ UNCHANGED <<stalls, outcome, lock, crashes>>

\* processMessage returns: what it made of the message is final unless the
\* worker dies before BullMQ is told.
Return(w, result) ==
  /\ phase' = [phase EXCEPT ![w] = "returned"]
  /\ outcome' = [outcome EXCEPT ![job[w]] = result]

\* A message without text is left alone before the lock is looked at.
Ignore(w) ==
  /\ phase[w] = "acquiring" /\ job[w] \in Blank
  /\ Return(w, "ignored")
  /\ UNCHANGED <<queue, status, stalls, job, attempts, lock, contended, crashes>>

\* Mutant: one poll too many (<= for <).
PollingOnceMore(w) ==
  phase[w] = "acquiring" /\ job[w] \notin Blank /\ attempts[w] <= MaxAttempts

Polling(w) ==
  phase[w] = "acquiring" /\ job[w] \notin Blank /\ attempts[w] < MaxAttempts

\* Mutant: SET without NX, the key is overwritten.
AcquireWithoutNX(w) ==
  /\ Polling(w)
  /\ lock' = [lock EXCEPT ![Session(w)] = w]
  /\ phase' = [phase EXCEPT ![w] = "processing"]
  /\ UNCHANGED <<queue, status, stalls, outcome, job, attempts, contended, crashes>>

\* SET NX PX 30000 finds no key.
Acquire(w) ==
  /\ Polling(w)
  /\ lock[Session(w)] = Nobody
  /\ lock' = [lock EXCEPT ![Session(w)] = w]
  /\ phase' = [phase EXCEPT ![w] = "processing"]
  /\ UNCHANGED <<queue, status, stalls, outcome, job, attempts, contended, crashes>>

\* SET NX finds the key; the worker sleeps 500 ms and polls again.
FindTaken(w) ==
  /\ Polling(w)
  /\ lock[Session(w)] # Nobody
  /\ attempts' = [attempts EXCEPT ![w] = @ + 1]
  /\ contended' = [contended EXCEPT ![w] = @ \/ \E v \in Workers : WorksOn(v, Session(w))]
  /\ UNCHANGED <<queue, status, stalls, outcome, job, phase, lock, crashes>>

\* Mutant: the try/finally encloses the polling too, so giving up deletes the key.
GiveUpReleasing(w) ==
  /\ phase[w] = "acquiring" /\ job[w] \notin Blank
  /\ attempts[w] >= MaxAttempts
  /\ lock' = [lock EXCEPT ![Session(w)] = Nobody]
  /\ Return(w, "dropped")
  /\ UNCHANGED <<queue, status, stalls, job, attempts, contended, crashes>>

\* Mutant: the check after the loop is off by one, the job is never returned.
GiveUpTooLate(w) ==
  /\ phase[w] = "acquiring" /\ job[w] \notin Blank
  /\ attempts[w] > MaxAttempts
  /\ Return(w, "dropped")
  /\ UNCHANGED <<queue, status, stalls, job, attempts, lock, contended, crashes>>

\* Mutant: no check after the loop, the message is worked on without the lock.
GiveUpAndProceed(w) ==
  /\ phase[w] = "acquiring" /\ job[w] \notin Blank
  /\ attempts[w] >= MaxAttempts
  /\ phase' = [phase EXCEPT ![w] = "processing"]
  /\ UNCHANGED <<queue, status, stalls, outcome, job, attempts, lock, contended, crashes>>

\* After MaxAttempts polls the message is dropped, without touching the lock.
GiveUp(w) ==
  /\ phase[w] = "acquiring" /\ job[w] \notin Blank
  /\ attempts[w] >= MaxAttempts
  /\ Return(w, "dropped")
  /\ UNCHANGED <<queue, status, stalls, job, attempts, lock, contended, crashes>>

\* Mutant: no finally, the key is left to its TTL.
FinishWithoutRelease(w) ==
  /\ phase[w] = "processing"
  /\ Return(w, "processed")
  /\ UNCHANGED <<queue, status, stalls, job, attempts, lock, contended, crashes>>

\* The conversation step ends, well or with an error that is logged; the
\* finally block deletes the lock key, whoever set it.  (Redis is there: a DEL
\* that is refused would leave the key to its TTL, as a death does.)
Finish(w) ==
  /\ phase[w] = "processing"
  /\ lock' = [lock EXCEPT ![Session(w)] = Nobody]
  /\ Return(w, "processed")
  /\ UNCHANGED <<queue, status, stalls, job, attempts, contended, crashes>>

\* The worker reports the job as completed.
Complete(w) ==
  /\ phase[w] = "returned"
  /\ status' = [status EXCEPT ![job[w]] = "done"]
  /\ job' = [job EXCEPT ![w] = NoJob]
  /\ phase' = [phase EXCEPT ![w] = "idle"]
  /\ UNCHANGED <<queue, stalls, outcome, attempts, lock, contended, crashes>>

\* Mutant: the key is set without a TTL.
NeverExpire(s) == FALSE

\* Mutant: the TTL is shorter than the work it covers.
ExpireEarly(s) ==
  /\ lock[s] # Nobody
  /\ lock' = [lock EXCEPT ![s] = Nobody]
  /\ UNCHANGED <<queue, status, stalls, outcome, job, phase, attempts, contended, crashes>>

\* The lock key reaches its TTL.  With ~SlowProcessing nobody works on a
\* conversation for 30 seconds, so only a lock left behind gets that old.
Expire(s) ==
  /\ lock[s] # Nobody
  /\ SlowProcessing \/ \A w \in Workers : ~WorksOn(w, s)
  /\ lock' = [lock EXCEPT ![s] = Nobody]
  /\ UNCHANGED <<queue, status, stalls, outcome, job, phase, attempts, contended, crashes>>

\* A replica dies with a job and is replaced.  Its lock, if it has one, stays.
Crash(w) ==
  /\ phase[w] # "idle"
  /\ crashes < MaxCrashes
  /\ crashes' = crashes + 1
  /\ status' = [status EXCEPT ![job[w]] = "stalled"]
  /\ job' = [job EXCEPT ![w] = NoJob]
  /\ phase' = [phase EXCEPT ![w] = "idle"]
  /\ UNCHANGED <<queue, stalls, outcome, attempts, lock, contended>>

\* BullMQ's stalled check puts the job back at the head of the queue ...
Requeue(m) ==
  /\ status[m] = "stalled" /\ stalls[m] < MaxStalledCount
  /\ stalls' = [stalls EXCEPT ![m] = @ + 1]
  /\ status' = [status EXCEPT ![m] = "waiting"]
  /\ queue' = <<m>> \o queue
  /\ UNCHANGED <<outcome, job, phase, attempts, lock, contended, crashes>>

\* ... or fails it, the second time.
Fail(m) ==
  /\ status[m] = "stalled" /\ stalls[m] >= MaxStalledCount
  /\ status' = [status EXCEPT ![m] = "failed"]
  /\ UNCHANGED <<queue, stalls, outcome, job, phase, attempts, lock, contended, crashes>>

-----------------------------------------------------------------------------
Work(w) ==
  Take(w) \/ Ignore(w) \/ Acquire(w) \/ FindTaken(w) \/ GiveUp(w) \/ Finish(w) \/ Complete(w)

Recover(m) == Requeue(m) \/ Fail(m)

Next ==
  \/ \E m \in Messages : Receive(m) \/ Recover(m)
  \/ \E w \in Workers : Work(w) \/ Crash(w)
  \/ \E s \in Sessions : Expire(s)

Spec == Init /\ [][Next]_vars

\* Workers keep polling the queue and run the job they have; BullMQ keeps
\* looking for stalled jobs; Redis expires keys.  Nobody has to write to the
\* bot and nobody has to die.
Fairness ==
  /\ \A w \in Workers : WF_vars(Work(w))
  /\ \A m \in Messages : WF_vars(Recover(m))
  /\ \A s \in Sessions : WF_vars(Expire(s))

FairSpec == Spec /\ Fairness

-----------------------------------------------------------------------------
TypeOK ==
  /\ queue \in Seq(Messages)
  /\ status \in [Messages -> Statuses]
  /\ stalls \in [Messages -> 0 .. MaxStalledCount]
  /\ outcome \in [Messages -> Outcomes]
  /\ job \in [Workers -> Messages \cup {NoJob}]
  /\ phase \in [Workers -> Phases]
  /\ \A w \in Workers : phase[w] = "idle" <=> job[w] = NoJob
  /\ attempts \in [Workers -> 0 .. MaxAttempts]
  /\ lock \in [Sessions -> Workers \cup {Nobody}]
  /\ contended \in [Workers -> BOOLEAN]
  /\ crashes \in 0 .. MaxCrashes

\* Who works on a conversation is who set its lock: nobody else's release,
\* give-up or death, and no expiry, takes the lock away under a worker.
LockGuardsWork ==
  \A w \in Workers : phase[w] = "processing" => lock[Session(w)] = w

\* A job is in one place: in the queue once, or with one worker, or out of reach.
OneHome ==
  /\ \A i, k \in DOMAIN queue : queue[i] = queue[k] => i = k
  /\ \A i \in DOMAIN queue : status[queue[i]] = "waiting"
  /\ \A w \in Workers : phase[w] # "idle" => status[job[w]] = "active"
  /\ \A v, w \in Workers : phase[v] # "idle" /\ job[v] = job[w] => v = w

\* Two workers never execute steps of the same conversation at the same
\* time, so step, history and metadata are read and written by one of them
\* (flow.service.ts:72-88, "para evitar inconsistencia").
MutualExclusion ==
  \A v, w \in Workers :
    phase[v] = "processing" /\ phase[w] = "processing" /\ Session(v) = Session(w) => v = w

\* While no replica has died, a dropped message was in the way of another one:
\* one of the polls found a worker on the conversation, as the log of
\* flow.service.ts:80 has it ("Aguardando processamento anterior").  A death
\* leaves a lock behind that outlives the polling.
DropOnlyBehindLiveHolder ==
  [][\A w \in Workers : GiveUp(w) /\ crashes = 0 => contended[w]]_vars

\* Every queued message is done with some day: the polling of the lock is
\* bounded and stalled jobs are queued again or failed.
EverySettled ==
  \A m \in Messages : status[m] = "waiting" ~> status[m] \in {"done", "failed"}

\* No lock stays for ever, not even one whose owner died.
LockFreed == \A s \in Sessions : []<>(lock[s] = Nobody)

-----------------------------------------------------------------------------
\* The conversations as SerialSessions sees them.
Stage(m) ==
  LET At(p) == \E w \in Workers : job[w] = m /\ phase[w] = p
  IN  CASE status[m] \in {"done", "failed"} -> "settled"
        [] At("processing") -> "serving"
        [] At("returned") /\ outcome[m] = "processed" -> "answered"
        [] At("returned") /\ outcome[m] # "processed" -> "refused"
        [] OTHER -> "pending"

Serial == INSTANCE SerialSessions WITH stage <- [m \in Messages |-> Stage(m)]

\* The queue, the workers and the lock together keep the promise of
\* SerialSessions: one message at a time in every conversation.
ImplementsSerial == Serial!Spec
=============================================================================
