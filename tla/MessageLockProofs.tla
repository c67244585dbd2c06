------------------------- MODULE MessageLockProofs -------------------------
(***************************************************************************)
(* Theorems about MessageLock, for any number of replicas, conversations,  *)
(* messages and crashes.                                                   *)
(***************************************************************************)
EXTENDS MessageLock, SequenceTheorems, TLAPS

\* The constants the proofs compare: job numbers, and one stall per job.
LEMMA StatusTypes ==
  /\ MaxStalledCount = 1
  /\ NoJob = 0 /\ NoJob \notin Messages
  /\ Messages \subseteq Nat
BY LockAssumption DEF MaxStalledCount, NoJob, Messages

\* A queued job leaves the queue in one piece: what SMT needs to know of
\* Head, Tail, Append and concatenation on the queue.
LEMMA QueueSteps ==
  ASSUME NEW q \in Seq(Messages), NEW m \in Messages
  PROVE  /\ Append(q, m) \in Seq(Messages)
         /\ <<m>> \o q \in Seq(Messages)
         /\ q # <<>> => Head(q) \in Messages /\ Tail(q) \in Seq(Messages)
OBVIOUS

\* Where the elements of the changed queue come from.
LEMMA QueueElements ==
  ASSUME NEW q \in Seq(Messages), NEW m \in Messages
  PROVE  /\ DOMAIN q = 1 .. Len(q) /\ Len(q) \in Nat
         /\ DOMAIN Append(q, m) = 1 .. Len(q) + 1
         /\ \A i \in 1 .. Len(q) + 1 :
              Append(q, m)[i] = IF i = Len(q) + 1 THEN m ELSE q[i]
         /\ DOMAIN (<<m>> \o q) = 1 .. Len(q) + 1
         /\ \A i \in 1 .. Len(q) + 1 : (<<m>> \o q)[i] = IF i = 1 THEN m ELSE q[i - 1]
         /\ q # <<>> =>
              /\ Head(q) = q[1] /\ 1 \in DOMAIN q
              /\ DOMAIN Tail(q) = 1 .. Len(q) - 1
              /\ \A i \in 1 .. Len(q) - 1 : Tail(q)[i] = q[i + 1] /\ i + 1 \in DOMAIN q
OBVIOUS

-----------------------------------------------------------------------------
\* Type correctness: every variable keeps its type, the poll counter stays
\* within the bound of the loop in processMessage, and a worker has a job
\* exactly while it is not idle.
THEOREM TypeCorrect == Spec => []TypeOK
<1> USE LockAssumption, StatusTypes
<1>1. Init => TypeOK
  BY DEF Init, TypeOK, Statuses, Outcomes, Phases
<1>2. TypeOK /\ [Next]_vars => TypeOK'
  <2> SUFFICES ASSUME TypeOK, [Next]_vars PROVE TypeOK'
    OBVIOUS
  <2> USE DEF TypeOK, Statuses, Outcomes, Phases
  <2>1. ASSUME NEW m \in Messages, Receive(m) PROVE TypeOK'
    BY <2>1, QueueSteps DEF Receive
  <2>2. ASSUME NEW m \in Messages, Requeue(m) PROVE TypeOK'
    <3>1. queue' \in Seq(Messages)
      <4>1. queue \in Seq(Messages) /\ queue' = <<m>> \o queue
        BY <2>2 DEF Requeue
      <4>2. QED
        BY <4>1, QueueSteps
    <3>2. stalls' \in [Messages -> 0 .. MaxStalledCount]
      <4>1. stalls[m] = 0
        BY <2>2 DEF Requeue
      <4>2. QED
        BY <2>2, <4>1 DEF Requeue
    <3>3. QED
      BY <2>2, <3>1, <3>2 DEF Requeue
  <2>3. ASSUME NEW m \in Messages, Fail(m) PROVE TypeOK'
    BY <2>3 DEF Fail
  <2>4. ASSUME NEW w \in Workers, Take(w) PROVE TypeOK'
    BY <2>4, QueueSteps DEF Take
  <2>5. ASSUME NEW w \in Workers, Ignore(w) PROVE TypeOK'
    BY <2>5 DEF Ignore, Return
  <2>6. ASSUME NEW w \in Workers, Acquire(w) PROVE TypeOK'
    BY <2>6 DEF Acquire, Polling, Session
  <2>7. ASSUME NEW w \in Workers, FindTaken(w) PROVE TypeOK'
    BY <2>7 DEF FindTaken, Polling
  <2>8. ASSUME NEW w \in Workers, GiveUp(w) PROVE TypeOK'
    BY <2>8 DEF GiveUp, Return
  <2>9. ASSUME NEW w \in Workers, Finish(w) PROVE TypeOK'
    BY <2>9 DEF Finish, Return, Session
  <2>10. ASSUME NEW w \in Workers, Complete(w) PROVE TypeOK'
    BY <2>10 DEF Complete
  <2>11. ASSUME NEW w \in Workers, Crash(w) PROVE TypeOK'
    BY <2>11 DEF Crash
  <2>12. ASSUME NEW s \in Sessions, Expire(s) PROVE TypeOK'
    BY <2>12 DEF Expire
  <2>13. CASE UNCHANGED vars
    BY <2>13 DEF vars
  <2>14. QED
    BY <2>1, <2>2, <2>3, <2>4, <2>5, <2>6, <2>7, <2>8, <2>9, <2>10, <2>11,
       <2>12, <2>13 DEF Next, Work, Recover
<1>3. QED
  BY <1>1, <1>2, PTL DEF Spec

-----------------------------------------------------------------------------
\* As long as no message takes longer than the lock lives, whoever works on a
\* conversation is who set its lock.  Mutual exclusion is not inductive
\* without this: it says nothing of what a release takes away.
THEOREM LockGuardsWorkHolds ==
  ASSUME ~SlowProcessing
  PROVE  Spec => []LockGuardsWork
<1> USE LockAssumption, StatusTypes
<1>1. Init => LockGuardsWork
  BY DEF Init, LockGuardsWork
<1>2. TypeOK /\ LockGuardsWork /\ [Next]_vars => LockGuardsWork'
  <2> SUFFICES ASSUME TypeOK, LockGuardsWork, [Next]_vars PROVE LockGuardsWork'
    OBVIOUS
  <2> USE DEF TypeOK, LockGuardsWork, Session, Statuses, Phases
  <2>1. ASSUME NEW m \in Messages, Receive(m) \/ Recover(m) PROVE LockGuardsWork'
    BY <2>1 DEF Receive, Recover, Requeue, Fail
  <2>2. ASSUME NEW w \in Workers, Take(w) PROVE LockGuardsWork'
    BY <2>2 DEF Take
  <2>3. ASSUME NEW w \in Workers, Ignore(w) \/ GiveUp(w) PROVE LockGuardsWork'
    BY <2>3 DEF Ignore, GiveUp, Return
  <2>4. ASSUME NEW w \in Workers, Acquire(w) PROVE LockGuardsWork'
    <3>1. \A v \in Workers : phase[v] = "processing" => Session(v) # Session(w)
      BY <2>4 DEF Acquire, Polling
    <3>2. QED
      BY <2>4, <3>1 DEF Acquire, Polling
  <2>5. ASSUME NEW w \in Workers, FindTaken(w) PROVE LockGuardsWork'
    BY <2>5 DEF FindTaken
  <2>6. ASSUME NEW w \in Workers, Finish(w) PROVE LockGuardsWork'
    <3>1. \A v \in Workers : phase[v] = "processing" /\ v # w => Session(v) # Session(w)
      BY <2>6 DEF Finish
    <3>2. QED
      BY <2>6, <3>1 DEF Finish, Return
  <2>7. ASSUME NEW w \in Workers, Complete(w) \/ Crash(w) PROVE LockGuardsWork'
    BY <2>7 DEF Complete, Crash
  <2>8. ASSUME NEW s \in Sessions, Expire(s) PROVE LockGuardsWork'
    BY <2>8 DEF Expire, WorksOn
  <2>9. CASE UNCHANGED vars
    BY <2>9 DEF vars
  <2>10. QED
    BY <2>1, <2>2, <2>3, <2>4, <2>5, <2>6, <2>7, <2>8, <2>9 DEF Next, Work
<1>3. QED
  BY <1>1, <1>2, TypeCorrect, PTL DEF Spec

\* Mutual exclusion: two workers never work on one conversation at a time,
\* for any number of replicas and crashes, if no message takes longer than
\* the lock lives.
THEOREM MutualExclusionHolds ==
  ASSUME ~SlowProcessing
  PROVE  Spec => []MutualExclusion
<1>1. LockGuardsWork => MutualExclusion
  BY DEF LockGuardsWork, MutualExclusion
<1>2. QED
  BY <1>1, LockGuardsWorkHolds, PTL

-----------------------------------------------------------------------------
\* A job is in one place at a time: once in the queue, or with one worker, or
\* out of their reach (not received yet, stalled, done or failed).
THEOREM OneHomeHolds == Spec => []OneHome
<1> USE LockAssumption, StatusTypes
<1>1. Init => OneHome
  BY DEF Init, OneHome
<1>2. TypeOK /\ OneHome /\ [Next]_vars => OneHome'
  <2> SUFFICES ASSUME TypeOK, OneHome, [Next]_vars PROVE OneHome'
    OBVIOUS
  <2> USE DEF TypeOK, OneHome, Statuses, Phases
  <2>1. ASSUME NEW m \in Messages, Receive(m) PROVE OneHome'
    <3>1. DOMAIN queue' = 1 .. Len(queue) + 1
      BY <2>1, QueueElements DEF Receive
    <3>2. \A i \in DOMAIN queue' : queue'[i] = IF i = Len(queue) + 1 THEN m ELSE queue[i]
      BY <2>1, <3>1, QueueElements DEF Receive
    <3>3. \A i \in DOMAIN queue : queue[i] # m
      BY <2>1 DEF Receive
    <3>4. DOMAIN queue = 1 .. Len(queue) /\ Len(queue) \in Nat
      BY QueueElements
    <3>5. QED
      BY <2>1, <3>1, <3>2, <3>3, <3>4 DEF Receive
  <2>2. ASSUME NEW m \in Messages, Requeue(m) PROVE OneHome'
    <3>1. DOMAIN queue' = 1 .. Len(queue) + 1
      BY <2>2, QueueElements DEF Requeue
    <3>2. \A i \in DOMAIN queue' : queue'[i] = IF i = 1 THEN m ELSE queue[i - 1]
      BY <2>2, <3>1, QueueElements DEF Requeue
    <3>3. \A i \in DOMAIN queue : queue[i] # m
      BY <2>2 DEF Requeue
    <3>4. DOMAIN queue = 1 .. Len(queue) /\ Len(queue) \in Nat
      BY QueueElements
    <3>5. QED
      BY <2>2, <3>1, <3>2, <3>3, <3>4 DEF Requeue
  <2>3. ASSUME NEW m \in Messages, Fail(m) PROVE OneHome'
    BY <2>3 DEF Fail
  <2>4. ASSUME NEW w \in Workers, Take(w) PROVE OneHome'
    <3> DEFINE m == Head(queue)
    <3>1. m = queue[1] /\ 1 \in DOMAIN queue /\ m \in Messages
      BY <2>4, QueueElements DEF Take
    <3>2. DOMAIN queue' = 1 .. Len(queue) - 1
      BY <2>4, QueueElements, <3>1 DEF Take
    <3>3. \A i \in DOMAIN queue' : queue'[i] = queue[i + 1] /\ i + 1 \in DOMAIN queue
      BY <2>4, QueueElements, <3>1, <3>2 DEF Take
    <3>4. \A i \in DOMAIN queue' : queue'[i] # m
      <4>1. SUFFICES ASSUME NEW i \in DOMAIN queue', queue'[i] = m PROVE FALSE
        OBVIOUS
      <4>2. i + 1 = 1
        BY <4>1, <3>1, <3>3
      <4>3. QED
        BY <4>2, <3>2
    <3>5. \A v \in Workers : phase[v] # "idle" => job[v] # m
      BY <3>1
    <3>6. status' = [status EXCEPT ![m] = "active"] /\ job' = [job EXCEPT ![w] = m]
          /\ phase' = [phase EXCEPT ![w] = "acquiring"] /\ phase[w] = "idle"
      BY <2>4 DEF Take
    <3> HIDE DEF m
    <3>7. \A i, k \in DOMAIN queue' : queue'[i] = queue'[k] => i = k
      <4>1. SUFFICES ASSUME NEW i \in DOMAIN queue', NEW k \in DOMAIN queue',
                            queue'[i] = queue'[k]
                     PROVE  i = k
        OBVIOUS
      <4>2. i + 1 = k + 1
        BY <4>1, <3>3
      <4>3. QED
        BY <4>2, <3>2
    <3>8. \A i \in DOMAIN queue' : status'[queue'[i]] = "waiting"
      BY <3>3, <3>4, <3>6
    <3>9. \A v \in Workers : phase'[v] # "idle" => status'[job'[v]] = "active"
      BY <3>1, <3>5, <3>6
    <3>10. \A v, u \in Workers : phase'[v] # "idle" /\ job'[v] = job'[u] => v = u
      BY <3>1, <3>5, <3>6
    <3>11. QED
      BY <3>7, <3>8, <3>9, <3>10
  <2>5. ASSUME NEW w \in Workers, Ignore(w) \/ GiveUp(w) \/ Finish(w) PROVE OneHome'
    BY <2>5 DEF Ignore, GiveUp, Finish, Return
  <2>6. ASSUME NEW w \in Workers, Acquire(w) \/ FindTaken(w) PROVE OneHome'
    BY <2>6 DEF Acquire, FindTaken, Polling
  <2>7. ASSUME NEW w \in Workers, Complete(w) \/ Crash(w) PROVE OneHome'
    <3>1. \A i \in DOMAIN queue : queue[i] # job[w]
      BY <2>7 DEF Complete, Crash
    <3>2. \A v \in Workers : v # w => job[v] # job[w]
      BY <2>7 DEF Complete, Crash
    <3>3. \A m \in Messages : m # job[w] => status'[m] = status[m]
      BY <2>7 DEF Complete, Crash
    <3>4. queue' = queue /\ job' = [job EXCEPT ![w] = NoJob] /\ phase' = [phase EXCEPT ![w] = "idle"]
      BY <2>7 DEF Complete, Crash
    <3>5. \A i \in DOMAIN queue : queue[i] \in Messages
      OBVIOUS
    <3>6. \A i \in DOMAIN queue' : status'[queue'[i]] = "waiting"
      BY <3>1, <3>3, <3>4, <3>5
    <3>7. \A v \in Workers : phase'[v] # "idle" =>
            v # w /\ job'[v] = job[v] /\ job[v] \in Messages /\ phase[v] # "idle"
      BY <3>4
    <3>8. \A v \in Workers : phase'[v] # "idle" => status'[job'[v]] = "active"
      BY <3>2, <3>3, <3>7
    <3>9. \A v, u \in Workers : phase'[v] # "idle" /\ job'[v] = job'[u] => v = u
      BY <3>4, <3>7
    <3>10. QED
      BY <3>4, <3>6, <3>8, <3>9
  <2>8. ASSUME NEW s \in Sessions, Expire(s) PROVE OneHome'
    BY <2>8 DEF Expire
  <2>9. CASE UNCHANGED vars
    BY <2>9 DEF vars
  <2>10. QED
    BY <2>1, <2>2, <2>3, <2>4, <2>5, <2>6, <2>7, <2>8, <2>9 DEF Next, Work, Recover
<1>3. QED
  BY <1>1, <1>2, TypeCorrect, PTL DEF Spec

-----------------------------------------------------------------------------
\* The refinement.  Stage in terms of the worker that has the message, or of
\* the job's status if none has.
StageByHome ==
  /\ \A w \in Workers : phase[w] = "acquiring" => Stage(job[w]) = "pending"
  /\ \A w \in Workers : phase[w] = "processing" => Stage(job[w]) = "serving"
  /\ \A w \in Workers : phase[w] = "returned" =>
       Stage(job[w]) = IF outcome[job[w]] = "processed" THEN "answered" ELSE "refused"
  /\ \A m \in Messages : (\A w \in Workers : job[w] # m) =>
       Stage(m) = IF status[m] \in {"done", "failed"} THEN "settled" ELSE "pending"

\* Where a job is determines how far its message is.
LEMMA StageByHomeHolds == TypeOK /\ OneHome => StageByHome
<1> SUFFICES ASSUME TypeOK, OneHome PROVE StageByHome
  OBVIOUS
<1> USE LockAssumption, StatusTypes
<1>1. ASSUME NEW w \in Workers, phase[w] # "idle"
      PROVE  /\ job[w] \in Messages /\ status[job[w]] = "active"
             /\ \A v \in Workers : job[v] = job[w] => v = w
  BY <1>1 DEF TypeOK, OneHome
<1>2. ASSUME NEW w \in Workers, phase[w] = "acquiring" PROVE Stage(job[w]) = "pending"
  BY <1>1, <1>2 DEF Stage
<1>3. ASSUME NEW w \in Workers, phase[w] = "processing" PROVE Stage(job[w]) = "serving"
  BY <1>1, <1>3 DEF Stage
<1>4. ASSUME NEW w \in Workers, phase[w] = "returned"
      PROVE  Stage(job[w]) = IF outcome[job[w]] = "processed" THEN "answered" ELSE "refused"
  BY <1>1, <1>4 DEF Stage
<1>5. ASSUME NEW m \in Messages, \A w \in Workers : job[w] # m
      PROVE  Stage(m) = IF status[m] \in {"done", "failed"} THEN "settled" ELSE "pending"
  BY <1>5 DEF Stage
<1>6. QED
  BY <1>2, <1>3, <1>4, <1>5 DEF StageByHome

\* A step of a worker, or of BullMQ on a job, moves no other message.
LEMMA StageFrame ==
  ASSUME NEW w \in Workers, NEW m \in Messages,
         \A n \in Messages \ {m} : status'[n] = status[n] /\ outcome'[n] = outcome[n],
         \A v \in Workers \ {w} : job'[v] = job[v] /\ phase'[v] = phase[v],
         job[w] \in {m, NoJob}, job'[w] \in {m, NoJob}
  PROVE  \A n \in Messages : n # m => Stage(n)' = Stage(n)
<1> SUFFICES ASSUME NEW n \in Messages, n # m PROVE Stage(n)' = Stage(n)
  OBVIOUS
<1>1. ASSUME NEW p
      PROVE  (\E v \in Workers : job[v] = n /\ phase[v] = p)
               <=> (\E v \in Workers : job'[v] = n /\ phase'[v] = p)
  BY StatusTypes
<1>2. status'[n] = status[n] /\ outcome'[n] = outcome[n]
  OBVIOUS
<1>3. QED
  BY <1>1, <1>2 DEF Stage

\* A step of BullMQ on one job, with no worker involved, moves no other message.
LEMMA StageFrameJob ==
  ASSUME NEW m \in Messages, UNCHANGED <<job, phase, outcome>>,
         \A n \in Messages \ {m} : status'[n] = status[n]
  PROVE  \A n \in Messages : n # m => Stage(n)' = Stage(n)
BY DEF Stage

\* The abstract state, and how a step that moves one message looks there.
stages == [m \in Messages |-> Stage(m)]

\* A step that changes the stage of one message is that move in SerialSessions.
LEMMA StageMove ==
  ASSUME NEW m \in Messages, NEW to, Stage(m)' = to,
         \A n \in Messages : n # m => Stage(n)' = Stage(n)
  PROVE  stages' = [stages EXCEPT ![m] = to]
BY DEF stages

\* A step that changes no stage is a stutter in SerialSessions.
LEMMA StageStutter ==
  ASSUME NEW m \in Messages, Stage(m)' = Stage(m),
         \A n \in Messages : n # m => Stage(n)' = Stage(n)
  PROVE  stages' = stages
BY DEF stages

\* Queue, workers and lock implement the abstract promise of one message at a
\* time per conversation, for any number of replicas, messages and crashes,
\* if no message takes longer than the lock lives.
THEOREM LockImplementsSerial ==
  ASSUME ~SlowProcessing
  PROVE  Spec => ImplementsSerial
<1> USE LockAssumption, StatusTypes
<1> DEFINE Inv == TypeOK /\ OneHome /\ LockGuardsWork
<1>1. Init => Serial!Init
  BY DEF Init, Serial!Init, Stage
<1>2. TypeOK' /\ OneHome' => StageByHome'
  BY StageByHomeHolds, PTL
<1>3. Inv /\ Inv' /\ [Next]_vars => [Serial!Next]_stages
  <2> SUFFICES ASSUME Inv, Inv', [Next]_vars PROVE [Serial!Next]_stages
    OBVIOUS
  <2>a. StageByHome /\ StageByHome'
    BY <1>2, StageByHomeHolds
  <2>b. \A w \in Workers : phase[w] # "idle" => job[w] \in Messages
    BY DEF TypeOK
  <2>1. ASSUME NEW m \in Messages, Receive(m) \/ Requeue(m) PROVE stages' = stages
    <3>1. Stage(m)' = Stage(m)
      BY <2>1 DEF Receive, Requeue, Stage, TypeOK, Statuses
    <3>2. QED
      BY <2>1, <3>1, StageFrameJob, StageStutter DEF Receive, Requeue, TypeOK
  <2>2. ASSUME NEW m \in Messages, Fail(m) PROVE Serial!Abandon(m)
    <3>1. \A w \in Workers : job[w] # m /\ job'[w] # m
      BY <2>2 DEF Fail, OneHome, TypeOK
    <3>2. Stage(m) = "pending"
      BY <2>2, <2>a, <3>1 DEF Fail, StageByHome
    <3>3. Stage(m)' = "settled"
      BY <2>2, <2>a, <3>1 DEF Fail, StageByHome, TypeOK
    <3>4. stages' = [stages EXCEPT ![m] = "settled"]
      BY <2>2, <3>3, StageFrameJob, StageMove DEF Fail, TypeOK
    <3>5. QED
      BY <3>2, <3>4 DEF Serial!Abandon, Serial!Move, stages
  <2>3. ASSUME NEW w \in Workers, Take(w) PROVE stages' = stages
    <3>1. PICK m \in Messages : m = Head(queue) /\ \E i \in DOMAIN queue : m = queue[i]
      <4>1. queue \in Seq(Messages) /\ queue # <<>>
        BY <2>3 DEF Take, TypeOK
      <4>2. Head(queue) \in Messages /\ Head(queue) = queue[1] /\ 1 \in DOMAIN queue
        BY <4>1, QueueSteps, QueueElements
      <4>3. QED
        BY <4>2
    <3>2. job[w] = NoJob /\ job' = [job EXCEPT ![w] = m] /\ phase' = [phase EXCEPT ![w] = "acquiring"]
          /\ status' = [status EXCEPT ![m] = "active"] /\ outcome' = outcome
      BY <2>3, <3>1 DEF Take, TypeOK
    <3>3. status[m] = "waiting"
      BY <3>1 DEF OneHome
    <3>4. \A v \in Workers : job[v] # m
      BY <3>1, <3>3 DEF OneHome, TypeOK
    <3>5. Stage(m) = "pending"
      BY <2>a, <3>1, <3>3, <3>4 DEF StageByHome
    <3>6. job'[w] = m /\ phase'[w] = "acquiring"
      BY <3>2 DEF TypeOK
    <3>7. Stage(m)' = "pending"
      BY <2>a, <3>6 DEF StageByHome
    <3>8. \A n \in Messages : n # m => Stage(n)' = Stage(n)
      <4>1. \A n \in Messages \ {m} : status'[n] = status[n] /\ outcome'[n] = outcome[n]
        BY <3>2 DEF TypeOK
      <4>2. \A v \in Workers \ {w} : job'[v] = job[v] /\ phase'[v] = phase[v]
        BY <3>2 DEF TypeOK
      <4>3. QED
        BY <3>1, <3>2, <3>6, <4>1, <4>2, StageFrame
    <3>9. Stage(m)' = Stage(m)
      BY <3>5, <3>6, <3>7
    <3>10. QED
      BY <3>1, <3>8, <3>9, StageStutter
  <2>c. ASSUME NEW w \in Workers, NEW m \in Messages, job[w] = m,
               (Work(w) /\ ~Take(w)) \/ Crash(w)
        PROVE  \A n \in Messages : n # m => Stage(n)' = Stage(n)
    <3> USE DEF Work, Ignore, Acquire, FindTaken, GiveUp, Finish, Complete, Crash, Return, TypeOK
    <3>1. \A n \in Messages \ {m} : status'[n] = status[n] /\ outcome'[n] = outcome[n]
      BY <2>c
    <3>2. \A v \in Workers \ {w} : job'[v] = job[v] /\ phase'[v] = phase[v]
      BY <2>c
    <3>3. job'[w] \in {m, NoJob}
      BY <2>c
    <3>4. QED
      BY SMTT(30), <2>c, <3>1, <3>2, <3>3, StageFrame
  <2>d. ASSUME NEW m \in Messages, Stage(m) = "serving"
        PROVE  \E w \in Workers : job[w] = m /\ phase[w] = "processing"
    <3>1. PICK w \in Workers : job[w] = m
      BY <2>a, <2>d DEF StageByHome
    <3>2. phase[w] \in {"acquiring", "processing", "returned"}
      BY <3>1 DEF TypeOK, Phases
    <3>3. phase[w] = "processing"
      BY <2>a, <2>d, <3>1, <3>2 DEF StageByHome
    <3>4. QED
      BY <3>1, <3>3
  <2>4. ASSUME NEW w \in Workers, Ignore(w) \/ GiveUp(w)
        PROVE  \E m \in Messages : Serial!Refuse(m)
    <3>1. PICK m \in Messages : job[w] = m
      BY <2>4, <2>b DEF Ignore, GiveUp
    <3>2. phase[w] = "acquiring" /\ phase'[w] = "returned" /\ job'[w] = m
          /\ outcome'[m] # "processed"
      BY <2>4, <3>1 DEF Ignore, GiveUp, Return, TypeOK
    <3>3. Stage(m) = "pending" /\ Stage(m)' = "refused"
      BY <2>a, <3>1, <3>2 DEF StageByHome
    <3>4. \A n \in Messages : n # m => Stage(n)' = Stage(n)
      BY <2>4, <2>c, <3>1, <3>2 DEF Work, Ignore, GiveUp, Take
    <3>5. stages' = [stages EXCEPT ![m] = "refused"]
      BY <3>3, <3>4, StageMove
    <3>6. QED
      BY <3>3, <3>5 DEF Serial!Refuse, Serial!Move, stages
  <2>5. ASSUME NEW w \in Workers, Acquire(w)
        PROVE  \E m \in Messages : Serial!Begin(m)
    <3>1. PICK m \in Messages : job[w] = m
      BY <2>5, <2>b DEF Acquire, Polling
    <3>2. phase[w] = "acquiring" /\ phase'[w] = "processing" /\ job'[w] = m
          /\ lock[SessionOf[m]] = Nobody
      BY <2>5, <3>1 DEF Acquire, Polling, Session, TypeOK
    <3>3. Stage(m) = "pending" /\ Stage(m)' = "serving"
      BY <2>a, <3>1, <3>2 DEF StageByHome
    <3>4. \A n \in Messages : n # m => Stage(n)' = Stage(n)
      BY <2>5, <2>c, <3>1, <3>2 DEF Work, Acquire, Take
    <3>5. stages' = [stages EXCEPT ![m] = "serving"]
      BY <3>3, <3>4, StageMove
    <3>6. \A n \in Messages : SessionOf[n] = SessionOf[m] => Stage(n) # "serving"
      BY <2>d, <3>2 DEF LockGuardsWork, Session
    <3>7. QED
      BY <3>3, <3>5, <3>6 DEF Serial!Begin, Serial!Move, stages
  <2>6. ASSUME NEW w \in Workers, FindTaken(w) PROVE stages' = stages
    BY <2>6 DEF FindTaken, Stage, stages
  <2>7. ASSUME NEW w \in Workers, Finish(w)
        PROVE  \E m \in Messages : Serial!Answer(m)
    <3>1. PICK m \in Messages : job[w] = m
      BY <2>7, <2>b DEF Finish
    <3>2. phase[w] = "processing" /\ phase'[w] = "returned" /\ job'[w] = m
          /\ outcome'[m] = "processed"
      BY <2>7, <3>1 DEF Finish, Return, TypeOK
    <3>3. Stage(m) = "serving" /\ Stage(m)' = "answered"
      BY <2>a, <3>1, <3>2 DEF StageByHome
    <3>4. \A n \in Messages : n # m => Stage(n)' = Stage(n)
      BY <2>7, <2>c, <3>1, <3>2 DEF Work, Finish, Take
    <3>5. stages' = [stages EXCEPT ![m] = "answered"]
      BY <3>3, <3>4, StageMove
    <3>6. QED
      BY <3>3, <3>5 DEF Serial!Answer, Serial!Move, stages
  <2>8. ASSUME NEW w \in Workers, Complete(w)
        PROVE  \E m \in Messages : Serial!Settle(m)
    <3>1. PICK m \in Messages : job[w] = m
      BY <2>8, <2>b DEF Complete
    <3>2. phase[w] = "returned" /\ status'[m] = "done" /\ job'[w] = NoJob
          /\ \A v \in Workers : v # w => job'[v] = job[v] /\ job[v] # m
      BY <2>8, <3>1 DEF Complete, TypeOK, OneHome
    <3>3. Stage(m) \in {"answered", "refused"}
      BY <2>a, <3>1, <3>2 DEF StageByHome
    <3>4. Stage(m)' = "settled"
      BY <2>a, <3>1, <3>2 DEF StageByHome
    <3>5. \A n \in Messages : n # m => Stage(n)' = Stage(n)
      BY <2>8, <2>c, <3>1, <3>2 DEF Work, Complete, Take
    <3>6. stages' = [stages EXCEPT ![m] = "settled"]
      BY <3>4, <3>5, StageMove
    <3>7. QED
      BY <3>3, <3>6 DEF Serial!Settle, Serial!Move, stages
  <2>9. ASSUME NEW w \in Workers, Crash(w)
        PROVE  stages' = stages \/ \E m \in Messages : Serial!Redeliver(m)
    <3>1. PICK m \in Messages : job[w] = m
      BY <2>9, <2>b DEF Crash
    <3>2. status'[m] = "stalled" /\ job'[w] = NoJob
          /\ phase[w] \in {"acquiring", "processing", "returned"}
          /\ \A v \in Workers : v # w => job'[v] = job[v] /\ job[v] # m
      BY <2>9, <3>1 DEF Crash, TypeOK, OneHome, Phases
    <3>3. Stage(m) \in {"pending", "serving", "answered", "refused"}
      BY <2>a, <3>1, <3>2 DEF StageByHome
    <3>4. Stage(m)' = "pending"
      BY <2>a, <3>1, <3>2 DEF StageByHome
    <3>5. \A n \in Messages : n # m => Stage(n)' = Stage(n)
      BY <2>9, <2>c, <3>1
    <3>6. stages' = [stages EXCEPT ![m] = "pending"]
      BY <3>4, <3>5, StageMove
    <3>7. CASE Stage(m) = "pending"
      BY <3>4, <3>5, <3>7, StageStutter
    <3>8. CASE Stage(m) # "pending"
      BY <3>3, <3>6, <3>8 DEF Serial!Redeliver, Serial!Move, stages
    <3>9. QED
      BY <3>7, <3>8
  <2>10. ASSUME NEW s \in Sessions, Expire(s) PROVE stages' = stages
    BY <2>10 DEF Expire, Stage, stages
  <2>11. CASE UNCHANGED vars
    BY <2>11 DEF vars, Stage, stages
  <2>12. QED
    BY <2>1, <2>2, <2>3, <2>4, <2>5, <2>6, <2>7, <2>8, <2>9, <2>10, <2>11
       DEF Next, Work, Recover, Serial!Next
<1>4. QED
  <2>1. Serial!Spec <=> Serial!Init /\ [][Serial!Next]_stages
    BY DEF Serial!Spec, stages
  <2>2. QED
    BY <1>1, <1>3, <2>1, TypeCorrect, OneHomeHolds, LockGuardsWorkHolds, PTL
       DEF Spec, ImplementsSerial

-----------------------------------------------------------------------------
\* A lock that is set is the lock of a worker on that conversation: what a
\* death breaks, and neither an expiry nor a release of another's lock does.
Occupied == \A s \in Sessions : lock[s] # Nobody => WorksOn(lock[s], s)

\* A poll that found the lock taken found somebody at work.
Witnessed == \A w \in Workers : attempts[w] > 0 => contended[w]

NobodyDied == crashes = 0 => Occupied /\ Witnessed

\* What GiveUp says of the poll counter, an invariant says of every state.
\* It needs no bound on how long a message takes.
LEMMA NobodyDiedHolds == Spec => []NobodyDied
<1> USE LockAssumption, StatusTypes
<1>1. Init => NobodyDied
  BY DEF Init, NobodyDied, Occupied, Witnessed
<1>2. TypeOK /\ NobodyDied /\ [Next]_vars => NobodyDied'
  <2> SUFFICES ASSUME TypeOK, NobodyDied, [Next]_vars, crashes' = 0
               PROVE  Occupied' /\ Witnessed'
    BY DEF NobodyDied
  <2> USE DEF TypeOK, Occupied, Witnessed, WorksOn, Session, Statuses, Phases
  <2>1. ASSUME crashes = 0, NEW m \in Messages, Receive(m) \/ Recover(m)
        PROVE  Occupied' /\ Witnessed'
    BY <2>1 DEF NobodyDied, Receive, Recover, Requeue, Fail
  <2>2. ASSUME crashes = 0, NEW w \in Workers, Take(w)
        PROVE  Occupied' /\ Witnessed'
    BY <2>2 DEF NobodyDied, Take
  <2>3. ASSUME crashes = 0, NEW w \in Workers, Ignore(w) \/ GiveUp(w)
        PROVE  Occupied' /\ Witnessed'
    BY <2>3 DEF NobodyDied, Ignore, GiveUp, Return
  <2>4. ASSUME crashes = 0, NEW w \in Workers, Acquire(w)
        PROVE  Occupied' /\ Witnessed'
    BY <2>4 DEF NobodyDied, Acquire, Polling
  <2>5. ASSUME crashes = 0, NEW w \in Workers, FindTaken(w)
        PROVE  Occupied' /\ Witnessed'
    <3>1. Session(w) \in Sessions /\ lock[Session(w)] \in Workers
      BY <2>5 DEF FindTaken, Polling
    <3>2. WorksOn(lock[Session(w)], Session(w))
      BY <2>5, <3>1 DEF NobodyDied, FindTaken
    <3>3. contended'[w]
      BY <2>5, <3>1, <3>2 DEF FindTaken
    <3>4. Witnessed'
      BY <2>5, <3>3 DEF NobodyDied, FindTaken
    <3>5. Occupied'
      BY <2>5 DEF NobodyDied, FindTaken
    <3>6. QED
      BY <3>4, <3>5
  <2>6. ASSUME crashes = 0, NEW w \in Workers, Finish(w)
        PROVE  Occupied' /\ Witnessed'
    BY <2>6 DEF NobodyDied, Finish, Return
  <2>7. ASSUME crashes = 0, NEW w \in Workers, Complete(w)
        PROVE  Occupied' /\ Witnessed'
    BY <2>7 DEF NobodyDied, Complete
  <2>8. ASSUME NEW w \in Workers, Crash(w)
        PROVE  FALSE
    BY <2>8 DEF Crash
  <2>9. ASSUME crashes = 0, NEW s \in Sessions, Expire(s)
        PROVE  Occupied' /\ Witnessed'
    BY <2>9 DEF NobodyDied, Expire
  <2>10. CASE UNCHANGED vars
    BY <2>10 DEF NobodyDied, vars
  <2>11. crashes = 0 \/ (\E w \in Workers : Crash(w))
    BY DEF Next, Work, Recover, vars, Receive, Requeue, Fail, Take, Ignore, Acquire,
       FindTaken, GiveUp, Finish, Complete, Expire
  <2>12. QED
    BY <2>1, <2>2, <2>3, <2>4, <2>5, <2>6, <2>7, <2>8, <2>9, <2>10, <2>11
    DEF Next, Work
<1>3. QED
  BY <1>1, <1>2, TypeCorrect, PTL DEF Spec

\* While no replica has died, a message is dropped only behind a worker that
\* was really on its conversation, however long messages take.
THEOREM DropHolds == Spec => DropOnlyBehindLiveHolder
<1>1. TypeOK /\ NobodyDied /\ [Next]_vars
        => [\A w \in Workers : GiveUp(w) /\ crashes = 0 => contended[w]]_vars
  <2> SUFFICES ASSUME TypeOK, NobodyDied, NEW w \in Workers, GiveUp(w), crashes = 0
               PROVE  contended[w]
    OBVIOUS
  <2>1. attempts[w] > 0
    BY LockAssumption DEF TypeOK, GiveUp
  <2>2. QED
    BY <2>1 DEF NobodyDied, Witnessed
<1>2. QED
  BY <1>1, TypeCorrect, NobodyDiedHolds, PTL DEF Spec, DropOnlyBehindLiveHolder
=============================================================================
