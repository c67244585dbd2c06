------------------------- MODULE ContactRowProofs -------------------------
(***************************************************************************)
(* Theorems about ContactRow, for any number of instances, metadata keys,  *)
(* overlapping requests, messages and writes.                              *)
(***************************************************************************)
EXTENDS ContactRow, TLAPS

(* Types *)

LEMMA NoCopyTyped == NoCopy \in Copy
BY DEF NoCopy, Copy

LEMMA InitTyped == Init => TypeOK
<1> SUFFICES ASSUME Init PROVE TypeOK
  OBVIOUS
<1> USE ContactAssumption, NoCopyTyped
<1>1. 0 \in 0 .. MaxWrites /\ 0 \in 0 .. MaxMessages /\ 0 \in 0 .. MaxRequests
  OBVIOUS
<1>2. \A i \in Instances : session[i] \in Nat \cup {None}
  BY DEF Init
<1>3. work \in [Instances -> [phase : {"idle", "missing", "found", "working", "ended", "dropped"},
                              copy : Copy]]
  BY DEF Init, NoWork
<1>4. request \in [Admins -> [phase : {"idle", "update", "delete", "reset", "remove"}, copy : Copy]]
  BY DEF Init, NoRequest
<1> QED
  BY <1>1, <1>2, <1>3, <1>4 DEF Init, TypeOK

\* What a row written by NewRow or Update looks like.
LEMMA NewRowShape ==
  ASSUME TypeOK, NEW x, NEW home \in Instances \cup {None}, NewRow(x, home)
  PROVE  /\ row' \in Copy /\ row' # None /\ row'.id = ids + 1 /\ row'.home = home
         /\ ids' = ids + 1 /\ raced' = raced \cup (Active \ {x})
         /\ \A f \in Fields : row'.value[f] = 0
<1> USE ContactAssumption
<1>1. row' = [id |-> ids + 1, value |-> [f \in Fields |-> 0], home |-> home]
  BY DEF NewRow, NoCopy
<1>2. ids + 1 \in Nat /\ [f \in Fields |-> 0] \in [Fields -> Nat]
  BY DEF TypeOK
<1>3. row' \in Copy
  BY <1>1, <1>2 DEF Copy
<1>4. ids' = ids + 1 /\ raced' = raced \cup (Active \ {x})
  BY DEF NewRow
<1>5. row' # None
  BY <1>3
<1> QED
  BY <1>1, <1>3, <1>4, <1>5

LEMMA UpdateShape ==
  ASSUME TypeOK, NEW x \in Actors, NEW copy \in Copy, NEW F \in SUBSET Fields,
         Update(x, copy, F)
  PROVE  /\ row # None /\ row \in Copy /\ row.id = copy.id
         /\ row' \in Copy /\ row' # None /\ row'.id = row.id /\ row'.home = row.home
         /\ writes' = writes + 1 /\ writes' \in 0 .. MaxWrites
         /\ stale' \in [Actors -> SUBSET Fields]
         /\ stale'[x] = stale[x] \ Written(F)
         /\ \A y \in Actors \ {x} : stale'[y] = stale[y] \cup Written(F)
         /\ \A f \in F : row'.value[f] = writes + 1
         /\ \A f \in Written(F) \ F : row'.value[f] = copy.value[f]
         /\ \A f \in Fields \ Written(F) : row'.value[f] = row.value[f]
         /\ F \subseteq Written(F) /\ Written(F) \subseteq Fields
<1> USE ContactAssumption
<1>1. row # None /\ row \in Copy /\ row.id = copy.id
  BY DEF Update, Is, TypeOK
<1>2. F \subseteq Written(F) /\ Written(F) \subseteq Fields
  BY DEF Written, Fields
<1> DEFINE new == [f \in Fields |-> IF f \in F THEN writes + 1
                                    ELSE IF f \in Written(F) THEN copy.value[f]
                                    ELSE row.value[f]]
<1>3. new \in [Fields -> Nat]
  BY <1>1 DEF Copy, TypeOK
<1>4. /\ \A f \in F : new[f] = writes + 1
      /\ \A f \in Written(F) \ F : new[f] = copy.value[f]
      /\ \A f \in Fields \ Written(F) : new[f] = row.value[f]
  BY <1>2
<1>5. row' = [row EXCEPT !.value = new]
  BY DEF Update, Updated
<1> HIDE DEF new
<1>6. row' \in Copy /\ row'.id = row.id /\ row'.home = row.home /\ row'.value = new
  BY <1>1, <1>3, <1>5 DEF Copy
<1>7. writes' = writes + 1 /\ writes' \in 0 .. MaxWrites
  BY DEF Update, TypeOK
<1>8. /\ stale' \in [Actors -> SUBSET Fields]
      /\ stale'[x] = stale[x] \ Written(F)
      /\ \A y \in Actors \ {x} : stale'[y] = stale[y] \cup Written(F)
  BY <1>2 DEF Update, Outdate, TypeOK
<1> QED
  BY <1>1, <1>2, <1>4, <1>6, <1>7, <1>8

\* Writing one field of a copy.
LEMMA SavedCopy ==
  ASSUME NEW copy \in Copy, NEW f \in Fields, NEW v \in Nat,
         NEW new, new = [copy EXCEPT !.value[f] = v]
  PROVE  /\ new \in Copy /\ new.id = copy.id /\ new.home = copy.home
         /\ new.value[f] = v
         /\ \A g \in Fields \ {f} : new.value[g] = copy.value[g]
BY DEF Copy

Task == [phase : {"idle", "missing", "found", "working", "ended", "dropped"}, copy : Copy]
Ask == [phase : {"idle", "update", "delete", "reset", "remove"}, copy : Copy]

LEMMA TypeParts ==
  TypeOK <=> /\ row \in Copy \cup {None}
             /\ session \in [Instances -> Nat \cup {None}]
             /\ work \in [Instances -> Task]
             /\ request \in [Admins -> Ask]
             /\ ids \in Nat /\ writes \in 0 .. MaxWrites
             /\ messages \in 0 .. MaxMessages /\ requests \in 0 .. MaxRequests
             /\ stale \in [Actors -> SUBSET Fields]
             /\ raced \subseteq Actors
             /\ leftover \subseteq Instances
BY DEF TypeOK, Task, Ask

\* A message steps: its phase and its copy stay what they may be.
LEMMA WorkTyped ==
  ASSUME TypeOK, NEW i \in Instances, NEW t \in Task, work' = [work EXCEPT ![i] = t]
  PROVE  /\ work' \in [Instances -> Task] /\ work'[i] = t
         /\ \A j \in Instances \ {i} : work'[j] = work[j]
BY TypeParts

LEMMA RequestTyped ==
  ASSUME TypeOK, NEW a \in Admins, NEW q \in Ask, request' = [request EXCEPT ![a] = q]
  PROVE  /\ request' \in [Admins -> Ask] /\ request'[a] = q
         /\ \A b \in Admins \ {a} : request'[b] = request[b]
BY TypeParts

LEMMA WorkPhase ==
  ASSUME TypeOK, NEW i \in Instances, NEW p,
         p \in {"idle", "missing", "found", "working", "ended", "dropped"},
         work' = [work EXCEPT ![i].phase = p]
  PROVE  /\ work' \in [Instances -> Task]
         /\ work'[i].phase = p /\ work'[i].copy = work[i].copy
         /\ \A j \in Instances \ {i} : work'[j] = work[j]
<1> DEFINE t == [work[i] EXCEPT !.phase = p]
<1>1. work[i] \in Task
  BY TypeParts
<1>2. t \in Task /\ t.phase = p /\ t.copy = work[i].copy
  BY <1>1 DEF Task
<1>3. work' = [work EXCEPT ![i] = t]
  OBVIOUS
<1> HIDE DEF t
<1> QED
  BY <1>2, <1>3, WorkTyped

\* The actions of a message, field by field.
LEMMA FindShape ==
  ASSUME TypeOK, NEW i \in Instances, Find(i)
  PROVE  /\ work' \in [Instances -> Task]
         /\ row = None => work'[i] = [phase |-> "missing", copy |-> NoCopy]
         /\ row # None => work'[i] = [phase |-> "found", copy |-> row]
         /\ \A j \in Instances \ {i} : work'[j] = work[j]
         /\ stale' \in [Actors -> SUBSET Fields] /\ stale'[i] = {}
         /\ \A x \in Actors \ {i} : stale'[x] = stale[x]
<1> DEFINE t == IF row = None THEN [NoWork EXCEPT !.phase = "missing"]
                ELSE [phase |-> "found", copy |-> row]
<1>1. row = None => t = [phase |-> "missing", copy |-> NoCopy]
  BY DEF NoWork
<1>2. t \in Task
  BY <1>1, NoCopyTyped, TypeParts DEF Task
<1>3. work' = [work EXCEPT ![i] = t]
  BY DEF Find
<1>4. row # None => t = [phase |-> "found", copy |-> row]
  OBVIOUS
<1>5. /\ stale' \in [Actors -> SUBSET Fields] /\ stale'[i] = {}
      /\ \A x \in Actors \ {i} : stale'[x] = stale[x]
  BY TypeParts DEF Find, Actors
<1> HIDE DEF t
<1> QED
  BY <1>1, <1>2, <1>3, <1>4, <1>5, WorkTyped

LEMMA CreateShape ==
  ASSUME TypeOK, NEW i \in Instances, CreateContact(i)
  PROVE  /\ row = None /\ row' \in Copy /\ row' # None /\ row'.id = ids + 1
         /\ ids' = ids + 1 /\ raced' = raced \cup (Active \ {i})
         /\ \A f \in Fields : row'.value[f] = 0
         /\ work' \in [Instances -> Task]
         /\ work'[i] = [phase |-> "found", copy |-> row']
         /\ \A j \in Instances \ {i} : work'[j] = work[j]
         /\ stale' \in [Actors -> SUBSET Fields] /\ stale'[i] = {}
         /\ \A x \in Actors \ {i} : stale'[x] = stale[x]
<1>1. NewRow(i, i) /\ row = None
  BY DEF CreateContact
<1>2. /\ row' \in Copy /\ row' # None /\ row'.id = ids + 1
      /\ ids' = ids + 1 /\ raced' = raced \cup (Active \ {i})
      /\ \A f \in Fields : row'.value[f] = 0
  BY <1>1, NewRowShape
<1> DEFINE t == [phase |-> "found", copy |-> row']
<1>3. t \in Task
  BY <1>2 DEF Task
<1>4. work' = [work EXCEPT ![i] = t]
  BY DEF CreateContact
<1>5. /\ stale' \in [Actors -> SUBSET Fields] /\ stale'[i] = {}
      /\ \A x \in Actors \ {i} : stale'[x] = stale[x]
  BY TypeParts DEF CreateContact, Actors
<1>6. /\ work' \in [Instances -> Task] /\ work'[i] = t
      /\ \A j \in Instances \ {i} : work'[j] = work[j]
  BY <1>3, <1>4, WorkTyped
<1> QED
  BY <1>1, <1>2, <1>5, <1>6

LEMMA SaveShape ==
  ASSUME TypeOK, NEW i \in Instances, NEW f \in Fields, Save(i, f)
  PROVE  /\ Update(i, work[i].copy, {f}) /\ work[i].copy \in Copy
         /\ work[i].phase = "working"
         /\ work' \in [Instances -> Task]
         /\ work'[i].phase = "working" /\ work'[i].copy.id = work[i].copy.id
         /\ work'[i].copy.value[f] = writes + 1
         /\ \A g \in Fields \ {f} : work'[i].copy.value[g] = work[i].copy.value[g]
         /\ \A j \in Instances \ {i} : work'[j] = work[j]
<1> DEFINE c == [work[i].copy EXCEPT !.value[f] = writes + 1]
           t == [work[i] EXCEPT !.copy = c]
<1>1. work[i] \in Task /\ work[i].copy \in Copy /\ writes + 1 \in Nat
  BY TypeParts DEF Task
<1>2. /\ c \in Copy /\ c.id = work[i].copy.id
      /\ c.value[f] = writes + 1
      /\ \A g \in Fields \ {f} : c.value[g] = work[i].copy.value[g]
  BY <1>1, SavedCopy
<1>3. work' = [work EXCEPT ![i] = t]
  BY DEF Save
<1> HIDE DEF c
<1>4. t \in Task /\ t.phase = work[i].phase /\ t.copy = c
  BY <1>1, <1>2 DEF Task
<1> HIDE DEF t
<1>5. /\ work' \in [Instances -> Task] /\ work'[i] = t
      /\ \A j \in Instances \ {i} : work'[j] = work[j]
  BY <1>3, <1>4, WorkTyped
<1> QED
  BY <1>1, <1>2, <1>4, <1>5 DEF Save

\* Steps of a message that only move it on: the message, its copy and nothing else.
Proceeds(i) ==
  /\ work[i].phase # "idle"
  /\ \/ /\ work'[i].phase = "dropped" /\ work'[i].copy = work[i].copy
        /\ \/ work[i].phase = "missing" /\ row # None
           \/ work[i].phase \in {"found", "working"} /\ ~Is(work[i].copy)
     \/ /\ work'[i].phase = "working" /\ work'[i].copy = work[i].copy
        /\ work[i].phase = "found" /\ Is(work[i].copy)
     \/ work'[i] = NoWork
  /\ UNCHANGED <<row, session, request, ids, writes, messages, requests, stale, raced, leftover>>

LEMMA ProceedShape ==
  ASSUME TypeOK, NEW i \in Instances,
         CreateRefused(i) \/ KeepMessage(i) \/ SaveRefused(i) \/ Done(i)
  PROVE  /\ Proceeds(i)
         /\ work' \in [Instances -> Task]
         /\ \A j \in Instances \ {i} : work'[j] = work[j]
<1>1. CASE CreateRefused(i)
  <2>1. work' = [work EXCEPT ![i].phase = "dropped"]
    BY <1>1 DEF CreateRefused
  <2> QED
    BY <1>1, <2>1, WorkPhase DEF CreateRefused, Proceeds
<1>2. CASE KeepMessage(i)
  <2>1. PICK p \in {"working", "dropped"} :
          /\ work' = [work EXCEPT ![i].phase = p]
          /\ p = "working" <=> Is(work[i].copy)
    BY <1>2 DEF KeepMessage
  <2>2. work'[i].phase = p /\ work'[i].copy = work[i].copy
        /\ work' \in [Instances -> Task] /\ \A j \in Instances \ {i} : work'[j] = work[j]
    BY <2>1, WorkPhase
  <2> QED
    BY <1>2, <2>1, <2>2 DEF KeepMessage, Proceeds
<1>3. CASE SaveRefused(i)
  <2>1. work' = [work EXCEPT ![i].phase = "dropped"]
    BY <1>3 DEF SaveRefused
  <2> QED
    BY <1>3, <2>1, WorkPhase DEF SaveRefused, Proceeds
<1>4. CASE Done(i)
  <2>1. NoWork \in Task
    BY NoCopyTyped DEF NoWork, Task
  <2>2. work' = [work EXCEPT ![i] = NoWork]
    BY <1>4 DEF Done
  <2>3. /\ work' \in [Instances -> Task] /\ work'[i] = NoWork
        /\ \A j \in Instances \ {i} : work'[j] = work[j]
    BY <2>1, <2>2, WorkTyped
  <2> QED
    BY <1>4, <2>3 DEF Done, Proceeds
<1> QED
  BY <1>1, <1>2, <1>3, <1>4

LEMMA EndStepShape ==
  ASSUME TypeOK, NEW i \in Instances, NEW k \in Keys, EndStep(i, k)
  PROVE  /\ Update(i, work[i].copy, {k}) /\ work[i].copy \in Copy
         /\ work[i].phase = "working"
         /\ work' \in [Instances -> Task]
         /\ work'[i].phase = "ended" /\ work'[i].copy = work[i].copy
         /\ \A j \in Instances \ {i} : work'[j] = work[j]
<1>1. work[i].copy \in Copy
  BY TypeParts DEF Task
<1>2. work' = [work EXCEPT ![i].phase = "ended"]
  BY DEF EndStep
<1> QED
  BY <1>1, <1>2, WorkPhase DEF EndStep

\* The actions of a request.
LEMMA NoRequestTyped == NoRequest \in Ask /\ NoRequest.phase = "idle" /\ NoRequest.copy = NoCopy
BY NoCopyTyped DEF NoRequest, Ask

LEMMA ReadShape ==
  ASSUME TypeOK, NEW a \in Admins, NEW op \in {"update", "delete", "reset"}, ReadUser(a, op)
  PROVE  /\ row # None /\ row \in Copy
         /\ request' \in [Admins -> Ask] /\ request'[a] = [phase |-> op, copy |-> row]
         /\ \A b \in Admins \ {a} : request'[b] = request[b]
         /\ stale' \in [Actors -> SUBSET Fields] /\ stale'[a] = {}
         /\ \A x \in Actors \ {a} : stale'[x] = stale[x]
<1>1. row # None /\ row \in Copy
  BY TypeParts DEF ReadUser
<1>2. [phase |-> op, copy |-> row] \in Ask
  BY <1>1 DEF Ask
<1>3. request' = [request EXCEPT ![a] = [phase |-> op, copy |-> row]]
  BY DEF ReadUser
<1>4. /\ stale' \in [Actors -> SUBSET Fields] /\ stale'[a] = {}
      /\ \A x \in Actors \ {a} : stale'[x] = stale[x]
  BY TypeParts DEF ReadUser, Actors
<1> QED
  BY <1>1, <1>2, <1>3, <1>4, RequestTyped

LEMMA UpdateUserShape ==
  ASSUME TypeOK, NEW a \in Admins, NEW F \in SUBSET Fields, UpdateUser(a, F)
  PROVE  /\ Update(a, request[a].copy, F) /\ request[a].copy \in Copy
         /\ request[a].phase = "update"
         /\ request' \in [Admins -> Ask] /\ request'[a] = NoRequest
         /\ \A b \in Admins \ {a} : request'[b] = request[b]
<1>1. request[a].copy \in Copy
  BY TypeParts DEF Ask
<1>2. request' = [request EXCEPT ![a] = NoRequest]
  BY DEF UpdateUser
<1> QED
  BY <1>1, <1>2, NoRequestTyped, RequestTyped DEF UpdateUser

LEMMA ForgetShape ==
  ASSUME TypeOK, NEW a \in Admins, ForgetSession(a)
  PROVE  /\ request[a].copy.home \in Instances \cup {None}
         /\ session' \in [Instances -> Nat \cup {None}]
         /\ \A i \in Instances : session'[i] = IF i = request[a].copy.home THEN None ELSE session[i]
         /\ request' \in [Admins -> Ask]
         /\ request[a].phase # "idle"
         /\ \/ request'[a] = NoRequest /\ leftover' = leftover
            \/ /\ request'[a].phase = "remove" /\ request'[a].copy = request[a].copy
               /\ leftover' = leftover \cup {i \in Instances : \/ i # request[a].copy.home
                                                              \/ work[i].phase # "idle"}
         /\ \A b \in Admins \ {a} : request'[b] = request[b]
<1> USE ContactAssumption
<1>1. request[a] \in Ask /\ request[a].copy.home \in Instances \cup {None}
  BY TypeParts DEF Ask, Copy
<1>2. /\ session' \in [Instances -> Nat \cup {None}]
      /\ \A i \in Instances : session'[i] = IF i = request[a].copy.home THEN None ELSE session[i]
  BY <1>1, TypeParts DEF ForgetSession
<1>3. CASE request[a].phase = "reset" /\ request' = [request EXCEPT ![a] = NoRequest]
                                      /\ UNCHANGED leftover
  BY <1>1, <1>2, <1>3, NoRequestTyped, RequestTyped
<1>4. CASE /\ request[a].phase = "delete" /\ request' = [request EXCEPT ![a].phase = "remove"]
           /\ leftover' = leftover \cup {i \in Instances : \/ i # request[a].copy.home
                                                          \/ work[i].phase # "idle"}
  <2> DEFINE q == [request[a] EXCEPT !.phase = "remove"]
  <2>1. q \in Ask /\ q.phase = "remove" /\ q.copy = request[a].copy
    BY <1>1 DEF Ask
  <2>2. request' = [request EXCEPT ![a] = q]
    BY <1>4
  <2> HIDE DEF q
  <2>3. /\ request' \in [Admins -> Ask] /\ request'[a] = q
        /\ \A b \in Admins \ {a} : request'[b] = request[b]
    BY <2>1, <2>2, RequestTyped
  <2> QED
    BY <1>1, <1>2, <1>4, <2>1, <2>3
<1> QED
  BY <1>3, <1>4 DEF ForgetSession

\* A request that answers without touching the row, or after deleting it.
LEMMA AnswerShape ==
  ASSUME TypeOK, NEW a \in Admins, DeleteUser(a) \/ RequestRefused(a)
  PROVE  /\ request' \in [Admins -> Ask] /\ request'[a] = NoRequest
         /\ \A b \in Admins \ {a} : request'[b] = request[b]
         /\ request[a].phase # "idle"
BY NoRequestTyped, RequestTyped DEF DeleteUser, RequestRefused

LEMMA MessageTyped == ASSUME TypeOK, NEW i \in Instances, Message(i) PROVE TypeOK'
<1> USE ContactAssumption
<1>1. ASSUME Find(i) PROVE TypeOK'
  <2>1. messages' \in 0 .. MaxMessages /\ raced' \subseteq Actors /\ leftover' \subseteq Instances
    BY <1>1, TypeParts DEF Find
  <2> QED
    BY <1>1, <2>1, FindShape, TypeParts DEF Find, TypeOK, Task, Ask
<1>2. ASSUME CreateContact(i) PROVE TypeOK'
  <2>1. raced' \subseteq Actors
    BY <1>2, CreateShape, TypeParts DEF Active, Actors
  <2>2. UNCHANGED <<session, request, writes, messages, requests, leftover>>
    BY <1>2 DEF CreateContact
  <2>3. row' \in Copy /\ ids' = ids + 1 /\ stale' \in [Actors -> SUBSET Fields]
        /\ work' \in [Instances -> Task]
    BY <1>2, CreateShape
  <2> QED
    BY <2>1, <2>2, <2>3 DEF TypeOK, Task, Ask
<1>3. ASSUME CreateRefused(i) \/ KeepMessage(i) \/ SaveRefused(i) \/ Done(i) PROVE TypeOK'
  BY <1>3, ProceedShape, TypeParts DEF Proceeds, TypeOK, Task, Ask
<1>4. ASSUME SetStep(i) PROVE TypeOK'
  <2>1. session' \in [Instances -> Nat \cup {None}]
    BY <1>4, TypeParts DEF SetStep, Task, Copy
  <2> QED
    BY <1>4, <2>1, TypeParts DEF SetStep, TypeOK, Task, Ask
<1>5. ASSUME ClearStep(i) PROVE TypeOK'
  <2>1. session' \in [Instances -> Nat \cup {None}]
    BY <1>5, TypeParts DEF ClearStep
  <2> QED
    BY <1>5, <2>1, TypeParts DEF ClearStep, TypeOK, Task, Ask
<1>6. ASSUME NEW f \in Fields, Save(i, f) PROVE TypeOK'
  <2>1. Update(i, work[i].copy, {f}) /\ work[i].copy \in Copy /\ work' \in [Instances -> Task]
    BY <1>6, SaveShape
  <2>2. row' \in Copy /\ writes' \in 0 .. MaxWrites /\ stale' \in [Actors -> SUBSET Fields]
    BY <2>1, UpdateShape, {f} \in SUBSET Fields DEF Actors
  <2> QED
    BY <1>6, <2>1, <2>2, TypeParts DEF Save, TypeOK, Task, Ask
<1>7. ASSUME NEW k \in Keys, EndStep(i, k) PROVE TypeOK'
  <2>1. Update(i, work[i].copy, {k}) /\ work[i].copy \in Copy /\ work' \in [Instances -> Task]
    BY <1>7, EndStepShape
  <2>2. row' \in Copy /\ writes' \in 0 .. MaxWrites /\ stale' \in [Actors -> SUBSET Fields]
    BY <2>1, UpdateShape, {k} \in SUBSET Fields DEF Actors, Fields
  <2> QED
    BY <1>7, <2>1, <2>2, TypeParts DEF EndStep, TypeOK, Task, Ask
<1> QED
  BY <1>1, <1>2, <1>3, <1>4, <1>5, <1>6, <1>7 DEF Message

LEMMA RequestStepTyped == ASSUME TypeOK, NEW a \in Admins, Request(a) PROVE TypeOK'
<1> USE ContactAssumption
<1>a. ASSUME Asking(a) PROVE requests' \in 0 .. MaxRequests
  BY <1>a, TypeParts DEF Asking
<1>1. ASSUME CreateUser(a) PROVE TypeOK'
  <2>1. row' \in Copy /\ ids' = ids + 1 /\ raced' = raced \cup (Active \ {a})
    BY <1>1, NewRowShape DEF CreateUser
  <2>2. raced' \subseteq Actors
    BY <2>1, TypeParts DEF Active, Actors
  <2> QED
    BY <1>1, <1>a, <2>1, <2>2, TypeParts DEF CreateUser, TypeOK, Task, Ask
<1>2. ASSUME ForgetSession(a) PROVE TypeOK'
  <2>1. leftover' \subseteq Instances
    BY <1>2, ForgetShape, TypeParts
  <2> QED
    BY <1>2, <2>1, ForgetShape, TypeParts DEF ForgetSession, TypeOK, Task, Ask
<1>3. ASSUME DeleteUser(a) PROVE TypeOK'
  <2>1. raced' \subseteq Actors
    BY <1>3, TypeParts DEF DeleteUser, Active, Actors
  <2> QED
    BY <1>3, <2>1, AnswerShape, TypeParts DEF DeleteUser, TypeOK, Task, Ask
<1>4. ASSUME RequestRefused(a) PROVE TypeOK'
  BY <1>4, AnswerShape, TypeParts DEF RequestRefused, TypeOK, Task, Ask
<1>5. ASSUME NEW op \in {"update", "delete", "reset"}, ReadUser(a, op) PROVE TypeOK'
  <2>1. raced' \subseteq Actors
    BY <1>5, TypeParts DEF ReadUser
  <2> QED
    BY <1>5, <1>a, <2>1, ReadShape, TypeParts DEF ReadUser, TypeOK, Task, Ask
<1>6. ASSUME NEW F \in SUBSET Fields \ {{}}, UpdateUser(a, F) PROVE TypeOK'
  <2>1. /\ Update(a, request[a].copy, F) /\ request[a].copy \in Copy
        /\ request' \in [Admins -> Ask]
    BY <1>6, UpdateUserShape
  <2>2. row' \in Copy /\ writes' \in 0 .. MaxWrites /\ stale' \in [Actors -> SUBSET Fields]
    BY <2>1, UpdateShape DEF Actors
  <2> QED
    BY <1>6, <2>1, <2>2, TypeParts DEF UpdateUser, TypeOK, Task, Ask
<1> QED
  BY <1>1, <1>2, <1>3, <1>4, <1>5, <1>6 DEF Request

LEMMA StepTyped == TypeOK /\ [Next]_vars => TypeOK'
<1>1. ASSUME TypeOK, UNCHANGED vars PROVE TypeOK'
  BY <1>1 DEF TypeOK, vars
<1> QED
  BY <1>1, MessageTyped, RequestStepTyped DEF Next

\* Types: in particular every copy an actor holds of the contact is one a row
\* can have had, and the bounds on messages, requests and writes are kept.
THEOREM TypeCorrect == Spec => []TypeOK
<1> QED
  BY InitTyped, StepTyped, PTL DEF Spec

-----------------------------------------------------------------------------
(* The inductive invariants *)

\* An id is given to one row only: no copy is newer than the newest row.
IdsGrow ==
  /\ row # None => row.id <= ids
  /\ \A i \in Instances : work[i].copy.id <= ids
  /\ \A a \in Admins : request[a].copy.id <= ids

\* A value is a write that happened.
ValuesGrow ==
  /\ row # None => \A f \in Fields : row.value[f] <= writes
  /\ \A i \in Instances, f \in Fields : work[i].copy.value[f] <= writes
  /\ \A a \in Admins, f \in Fields : request[a].copy.value[f] <= writes

\* What CopyIsRow says of messages, of requests.
RequestCopyIsRow ==
  \A a \in Admins :
    request[a].phase # "idle" /\ Is(request[a].copy) =>
      \A f \in Fields \ stale[a] : request[a].copy.value[f] = row.value[f]

Copies == IdsGrow /\ CopyIsRow /\ RequestCopyIsRow

\* A message that is going to be dropped had its contact created or deleted.
RacedBefore ==
  \A i \in Instances :
    /\ work[i].phase = "missing" /\ row # None => i \in raced
    /\ work[i].phase \in {"found", "working"} /\ ~Is(work[i].copy) => i \in raced

\* A message about a deleted contact was caught by no deletion, and from the
\* moment the session is forgotten to the deletion of the row nothing but
\* what is left over knows the contact.
LeftBehind ==
  /\ \A i \in Instances :
       work[i].phase \in {"found", "working"} /\ ~Is(work[i].copy) => i \in leftover
  /\ \A a \in Admins : request[a].phase = "remove" /\ Is(request[a].copy) =>
       \A i \in Instances \ leftover : session[i] = None /\ work[i].phase = "idle"

-----------------------------------------------------------------------------
(* Copies *)

LEMMA CopiesTyped ==
  ASSUME TypeOK
  PROVE  /\ \A i \in Instances : work[i].copy \in Copy
         /\ \A a \in Admins : request[a].copy \in Copy
         /\ row # None => row \in Copy /\ row.id \in Nat
         /\ \A c \in Copy : c.id \in Nat /\ \A f \in Fields : c.value[f] \in Nat
         /\ NoCopy.id = 0 /\ \A f \in Fields : NoCopy.value[f] = 0
         /\ ids \in Nat /\ writes \in Nat
<1>1. \A c \in Copy : c.id \in Nat /\ \A f \in Fields : c.value[f] \in Nat
  BY DEF Copy
<1>2. NoCopy.id = 0 /\ \A f \in Fields : NoCopy.value[f] = 0
  BY DEF NoCopy
<1> QED
  BY <1>1, <1>2, ContactAssumption, TypeParts DEF Task, Ask

\* A copy holds what the row holds, except in the fields that went stale.
Agree(copy, r, s) ==
  r # None /\ r.id = copy.id => \A f \in Fields \ s : copy.value[f] = r.value[f]

LEMMA AgreeParts ==
  /\ CopyIsRow <=> \A i \in Instances : work[i].phase \in {"found", "working"} =>
                     Agree(work[i].copy, row, stale[i])
  /\ RequestCopyIsRow <=> \A a \in Admins : request[a].phase # "idle" =>
                            Agree(request[a].copy, row, stale[a])
BY DEF CopyIsRow, RequestCopyIsRow, Agree, Is

\* Somebody else writes: what it wrote is stale now.
LEMMA OthersAgree ==
  ASSUME TypeOK, NEW x \in Actors, NEW copy \in Copy, NEW F \in SUBSET Fields,
         Update(x, copy, F), NEW y \in Actors \ {x}, NEW c \in Copy, Agree(c, row, stale[y])
  PROVE  Agree(c, row', stale'[y])
<1>1. /\ row # None /\ row'.id = row.id
      /\ stale'[y] = stale[y] \cup Written(F)
      /\ \A f \in Fields \ Written(F) : row'.value[f] = row.value[f]
  BY UpdateShape
<1> QED
  BY <1>1 DEF Agree

\* A writer that keeps its copy up to date.
LEMMA OwnAgrees ==
  ASSUME TypeOK, NEW x \in Actors, NEW copy \in Copy, NEW f \in Fields,
         Update(x, copy, {f}), Agree(copy, row, stale[x]),
         NEW c, c.id = copy.id, c.value[f] = writes + 1,
         \A g \in Fields \ {f} : c.value[g] = copy.value[g]
  PROVE  Agree(c, row', stale'[x])
<1> DEFINE F == {f}
<1>0. F \in SUBSET Fields /\ f \in F /\ Update(x, copy, F) /\ \A g : g # f => g \notin F
  OBVIOUS
<1> HIDE DEF F
<1>1. /\ row # None /\ row.id = copy.id
      /\ stale'[x] = stale[x] \ Written(F)
      /\ row'.value[f] = writes + 1
      /\ \A g \in Written(F) \ F : row'.value[g] = copy.value[g]
      /\ \A g \in Fields \ Written(F) : row'.value[g] = row.value[g]
  BY <1>0, UpdateShape
<1> SUFFICES ASSUME NEW g \in Fields \ stale'[x] PROVE c.value[g] = row'.value[g]
  BY DEF Agree
<1>2. CASE g = f
  BY <1>0, <1>1, <1>2
<1>3. CASE g # f /\ g \in Written(F)
  BY <1>0, <1>1, <1>3
<1>4. CASE g # f /\ g \notin Written(F)
  BY <1>1, <1>4 DEF Agree
<1> QED
  BY <1>2, <1>3, <1>4

LEMMA MessageKeepsCopies ==
  ASSUME TypeOK, Copies, NEW i \in Instances, Message(i)
  PROVE  Copies'
<1> USE ContactAssumption, CopiesTyped
<1>i. IdsGrow /\ CopyIsRow /\ RequestCopyIsRow
  BY DEF Copies
<1>a. /\ \A j \in Instances : work[j].copy.id <= ids
      /\ \A a \in Admins : request[a].copy.id <= ids
      /\ row # None => row.id <= ids
      /\ \A j \in Instances : work[j].phase \in {"found", "working"} =>
           Agree(work[j].copy, row, stale[j])
      /\ \A a \in Admins : request[a].phase # "idle" => Agree(request[a].copy, row, stale[a])
  BY <1>i, AgreeParts DEF IdsGrow
<1>p. ASSUME /\ \A j \in Instances : work'[j].copy.id <= ids'
             /\ \A a \in Admins : request'[a].copy.id <= ids'
             /\ row' # None => row'.id <= ids'
             /\ \A j \in Instances : work'[j].phase \in {"found", "working"} =>
                  Agree(work'[j].copy, row', stale'[j])
             /\ \A a \in Admins : request'[a].phase # "idle" =>
                  Agree(request'[a].copy, row', stale'[a])
      PROVE  Copies'
  BY <1>p DEF Copies, IdsGrow, CopyIsRow, RequestCopyIsRow, Agree, Is
<1>d. Instances \subseteq Actors /\ Admins \subseteq Actors /\ i \notin Admins
  BY DEF Actors
<1>1. ASSUME Find(i) PROVE Copies'
  <2>1. UNCHANGED <<row, request, ids>>
    BY <1>1 DEF Find
  <2>2. /\ work'[i].copy.id <= ids
        /\ work'[i].phase \in {"found", "working"} => Agree(work'[i].copy, row, stale'[i])
    BY <1>1, <1>a, FindShape DEF Agree
  <2> QED
    BY <1>1, <1>a, <1>d, <1>p, <2>1, <2>2, FindShape
<1>2. ASSUME CreateContact(i) PROVE Copies'
  <2>1. \A c \in Copy : \A s : c.id <= ids => Agree(c, row', s)
    BY <1>2, CreateShape DEF Agree
  <2>2. /\ work'[i].copy.id <= ids' /\ row'.id <= ids' /\ ids <= ids'
        /\ Agree(work'[i].copy, row', stale'[i])
    BY <1>2, CreateShape DEF Agree
  <2>3. request' = request
    BY <1>2 DEF CreateContact
  <2>4. \A j \in Instances : work'[j].copy.id <= ids'
    BY <1>2, <1>a, <2>2, CreateShape
  <2>5. \A a \in Admins : request'[a].copy.id <= ids'
    BY <1>a, <2>2, <2>3, <1>2, CreateShape
  <2>6. \A j \in Instances : work'[j].phase \in {"found", "working"} =>
          Agree(work'[j].copy, row', stale'[j])
    BY <1>2, <1>a, <2>1, <2>2, CreateShape
  <2>7. \A a \in Admins : request'[a].phase # "idle" => Agree(request'[a].copy, row', stale'[a])
    BY <1>a, <2>1, <2>3
  <2> QED
    BY <1>p, <2>2, <2>4, <2>5, <2>6, <2>7
<1>3. ASSUME CreateRefused(i) \/ KeepMessage(i) \/ SaveRefused(i) \/ Done(i) PROVE Copies'
  <2>1. UNCHANGED <<row, request, ids, stale>>
    BY <1>3, ProceedShape DEF Proceeds
  <2>2. /\ work'[i].copy.id <= ids
        /\ work'[i].phase \in {"found", "working"} => Agree(work'[i].copy, row, stale[i])
    BY <1>3, <1>a, ProceedShape DEF Proceeds, NoWork
  <2> QED
    BY <1>3, <1>a, <1>p, <2>1, <2>2, ProceedShape
<1>4. ASSUME SetStep(i) \/ ClearStep(i) PROVE Copies'
  BY <1>4, <1>a, <1>p DEF SetStep, ClearStep
<1>5. ASSUME NEW f \in Fields, Save(i, f) PROVE Copies'
  <2>1. /\ Update(i, work[i].copy, {f}) /\ work[i].phase = "working"
        /\ work'[i].copy.id = work[i].copy.id
        /\ work'[i].copy.value[f] = writes + 1
        /\ \A g \in Fields \ {f} : work'[i].copy.value[g] = work[i].copy.value[g]
        /\ \A j \in Instances \ {i} : work'[j] = work[j]
    BY <1>5, SaveShape
  <2>2. UNCHANGED <<request, ids>>
    BY <1>5 DEF Save
  <2>3. row'.id = row.id /\ row # None
    BY <1>d, <2>1, UpdateShape, {f} \in SUBSET Fields
  <2>4. Agree(work'[i].copy, row', stale'[i])
    BY <1>a, <1>d, <2>1, OwnAgrees
  <2>5. \A y \in Actors \ {i}, c \in Copy : Agree(c, row, stale[y]) => Agree(c, row', stale'[y])
    BY <1>d, <2>1, OthersAgree, {f} \in SUBSET Fields
  <2> QED
    BY <1>a, <1>d, <1>p, <2>1, <2>2, <2>3, <2>4, <2>5
<1>6. ASSUME NEW k \in Keys, EndStep(i, k) PROVE Copies'
  <2>1. /\ Update(i, work[i].copy, {k})
        /\ work'[i].phase = "ended" /\ work'[i].copy = work[i].copy
        /\ \A j \in Instances \ {i} : work'[j] = work[j]
    BY <1>6, EndStepShape
  <2>2. UNCHANGED <<request, ids>>
    BY <1>6 DEF EndStep
  <2>s. {k} \in SUBSET Fields
    BY DEF Fields
  <2>3. row'.id = row.id /\ row # None
    BY <1>d, <2>1, <2>s, UpdateShape
  <2>5. \A y \in Actors \ {i}, c \in Copy : Agree(c, row, stale[y]) => Agree(c, row', stale'[y])
    BY <1>d, <2>1, <2>s, OthersAgree
  <2> QED
    BY <1>a, <1>d, <1>p, <2>1, <2>2, <2>3, <2>5
<1> QED
  BY <1>1, <1>2, <1>3, <1>4, <1>5, <1>6 DEF Message

LEMMA RequestKeepsCopies ==
  ASSUME TypeOK, Copies, NEW a \in Admins, Request(a)
  PROVE  Copies'
<1> USE ContactAssumption, CopiesTyped
<1>a. /\ \A j \in Instances : work[j].copy.id <= ids
      /\ \A b \in Admins : request[b].copy.id <= ids
      /\ row # None => row.id <= ids
      /\ \A j \in Instances : work[j].phase \in {"found", "working"} =>
           Agree(work[j].copy, row, stale[j])
      /\ \A b \in Admins : request[b].phase # "idle" => Agree(request[b].copy, row, stale[b])
  BY AgreeParts DEF Copies, IdsGrow
<1>p. ASSUME /\ \A j \in Instances : work'[j].copy.id <= ids'
             /\ \A b \in Admins : request'[b].copy.id <= ids'
             /\ row' # None => row'.id <= ids'
             /\ \A j \in Instances : work'[j].phase \in {"found", "working"} =>
                  Agree(work'[j].copy, row', stale'[j])
             /\ \A b \in Admins : request'[b].phase # "idle" =>
                  Agree(request'[b].copy, row', stale'[b])
      PROVE  Copies'
  BY <1>p DEF Copies, IdsGrow, CopyIsRow, RequestCopyIsRow, Agree, Is
<1>d. Instances \subseteq Actors /\ Admins \subseteq Actors /\ a \notin Instances
  BY DEF Actors
<1>1. ASSUME CreateUser(a) PROVE Copies'
  <2>1. row' # None /\ row'.id = ids + 1 /\ ids' = ids + 1
    BY <1>1, NewRowShape DEF CreateUser
  <2>2. UNCHANGED <<work, request, stale>>
    BY <1>1 DEF CreateUser, Asking, NewRow
  <2>3. \A c \in Copy : \A s : c.id <= ids => Agree(c, row', s)
    BY <2>1 DEF Agree
  <2> QED
    BY <1>a, <1>p, <2>1, <2>2, <2>3
<1>2. ASSUME ForgetSession(a) PROVE Copies'
  <2>1. UNCHANGED <<row, work, ids, stale>>
    BY <1>2 DEF ForgetSession
  <2>2. /\ request'[a].copy.id <= ids
        /\ request'[a].phase # "idle" => Agree(request'[a].copy, row, stale[a])
    BY <1>2, <1>a, ForgetShape, NoRequestTyped
  <2> QED
    BY <1>2, <1>a, <1>p, <2>1, <2>2, ForgetShape
<1>3. ASSUME DeleteUser(a) PROVE Copies'
  <2>1. UNCHANGED <<work, ids, stale>> /\ row' = None
    BY <1>3 DEF DeleteUser
  <2>2. request'[a].copy.id <= ids
    BY <1>3, AnswerShape, NoRequestTyped
  <2>3. \A c \in Copy : \A s : Agree(c, row', s)
    BY <2>1 DEF Agree
  <2>4. \A b \in Admins : request'[b].copy.id <= ids
    BY <1>3, <1>a, <2>2, AnswerShape
  <2>5. \A b \in Admins : request'[b].copy \in Copy
    BY <1>3, AnswerShape DEF Ask
  <2> QED
    BY <1>a, <1>p, <2>1, <2>3, <2>4, <2>5
<1>4. ASSUME RequestRefused(a) PROVE Copies'
  <2>1. UNCHANGED <<row, work, ids, stale>>
    BY <1>4 DEF RequestRefused
  <2>2. request'[a].copy.id <= ids /\ request'[a].phase = "idle"
    BY <1>4, AnswerShape, NoRequestTyped
  <2> QED
    BY <1>4, <1>a, <1>p, <2>1, <2>2, AnswerShape
<1>5. ASSUME NEW op \in {"update", "delete", "reset"}, ReadUser(a, op) PROVE Copies'
  <2>1. UNCHANGED <<row, work, ids>>
    BY <1>5 DEF ReadUser, Asking
  <2>2. request'[a].copy.id <= ids /\ Agree(request'[a].copy, row, stale'[a])
    BY <1>5, <1>a, ReadShape DEF Agree
  <2> QED
    BY <1>5, <1>a, <1>d, <1>p, <2>1, <2>2, ReadShape
<1>6. ASSUME NEW F \in SUBSET Fields \ {{}}, UpdateUser(a, F) PROVE Copies'
  <2>1. /\ Update(a, request[a].copy, F)
        /\ request'[a] = NoRequest
        /\ \A b \in Admins \ {a} : request'[b] = request[b]
    BY <1>6, UpdateUserShape
  <2>2. UNCHANGED <<work, ids>>
    BY <1>6 DEF UpdateUser
  <2>3. row'.id = row.id /\ row # None
    BY <1>d, <2>1, UpdateShape
  <2>4. request'[a].copy.id <= ids /\ request'[a].phase = "idle"
    BY <2>1, NoRequestTyped
  <2>5. \A y \in Actors \ {a}, c \in Copy : Agree(c, row, stale[y]) => Agree(c, row', stale'[y])
    BY <1>d, <2>1, OthersAgree
  <2> QED
    BY <1>a, <1>d, <1>p, <2>1, <2>2, <2>3, <2>4, <2>5
<1> QED
  BY <1>1, <1>2, <1>3, <1>4, <1>5, <1>6 DEF Request

LEMMA InitCopies == Init => Copies
<1> SUFFICES ASSUME Init PROVE Copies
  OBVIOUS
<1>1. TypeOK
  BY InitTyped
<1>2. row = None /\ ids = 0
  BY DEF Init
<1>n. NoCopy.id <= ids
  BY <1>1, <1>2, CopiesTyped
<1>3. \A i \in Instances : work[i].copy = NoCopy
  BY DEF Init, NoWork
<1>4. \A a \in Admins : request[a].copy = NoCopy
  BY DEF Init, NoRequest
<1> QED
  BY <1>n, <1>2, <1>3, <1>4 DEF Copies, IdsGrow, CopyIsRow, RequestCopyIsRow, Is

LEMMA StepCopies == TypeOK /\ Copies /\ [Next]_vars => Copies'
<1>1. ASSUME Copies, UNCHANGED vars PROVE Copies'
  BY <1>1 DEF Copies, IdsGrow, CopyIsRow, RequestCopyIsRow, Is, vars
<1> QED
  BY <1>1, MessageKeepsCopies, RequestKeepsCopies DEF Next

LEMMA CopiesHold == Spec => []Copies
BY TypeCorrect, InitCopies, StepCopies, PTL DEF Spec

\* While nobody else writes a field, a message's copy of the contact holds
\* what the row holds: the handlers refresh ctx.user with what they write,
\* and a contact created again has an id no copy has.
THEOREM CopyIsRowHolds == Spec => []CopyIsRow
<1>1. Copies => CopyIsRow
  BY DEF Copies
<1> QED
  BY <1>1, CopiesHold, PTL

-----------------------------------------------------------------------------
(* Stored values *)

LEMMA InitValues == Init => ValuesGrow
<1> SUFFICES ASSUME Init PROVE ValuesGrow
  OBVIOUS
<1>1. TypeOK
  BY InitTyped
<1>2. row = None /\ writes = 0
  BY DEF Init
<1>3. \A f \in Fields : NoCopy.value[f] <= writes
  BY <1>1, <1>2, CopiesTyped
<1>4. \A i \in Instances : work[i].copy = NoCopy
  BY DEF Init, NoWork
<1>5. \A a \in Admins : request[a].copy = NoCopy
  BY DEF Init, NoRequest
<1> QED
  BY <1>2, <1>3, <1>4, <1>5 DEF ValuesGrow

LEMMA UpdatedValues ==
  ASSUME TypeOK, ValuesGrow, NEW x \in Actors, NEW copy \in Copy, NEW F \in SUBSET Fields,
         Update(x, copy, F), \A f \in Fields : copy.value[f] <= writes
  PROVE  writes' = writes + 1 /\ \A f \in Fields : row'.value[f] <= writes'
<1>1. /\ row # None /\ writes' = writes + 1
      /\ \A f \in F : row'.value[f] = writes + 1
      /\ \A f \in Written(F) \ F : row'.value[f] = copy.value[f]
      /\ \A f \in Fields \ Written(F) : row'.value[f] = row.value[f]
  BY UpdateShape
<1>2. /\ writes \in Nat
      /\ \A f \in Fields : row.value[f] <= writes /\ row.value[f] \in Nat /\ copy.value[f] \in Nat
  BY <1>1, CopiesTyped DEF ValuesGrow
<1> SUFFICES ASSUME NEW f \in Fields PROVE row'.value[f] <= writes'
  BY <1>1
<1>3. CASE f \in F
  BY <1>1, <1>2, <1>3
<1>4. CASE f \in Written(F) \ F
  BY <1>1, <1>2, <1>4
<1>5. CASE f \notin Written(F) /\ f \notin F
  BY <1>1, <1>2, <1>5
<1> QED
  BY <1>3, <1>4, <1>5

LEMMA StepValues == TypeOK /\ ValuesGrow /\ [Next]_vars => ValuesGrow'
<1> USE ContactAssumption, CopiesTyped
<1> SUFFICES ASSUME TypeOK, ValuesGrow, [Next]_vars PROVE ValuesGrow'
  OBVIOUS
<1>a. /\ row # None => \A f \in Fields : row.value[f] <= writes
      /\ \A i \in Instances, f \in Fields : work[i].copy.value[f] <= writes
      /\ \A a \in Admins, f \in Fields : request[a].copy.value[f] <= writes
      /\ \A f \in Fields : NoCopy.value[f] <= writes
  BY DEF ValuesGrow
<1>b. \A c \in Copy, f \in Fields : c.value[f] <= writes => c.value[f] <= writes + 1
  OBVIOUS
<1>d. Instances \subseteq Actors /\ Admins \subseteq Actors
  BY DEF Actors
<1>1. ASSUME UNCHANGED vars PROVE ValuesGrow'
  BY <1>1 DEF ValuesGrow, vars
<1>2. ASSUME NEW i \in Instances, Find(i) PROVE ValuesGrow'
  <2>1. UNCHANGED <<row, request, writes>>
    BY <1>2 DEF Find
  <2>2. \A f \in Fields : work'[i].copy.value[f] <= writes
    BY <1>2, <1>a, FindShape
  <2> QED
    BY <1>2, <1>a, <2>1, <2>2, FindShape DEF ValuesGrow
<1>3. ASSUME NEW i \in Instances, CreateContact(i) PROVE ValuesGrow'
  <2>1. UNCHANGED <<request, writes>>
    BY <1>3 DEF CreateContact
  <2>2. \A f \in Fields : row'.value[f] <= writes
    BY <1>3, CreateShape
  <2> QED
    BY <1>3, <1>a, <2>1, <2>2, CreateShape DEF ValuesGrow
<1>4. ASSUME NEW i \in Instances,
             CreateRefused(i) \/ KeepMessage(i) \/ SaveRefused(i) \/ Done(i)
      PROVE  ValuesGrow'
  <2>1. UNCHANGED <<row, request, writes>>
    BY <1>4, ProceedShape DEF Proceeds
  <2>2. \A f \in Fields : work'[i].copy.value[f] <= writes
    BY <1>4, <1>a, ProceedShape DEF Proceeds, NoWork
  <2> QED
    BY <1>4, <1>a, <2>1, <2>2, ProceedShape DEF ValuesGrow
<1>5. ASSUME NEW i \in Instances, SetStep(i) \/ ClearStep(i) PROVE ValuesGrow'
  BY <1>5 DEF ValuesGrow, SetStep, ClearStep
<1>6. ASSUME NEW i \in Instances, NEW f \in Fields, Save(i, f) PROVE ValuesGrow'
  <2>1. /\ Update(i, work[i].copy, {f}) /\ {f} \in SUBSET Fields
        /\ work'[i].copy.value[f] = writes + 1
        /\ \A g \in Fields \ {f} : work'[i].copy.value[g] = work[i].copy.value[g]
        /\ \A j \in Instances \ {i} : work'[j] = work[j]
        /\ request' = request
    BY <1>6, SaveShape DEF Save
  <2>2. writes' = writes + 1 /\ \A g \in Fields : row'.value[g] <= writes'
    BY <1>a, <1>d, <2>1, UpdatedValues
  <2>3. \A g \in Fields : work'[i].copy.value[g] <= writes'
    BY <1>a, <1>b, <2>1, <2>2
  <2> QED
    BY <1>a, <1>b, <2>1, <2>2, <2>3 DEF ValuesGrow
<1>7. ASSUME NEW i \in Instances, NEW k \in Keys, EndStep(i, k) PROVE ValuesGrow'
  <2>1. /\ Update(i, work[i].copy, {k}) /\ {k} \in SUBSET Fields
        /\ work'[i].copy = work[i].copy
        /\ \A j \in Instances \ {i} : work'[j] = work[j]
        /\ request' = request
    BY <1>7, EndStepShape DEF EndStep, Fields
  <2>2. writes' = writes + 1 /\ \A g \in Fields : row'.value[g] <= writes'
    BY <1>a, <1>d, <2>1, UpdatedValues
  <2> QED
    BY <1>a, <1>b, <2>1, <2>2 DEF ValuesGrow
<1>8. ASSUME NEW a \in Admins, CreateUser(a) PROVE ValuesGrow'
  <2>1. UNCHANGED <<work, request, writes>>
    BY <1>8 DEF CreateUser, Asking, NewRow
  <2>2. \A f \in Fields : row'.value[f] <= writes
    BY <1>8, NewRowShape DEF CreateUser
  <2> QED
    BY <1>a, <2>1, <2>2 DEF ValuesGrow
<1>9. ASSUME NEW a \in Admins, ForgetSession(a) \/ DeleteUser(a) \/ RequestRefused(a)
      PROVE  ValuesGrow'
  <2>1. UNCHANGED <<work, writes>> /\ (row' = row \/ row' = None)
    BY <1>9 DEF ForgetSession, DeleteUser, RequestRefused
  <2>2. \A f \in Fields : request'[a].copy.value[f] <= writes
    BY <1>9, <1>a, ForgetShape, AnswerShape, NoRequestTyped
  <2>3. \A b \in Admins \ {a} : request'[b] = request[b]
    BY <1>9, ForgetShape, AnswerShape
  <2> QED
    BY <1>a, <2>1, <2>2, <2>3 DEF ValuesGrow
<1>10. ASSUME NEW a \in Admins, NEW op \in {"update", "delete", "reset"}, ReadUser(a, op)
       PROVE  ValuesGrow'
  <2>1. UNCHANGED <<row, work, writes>>
    BY <1>10 DEF ReadUser, Asking
  <2> QED
    BY <1>10, <1>a, <2>1, ReadShape DEF ValuesGrow
<1>11. ASSUME NEW a \in Admins, NEW F \in SUBSET Fields, UpdateUser(a, F) PROVE ValuesGrow'
  <2>1. /\ Update(a, request[a].copy, F)
        /\ request'[a].copy = NoCopy
        /\ \A b \in Admins \ {a} : request'[b] = request[b]
        /\ work' = work
    BY <1>11, UpdateUserShape, NoRequestTyped DEF UpdateUser
  <2>2. writes' = writes + 1 /\ \A g \in Fields : row'.value[g] <= writes'
    BY <1>a, <1>d, <2>1, UpdatedValues
  <2>3. NoCopy \in Copy
    BY NoCopyTyped
  <2> QED
    BY <1>a, <1>b, <2>1, <2>2, <2>3 DEF ValuesGrow
<1> QED
  BY <1>1, <1>2, <1>3, <1>4, <1>5, <1>6, <1>7, <1>8, <1>9, <1>10, <1>11
     DEF Next, Message, Request

LEMMA ValuesHold == Spec => []ValuesGrow
BY TypeCorrect, InitValues, StepValues, PTL DEF Spec

\* One write: what it does not make new it keeps, or takes from a copy that
\* went stale.
LEMMA UpdateKeeps ==
  ASSUME TypeOK, NEW x \in Actors, NEW copy \in Copy, NEW F \in SUBSET Fields,
         Update(x, copy, F), Agree(copy, row, stale[x]), Steps(x)
  PROVE  KeptUnlessOverlapped
<1>1. /\ row # None /\ row.id = copy.id /\ writes' = writes + 1
      /\ \A f \in F : row'.value[f] = writes + 1
      /\ \A f \in Written(F) \ F : row'.value[f] = copy.value[f]
      /\ \A f \in Fields \ Written(F) : row'.value[f] = row.value[f]
  BY UpdateShape
<1> SUFFICES ASSUME NEW f \in Fields
             PROVE  \/ row'.value[f] \in {row.value[f], writes'}
                    \/ f # Name /\ \E y \in Actors : Steps(y) /\ f \in stale[y]
  BY DEF KeptUnlessOverlapped
<1>2. CASE f \in F
  BY <1>1, <1>2
<1>3. CASE f \in Written(F) \ F
  <2>1. f # Name
    BY <1>3, ContactAssumption DEF Written, Fields
  <2>2. f \in stale[x] \/ copy.value[f] = row.value[f]
    BY <1>1 DEF Agree
  <2> QED
    BY <1>1, <1>3, <2>1, <2>2
<1>4. CASE f \notin Written(F) /\ f \notin F
  BY <1>1, <1>4
<1> QED
  BY <1>2, <1>3, <1>4

LEMMA NothingElseLost == TypeOK /\ Copies /\ ValuesGrow /\ [Next]_vars => [KeptUnlessOverlapped]_vars
<1> USE ContactAssumption, CopiesTyped
<1> SUFFICES ASSUME TypeOK, Copies, ValuesGrow, Next PROVE KeptUnlessOverlapped
  OBVIOUS
<1>a. /\ \A i \in Instances : work[i].phase \in {"found", "working"} =>
           Agree(work[i].copy, row, stale[i])
      /\ \A a \in Admins : request[a].phase # "idle" => Agree(request[a].copy, row, stale[a])
  BY AgreeParts DEF Copies
<1>d. Instances \subseteq Actors /\ Admins \subseteq Actors /\ Instances \cap Admins = {}
  BY DEF Actors
<1>1. ASSUME row' = row \/ row' = None \/ row = None PROVE KeptUnlessOverlapped
  BY <1>1 DEF KeptUnlessOverlapped
<1>2. ASSUME NEW i \in Instances, NEW f \in Fields, Save(i, f) PROVE KeptUnlessOverlapped
  <2>1. /\ Update(i, work[i].copy, {f}) /\ {f} \in SUBSET Fields
        /\ work[i].phase = "working"
        /\ work'[i].copy.value[f] = writes + 1
    BY <1>2, SaveShape
  <2>2. work[i].copy.value[f] <= writes /\ writes \in Nat /\ work[i].copy.value[f] \in Nat
    BY DEF ValuesGrow
  <2>3. Steps(i)
    BY <2>1, <2>2 DEF Steps
  <2> QED
    BY <1>a, <1>d, <2>1, <2>3, UpdateKeeps
<1>3. ASSUME NEW i \in Instances, NEW k \in Keys, EndStep(i, k) PROVE KeptUnlessOverlapped
  <2>1. /\ Update(i, work[i].copy, {k}) /\ {k} \in SUBSET Fields
        /\ work[i].phase = "working" /\ work'[i].phase = "ended"
    BY <1>3, EndStepShape DEF Fields
  <2>2. Steps(i)
    BY <2>1 DEF Steps
  <2> QED
    BY <1>a, <1>d, <2>1, <2>2, UpdateKeeps
<1>4. ASSUME NEW a \in Admins, NEW F \in SUBSET Fields, UpdateUser(a, F)
      PROVE  KeptUnlessOverlapped
  <2>1. /\ Update(a, request[a].copy, F) /\ request[a].phase = "update"
        /\ request'[a].phase = "idle"
    BY <1>4, UpdateUserShape, NoRequestTyped
  <2>2. Steps(a)
    BY <1>d, <2>1 DEF Steps
  <2> QED
    BY <1>a, <1>d, <2>1, <2>2, UpdateKeeps
<1>5. ASSUME NEW i \in Instances, Message(i) PROVE KeptUnlessOverlapped
  <2>1. ASSUME ~ \E f \in Fields : Save(i, f), ~ \E k \in Keys : EndStep(i, k)
        PROVE  row' = row \/ row = None
    BY <1>5, <2>1 DEF Message, Find, CreateContact, CreateRefused, KeepMessage, SaveRefused,
                      SetStep, ClearStep, Done
  <2> QED
    BY <1>1, <1>2, <1>3, <2>1
<1>6. ASSUME NEW a \in Admins, Request(a) PROVE KeptUnlessOverlapped
  <2>1. ASSUME ~ \E F \in SUBSET Fields \ {{}} : UpdateUser(a, F)
        PROVE  row' = row \/ row' = None \/ row = None
    BY <1>6, <2>1 DEF Request, CreateUser, ForgetSession, DeleteUser, RequestRefused, ReadUser
  <2> QED
    BY <1>1, <1>4, <2>1
<1> QED
  BY <1>5, <1>6 DEF Next

\* A stored value is lost only to a new value, to the row's deletion, or to a
\* writer of the column who read the row before the value was stored: a
\* handler or an administrator's update that read it later cannot undo it.
\* The name is a column of its own and is never lost to a writer of another.
THEOREM OverlapHolds == Spec => LostOnlyToOverlap
BY TypeCorrect, CopiesHold, ValuesHold, NothingElseLost, PTL DEF Spec, LostOnlyToOverlap

-----------------------------------------------------------------------------
(* Dropped messages *)

Races == DroppedOnlyIfRaced /\ RacedBefore

\* What Races says of one message.
Excused(t, r, yes) ==
  /\ t.phase = "dropped" => yes
  /\ t.phase = "missing" /\ r # None => yes
  /\ t.phase \in {"found", "working"} /\ ~(r # None /\ r.id = t.copy.id) => yes

LEMMA RacesParts == Races <=> \A i \in Instances : Excused(work[i], row, i \in raced)
BY DEF Races, DroppedOnlyIfRaced, RacedBefore, Excused, Is

\* An update leaves everybody else where they were.
LEMMA UpdateExcuses ==
  ASSUME TypeOK, NEW x \in Actors, NEW copy \in Copy, NEW F \in SUBSET Fields,
         Update(x, copy, F), raced' = raced
  PROVE  /\ Is(copy) /\ row'.id = copy.id /\ row' # None
         /\ \A j \in Instances : Excused(work[j], row, j \in raced) =>
              Excused(work[j], row', j \in raced')
<1>1. row # None /\ row'.id = row.id /\ row' # None /\ row.id = copy.id
  BY UpdateShape
<1> QED
  BY <1>1 DEF Excused, Is

LEMMA MessageExcused ==
  ASSUME TypeOK, Races, NEW i \in Instances, Message(i)
  PROVE  Races'
<1> USE ContactAssumption
<1>a. \A j \in Instances : Excused(work[j], row, j \in raced)
  BY RacesParts
<1>p. ASSUME \A j \in Instances : Excused(work'[j], row', j \in raced') PROVE Races'
  BY <1>p DEF Races, DroppedOnlyIfRaced, RacedBefore, Excused, Is
<1>d. i \in Actors
  BY DEF Actors
<1>1. ASSUME Find(i) PROVE Races'
  <2>1. Excused(work'[i], row, i \in raced')
    BY <1>1, FindShape DEF Excused
  <2>2. row' = row /\ \A j \in Instances \ {i} : j \in raced => j \in raced'
    BY <1>1 DEF Find
  <2>3. \A j \in Instances \ {i} : Excused(work'[j], row, j \in raced')
    BY <1>1, <1>a, <2>2, FindShape DEF Excused
  <2> QED
    BY <1>p, <2>1, <2>2, <2>3
<1>2. ASSUME CreateContact(i) PROVE Races'
  <2>1. Excused(work'[i], row', i \in raced')
    BY <1>2, CreateShape DEF Excused
  <2>2. ASSUME NEW j \in Instances \ {i} PROVE Excused(work'[j], row', j \in raced')
    <3>1. work'[j] = work[j] /\ raced' = raced \cup (Active \ {i})
      BY <1>2, CreateShape
    <3>2. work[j].phase # "idle" => j \in raced'
      BY <3>1 DEF Active
    <3> QED
      BY <3>1, <3>2 DEF Excused
  <2> QED
    BY <1>p, <2>1, <2>2
<1>3. ASSUME CreateRefused(i) \/ KeepMessage(i) \/ SaveRefused(i) \/ Done(i) PROVE Races'
  <2>1. row' = row /\ raced' = raced
    BY <1>3, ProceedShape DEF Proceeds
  <2>2. Excused(work'[i], row, i \in raced)
    BY <1>3, <1>a, ProceedShape DEF Proceeds, Excused, NoWork, Is
  <2> QED
    BY <1>3, <1>a, <1>p, <2>1, <2>2, ProceedShape
<1>4. ASSUME SetStep(i) \/ ClearStep(i) PROVE Races'
  BY <1>4, <1>a, <1>p DEF SetStep, ClearStep
<1>5. ASSUME NEW f \in Fields, Save(i, f) PROVE Races'
  <2>1. /\ Update(i, work[i].copy, {f}) /\ work[i].copy \in Copy /\ {f} \in SUBSET Fields
        /\ work'[i].phase = "working" /\ work'[i].copy.id = work[i].copy.id
        /\ \A j \in Instances \ {i} : work'[j] = work[j]
        /\ raced' = raced
    BY <1>5, SaveShape DEF Save
  <2>2. /\ row'.id = work[i].copy.id /\ row' # None
        /\ \A j \in Instances : Excused(work[j], row', j \in raced')
    BY <1>a, <1>d, <2>1, UpdateExcuses
  <2>3. Excused(work'[i], row', i \in raced')
    BY <2>1, <2>2 DEF Excused
  <2> QED
    BY <1>p, <2>1, <2>2, <2>3
<1>6. ASSUME NEW k \in Keys, EndStep(i, k) PROVE Races'
  <2>1. /\ Update(i, work[i].copy, {k}) /\ work[i].copy \in Copy /\ {k} \in SUBSET Fields
        /\ work'[i].phase = "ended"
        /\ \A j \in Instances \ {i} : work'[j] = work[j]
        /\ raced' = raced
    BY <1>6, EndStepShape DEF EndStep, Fields
  <2>2. \A j \in Instances : Excused(work[j], row', j \in raced')
    BY <1>a, <1>d, <2>1, UpdateExcuses
  <2>3. Excused(work'[i], row', i \in raced')
    BY <2>1 DEF Excused
  <2> QED
    BY <1>p, <2>1, <2>2, <2>3
<1> QED
  BY <1>1, <1>2, <1>3, <1>4, <1>5, <1>6 DEF Message

LEMMA RequestExcused ==
  ASSUME TypeOK, Races, NEW a \in Admins, Request(a)
  PROVE  Races'
<1> USE ContactAssumption
<1>a. \A j \in Instances : Excused(work[j], row, j \in raced)
  BY RacesParts
<1>p. ASSUME \A j \in Instances : Excused(work'[j], row', j \in raced') PROVE Races'
  BY <1>p DEF Races, DroppedOnlyIfRaced, RacedBefore, Excused, Is
<1>d. a \in Actors /\ a \notin Instances
  BY DEF Actors
<1>1. ASSUME CreateUser(a) \/ DeleteUser(a) PROVE Races'
  <2>1. work' = work /\ raced' = raced \cup (Active \ {a})
    BY <1>1 DEF CreateUser, NewRow, DeleteUser
  <2>2. ASSUME NEW j \in Instances PROVE Excused(work'[j], row', j \in raced')
    <3>1. work[j].phase # "idle" => j \in raced'
      BY <1>d, <2>1 DEF Active
    <3> QED
      BY <2>1, <3>1 DEF Excused
  <2> QED
    BY <1>p, <2>2
<1>2. ASSUME ForgetSession(a) \/ RequestRefused(a) PROVE Races'
  BY <1>2, <1>a, <1>p DEF ForgetSession, RequestRefused
<1>3. ASSUME NEW op \in {"update", "delete", "reset"}, ReadUser(a, op) PROVE Races'
  <2>1. row' = row /\ work' = work /\ \A j \in Instances : j \in raced' <=> j \in raced
    BY <1>3, <1>d DEF ReadUser
  <2> QED
    BY <1>a, <1>p, <2>1
<1>4. ASSUME NEW F \in SUBSET Fields \ {{}}, UpdateUser(a, F) PROVE Races'
  <2>1. /\ Update(a, request[a].copy, F) /\ request[a].copy \in Copy
        /\ work' = work /\ raced' = raced
    BY <1>4, UpdateUserShape DEF UpdateUser
  <2>2. \A j \in Instances : Excused(work[j], row', j \in raced')
    BY <1>a, <1>d, <2>1, UpdateExcuses
  <2> QED
    BY <1>p, <2>1, <2>2
<1> QED
  BY <1>1, <1>2, <1>3, <1>4 DEF Request

\* A message is dropped, by the unique phone or by the row it no longer finds,
\* only if the contact was created or deleted between its reading and its
\* writing: nothing else in handling a message loses it.
THEOREM DroppedHolds == Spec => []DroppedOnlyIfRaced
<1>1. Init => Races
  BY DEF Init, Races, DroppedOnlyIfRaced, RacedBefore, NoWork
<1>2. TypeOK /\ Races /\ [Next]_vars => Races'
  <2>1. ASSUME Races, UNCHANGED vars PROVE Races'
    BY <2>1 DEF Races, DroppedOnlyIfRaced, RacedBefore, Is, vars
  <2> QED
    BY <2>1, MessageExcused, RequestExcused DEF Next
<1>3. Races => DroppedOnlyIfRaced
  BY DEF Races
<1> QED
  BY <1>1, <1>2, <1>3, TypeCorrect, PTL DEF Spec

-----------------------------------------------------------------------------
(* The step of a deleted contact *)

Forgotten == StartsAfresh /\ LeftBehind

\* What Forgotten says of one instance, and of a request about to delete.
Settled(s, t, r, yes) ==
  /\ s # None => (r # None /\ r.id = s) \/ yes
  /\ t.phase \in {"found", "working"} /\ ~(r # None /\ r.id = t.copy.id) => yes

Deletes(q, r) == q.phase = "remove" /\ r # None /\ r.id = q.copy.id

LEMMA ForgottenParts ==
  Forgotten <=>
    /\ \A i \in Instances : Settled(session[i], work[i], row, i \in leftover)
    /\ \A a \in Admins : Deletes(request[a], row) =>
         \A i \in Instances \ leftover : session[i] = None /\ work[i].phase = "idle"
BY DEF Forgotten, StartsAfresh, LeftBehind, Settled, Deletes, Is

LEMMA MessageForgets ==
  ASSUME TypeOK, Copies, Forgotten, NEW i \in Instances, Message(i)
  PROVE  Forgotten'
<1> USE ContactAssumption, CopiesTyped
<1>a. /\ \A j \in Instances : Settled(session[j], work[j], row, j \in leftover)
      /\ \A a \in Admins : Deletes(request[a], row) =>
           \A j \in Instances \ leftover : session[j] = None /\ work[j].phase = "idle"
  BY ForgottenParts
<1>p. ASSUME /\ \A j \in Instances : Settled(session'[j], work'[j], row', j \in leftover')
             /\ \A a \in Admins : Deletes(request'[a], row') =>
                  \A j \in Instances \ leftover' : session'[j] = None /\ work'[j].phase = "idle"
      PROVE  Forgotten'
  BY <1>p DEF Forgotten, StartsAfresh, LeftBehind, Settled, Deletes, Is
<1>d. i \in Actors
  BY DEF Actors
\* An update of the row by this message: its id stays.
<1>u. ASSUME row # None, row' # None, row'.id = row.id,
             UNCHANGED <<session, request, leftover>>,
             work[i].phase = "working", work[i].copy.id = row.id,
             work'[i].phase \in {"working", "ended"}, work'[i].copy.id = row.id,
             \A j \in Instances \ {i} : work'[j] = work[j]
      PROVE  Forgotten'
  <2>1. \A j \in Instances : Settled(session'[j], work'[j], row', j \in leftover')
    BY <1>a, <1>u DEF Settled
  <2>2. \A a \in Admins : Deletes(request'[a], row') => Deletes(request[a], row)
    BY <1>u DEF Deletes
  <2>3. \A a \in Admins : Deletes(request'[a], row') =>
          \A j \in Instances \ leftover' : session'[j] = None /\ work'[j].phase = "idle"
    <3>1. ASSUME NEW a \in Admins, Deletes(request[a], row), NEW j \in Instances \ leftover
          PROVE  session[j] = None /\ work[j].phase = "idle" /\ j # i
      BY <1>a, <1>u, <3>1
    <3> QED
      BY <1>u, <2>2, <3>1
  <2> QED
    BY <1>p, <2>1, <2>3
<1>1. ASSUME Find(i) PROVE Forgotten'
  <2>1. /\ UNCHANGED <<row, session, request>>
        /\ leftover' = IF Deleting THEN leftover \cup {i} ELSE leftover
    BY <1>1 DEF Find
  <2>2. Settled(session'[i], work'[i], row', i \in leftover')
    BY <1>1, <1>a, <2>1, FindShape DEF Settled
  <2>3. \A j \in Instances \ {i} : Settled(session'[j], work'[j], row', j \in leftover')
    BY <1>1, <1>a, <2>1, FindShape DEF Settled
  <2>4. \A a \in Admins : Deletes(request'[a], row') =>
          \A j \in Instances \ leftover' : session'[j] = None /\ work'[j].phase = "idle"
    BY <1>1, <1>a, <2>1, FindShape DEF Deletes, Deleting
  <2> QED
    BY <1>p, <2>2, <2>3, <2>4
<1>2. ASSUME CreateContact(i) PROVE Forgotten'
  <2>1. UNCHANGED <<session, request, leftover>> /\ row = None
    BY <1>2 DEF CreateContact
  <2>2. \A j \in Instances : session[j] # None => j \in leftover
    BY <1>a, <2>1 DEF Settled
  <2>3. \A j \in Instances : Settled(session'[j], work'[j], row', j \in leftover')
    BY <1>2, <1>a, <2>1, <2>2, CreateShape DEF Settled
  <2>4. \A a \in Admins : request[a].copy.id <= ids /\ request[a].copy.id \in Nat
    BY DEF Copies, IdsGrow
  <2>5. \A a \in Admins : ~Deletes(request'[a], row')
    BY <1>2, <2>1, <2>4, CreateShape DEF Deletes
  <2> QED
    BY <1>p, <2>3, <2>5
<1>3. ASSUME CreateRefused(i) \/ KeepMessage(i) \/ SaveRefused(i) \/ Done(i) PROVE Forgotten'
  <2>1. UNCHANGED <<row, session, request, leftover>> /\ work[i].phase # "idle"
    BY <1>3, ProceedShape DEF Proceeds
  <2>2. Settled(session[i], work'[i], row, i \in leftover)
    BY <1>3, <1>a, ProceedShape DEF Proceeds, Settled, NoWork, Is
  <2>3. \A j \in Instances \ {i} : work'[j] = work[j]
    BY <1>3, ProceedShape
  <2>4. \A a \in Admins : Deletes(request[a], row) =>
          \A j \in Instances \ leftover : session[j] = None /\ work'[j].phase = "idle"
    BY <1>a, <2>1, <2>3
  <2> QED
    BY <1>a, <1>p, <2>1, <2>2, <2>3, <2>4
<1>4. ASSUME SetStep(i) PROVE Forgotten'
  <2>1. /\ UNCHANGED <<row, work, request>> /\ work[i].phase = "working"
        /\ session'[i] = work[i].copy.id
        /\ \A j \in Instances \ {i} : session'[j] = session[j]
        /\ leftover' = IF Is(work[i].copy) /\ ~Deleting THEN leftover \ {i} ELSE leftover
    BY <1>4, TypeParts DEF SetStep
  <2>2. Settled(session'[i], work'[i], row', i \in leftover')
    BY <1>a, <2>1 DEF Settled, Is
  <2>3. \A j \in Instances \ {i} : Settled(session'[j], work'[j], row', j \in leftover')
    BY <1>a, <2>1 DEF Settled
  <2>4. ASSUME NEW a \in Admins, Deletes(request[a], row), NEW j \in Instances \ leftover'
        PROVE  session'[j] = None /\ work'[j].phase = "idle"
    <3>1. Deleting
      BY <2>4 DEF Deletes, Deleting
    <3>2. leftover' = leftover
      BY <2>1, <3>1
    <3> QED
      BY <1>a, <2>1, <2>4, <3>2
  <2> QED
    BY <1>p, <2>1, <2>2, <2>3, <2>4
<1>5. ASSUME ClearStep(i) PROVE Forgotten'
  <2>1. /\ UNCHANGED <<row, work, request, leftover>> /\ session'[i] = None
        /\ \A j \in Instances \ {i} : session'[j] = session[j]
    BY <1>5, TypeParts DEF ClearStep
  <2> QED
    BY <1>a, <1>p, <2>1 DEF Settled
<1>6. ASSUME NEW f \in Fields, Save(i, f) PROVE Forgotten'
  <2>1. /\ Update(i, work[i].copy, {f}) /\ work[i].copy \in Copy /\ {f} \in SUBSET Fields
        /\ work[i].phase = "working"
        /\ work'[i].phase = "working" /\ work'[i].copy.id = work[i].copy.id
        /\ \A j \in Instances \ {i} : work'[j] = work[j]
        /\ UNCHANGED <<session, request, leftover>>
    BY <1>6, SaveShape DEF Save
  <2>2. row # None /\ row.id = work[i].copy.id /\ row'.id = row.id /\ row' # None
    BY <1>d, <2>1, UpdateShape
  <2> QED
    BY <1>u, <2>1, <2>2
<1>7. ASSUME NEW k \in Keys, EndStep(i, k) PROVE Forgotten'
  <2>1. /\ Update(i, work[i].copy, {k}) /\ work[i].copy \in Copy /\ {k} \in SUBSET Fields
        /\ work[i].phase = "working"
        /\ work'[i].phase = "ended" /\ work'[i].copy = work[i].copy
        /\ \A j \in Instances \ {i} : work'[j] = work[j]
        /\ UNCHANGED <<session, request, leftover>>
    BY <1>7, EndStepShape DEF EndStep, Fields
  <2>2. row # None /\ row.id = work[i].copy.id /\ row'.id = row.id /\ row' # None
    BY <1>d, <2>1, UpdateShape
  <2> QED
    BY <1>u, <2>1, <2>2
<1> QED
  BY <1>1, <1>2, <1>3, <1>4, <1>5, <1>6, <1>7 DEF Message

LEMMA RequestForgets ==
  ASSUME TypeOK, Copies, Forgotten, NEW a \in Admins, Request(a)
  PROVE  Forgotten'
<1> USE ContactAssumption, CopiesTyped
<1>a. /\ \A j \in Instances : Settled(session[j], work[j], row, j \in leftover)
      /\ \A b \in Admins : Deletes(request[b], row) =>
           \A j \in Instances \ leftover : session[j] = None /\ work[j].phase = "idle"
  BY ForgottenParts
<1>p. ASSUME /\ \A j \in Instances : Settled(session'[j], work'[j], row', j \in leftover')
             /\ \A b \in Admins : Deletes(request'[b], row') =>
                  \A j \in Instances \ leftover' : session'[j] = None /\ work'[j].phase = "idle"
      PROVE  Forgotten'
  BY <1>p DEF Forgotten, StartsAfresh, LeftBehind, Settled, Deletes, Is
<1>i. \A b \in Admins : request[b].copy.id <= ids /\ request[b].copy.id \in Nat
  BY DEF Copies, IdsGrow
<1>d. a \in Actors
  BY DEF Actors
<1>1. ASSUME CreateUser(a) PROVE Forgotten'
  <2>1. UNCHANGED <<session, work, request, leftover>> /\ row = None
    BY <1>1 DEF CreateUser, Asking, NewRow
  <2>2. row'.id = ids + 1
    BY <1>1, NewRowShape DEF CreateUser
  <2>3. \A j \in Instances : Settled(session'[j], work'[j], row', j \in leftover')
    BY <1>a, <2>1 DEF Settled
  <2>4. \A b \in Admins : ~Deletes(request'[b], row')
    BY <1>i, <2>1, <2>2 DEF Deletes
  <2> QED
    BY <1>p, <2>3, <2>4
<1>2. ASSUME ForgetSession(a) PROVE Forgotten'
  <2>1. UNCHANGED <<row, work>>
    BY <1>2 DEF ForgetSession
  <2>2. leftover \subseteq leftover'
    BY <1>2, ForgetShape
  <2>3. \A j \in Instances : session'[j] = session[j] \/ session'[j] = None
    BY <1>2, ForgetShape
  <2>4. \A j \in Instances : Settled(session'[j], work'[j], row', j \in leftover')
    BY <1>a, <2>1, <2>2, <2>3 DEF Settled
  <2>5. ASSUME NEW b \in Admins \ {a}, Deletes(request'[b], row'), NEW j \in Instances \ leftover'
        PROVE  session'[j] = None /\ work'[j].phase = "idle"
    BY <1>2, <1>a, <2>1, <2>2, <2>3, <2>5, ForgetShape
  <2>6. ASSUME Deletes(request'[a], row'), NEW j \in Instances \ leftover'
        PROVE  session'[j] = None /\ work'[j].phase = "idle"
    <3>1. leftover' = leftover \cup {k \in Instances : \/ k # request[a].copy.home
                                                      \/ work[k].phase # "idle"}
      BY <1>2, <2>6, ForgetShape, NoRequestTyped DEF Deletes
    <3>2. j = request[a].copy.home /\ work[j].phase = "idle"
      BY <3>1
    <3> QED
      BY <1>2, <2>1, <3>2, ForgetShape
  <2> QED
    BY <1>p, <2>4, <2>5, <2>6
<1>3. ASSUME DeleteUser(a) PROVE Forgotten'
  <2>1. /\ UNCHANGED <<session, work, leftover>> /\ row' = None
        /\ Deletes(request[a], row)
    BY <1>3 DEF DeleteUser, Deletes, Is
  <2>2. \A j \in Instances \ leftover : session[j] = None /\ work[j].phase = "idle"
    BY <1>a, <2>1
  <2>3. \A j \in Instances : Settled(session'[j], work'[j], row', j \in leftover')
    BY <2>1, <2>2 DEF Settled
  <2> QED
    BY <1>p, <2>1, <2>3 DEF Deletes
<1>4. ASSUME RequestRefused(a) PROVE Forgotten'
  <2>1. UNCHANGED <<row, session, work, leftover>>
    BY <1>4 DEF RequestRefused
  <2>2. ~Deletes(request'[a], row)
    BY <1>4, AnswerShape, NoRequestTyped DEF Deletes
  <2> QED
    BY <1>4, <1>a, <1>p, <2>1, <2>2, AnswerShape
<1>5. ASSUME NEW op \in {"update", "delete", "reset"}, ReadUser(a, op) PROVE Forgotten'
  <2>1. UNCHANGED <<row, session, work, leftover>>
    BY <1>5 DEF ReadUser, Asking
  <2>2. ~Deletes(request'[a], row)
    BY <1>5, ReadShape DEF Deletes
  <2> QED
    BY <1>5, <1>a, <1>p, <2>1, <2>2, ReadShape
<1>6. ASSUME NEW F \in SUBSET Fields \ {{}}, UpdateUser(a, F) PROVE Forgotten'
  <2>1. /\ Update(a, request[a].copy, F) /\ request[a].copy \in Copy
        /\ request'[a] = NoRequest
        /\ \A b \in Admins \ {a} : request'[b] = request[b]
        /\ UNCHANGED <<session, work, leftover>>
    BY <1>6, UpdateUserShape DEF UpdateUser
  <2>2. row # None /\ row'.id = row.id /\ row' # None
    BY <1>d, <2>1, UpdateShape
  <2>3. \A j \in Instances : Settled(session'[j], work'[j], row', j \in leftover')
    BY <1>a, <2>1, <2>2 DEF Settled
  <2>4. ~Deletes(request'[a], row')
    BY <2>1, NoRequestTyped DEF Deletes
  <2>5. \A b \in Admins \ {a} : Deletes(request'[b], row') => Deletes(request[b], row)
    BY <2>1, <2>2 DEF Deletes
  <2> QED
    BY <1>a, <1>p, <2>1, <2>3, <2>4, <2>5
<1> QED
  BY <1>1, <1>2, <1>3, <1>4, <1>5, <1>6 DEF Request

\* Whoever writes again after being deleted starts afresh, unless the step was
\* set at another instance than the row's, or by a message that ran beside the
\* deletion: deleteUser forgets the session before it deletes the row, so that
\* between the two nothing else can know the contact.
THEOREM AfreshHolds == Spec => []StartsAfresh
<1>1. Init => Forgotten
  BY DEF Init, Forgotten, StartsAfresh, LeftBehind, NoWork, Is
<1>2. TypeOK /\ Copies /\ Forgotten /\ [Next]_vars => Forgotten'
  <2>1. ASSUME Forgotten, UNCHANGED vars PROVE Forgotten'
    BY <2>1 DEF Forgotten, StartsAfresh, LeftBehind, Is, vars
  <2> QED
    BY <2>1, MessageForgets, RequestForgets DEF Next
<1>3. Forgotten => StartsAfresh
  BY DEF Forgotten
<1> QED
  BY <1>1, <1>2, <1>3, TypeCorrect, CopiesHold, PTL DEF Spec
=============================================================================
