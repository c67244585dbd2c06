---------------------------- MODULE ContactRow ----------------------------
(***************************************************************************)
(* One contact's row in the User table, written without any lock by the    *)
(* messages the phone sends to different instances (the conversation lock  *)
(* is per instance) and by the requests of administrators.                 *)
(*                                                                         *)
(* A message reads the row once; handlers then write the whole metadata    *)
(* column from that copy, or the name alone.  A request reads the row and  *)
(* writes its merge in a second query.  Every value is the number of the   *)
(* write it came from, so that a value written back can be told from a new *)
(* one; emptying a variable is a write like any other.                     *)
(***************************************************************************)
EXTENDS Naturals

CONSTANTS Instances,
          Keys,         \* keys of the metadata column
          Admins,       \* requests that may be under way at the same time
          MaxMessages, MaxRequests, MaxWrites,  \* bounds
          None

Name == "name"
Fields == Keys \cup {Name}

\* The row, and what somebody read of it.
Copy == [id : Nat, value : [Fields -> Nat], home : Instances \cup {None}]

ASSUME ContactAssumption ==
  /\ Name \notin Keys
  /\ Instances \cap Admins = {}
  /\ None \notin Instances \cup Admins \cup Nat \cup Copy
  /\ MaxMessages \in Nat /\ MaxRequests \in Nat /\ MaxWrites \in Nat

VARIABLES
  row,      \* the row: its id, the value of every field, the instance; or None
  session,  \* the step key at each instance: the id of the contact it was set for
  work,     \* the message each instance's conversation works on, with its copy of the row
  request,  \* the requests, with their copy
  ids, writes, messages, requests,  \* counters
  stale,    \* fields somebody else wrote since an actor read the row (history)
  raced,    \* actors during whose work the row was created or deleted (history)
  leftover  \* instances whose step key a deletion need not have caught (history)

vars == <<row, session, work, request, ids, writes, messages, requests, stale, raced, leftover>>

Actors == Instances \cup Admins
NoCopy == [id |-> 0, value |-> [f \in Fields |-> 0], home |-> None]
NoWork == [phase |-> "idle", copy |-> NoCopy]
NoRequest == [phase |-> "idle", copy |-> NoCopy]

Deleting == \E a \in Admins : request[a].phase = "remove"
Is(copy) == row # None /\ row.id = copy.id
Active == {i \in Instances : work[i].phase # "idle"} \cup {a \in Admins : request[a].phase # "idle"}

Init ==
  /\ row = None
  /\ session = [i \in Instances |-> None]
  /\ work = [i \in Instances |-> NoWork]
  /\ request = [a \in Admins |-> NoRequest]
  /\ ids = 0 /\ writes = 0 /\ messages = 0 /\ requests = 0
  /\ stale = [x \in Actors |-> {}]
  /\ raced = {}
  /\ leftover = {}

\* What is written when the given fields are: metadata is one column.
Written(F) == F \cup (IF F \cap Keys # {} THEN Keys ELSE {})

\* Everybody else's copy is out of date in the fields written, one's own is not.
Outdate(x, F) ==
  stale' = [y \in Actors |-> IF y = x THEN stale[x] \ Written(F) ELSE stale[y] \cup Written(F)]

\* A new row, by a message at its instance or by a request without one.
NewRow(x, home) ==
  /\ row' = [NoCopy EXCEPT !.id = ids + 1, !.home = home]
  /\ ids' = ids + 1
  /\ raced' = raced \cup (Active \ {x})

\* An update of the row whose copy x holds: the given fields become new.
\* The metadata is written from the copy; the name is a column of its own.
Updated(copy, F) ==
  [row EXCEPT !.value = [f \in Fields |->
     IF f \in F THEN writes + 1
     ELSE IF f \in Written(F) THEN copy.value[f]
     ELSE row.value[f]]]

Update(x, copy, F) ==
  /\ Is(copy) /\ writes < MaxWrites
  /\ row' = Updated(copy, F)
  /\ writes' = writes + 1
  /\ Outdate(x, F)

-----------------------------------------------------------------------------
(* Messages *)

\* Mutant: contacts are looked for by phone and instance.
FindAtInstance(i) ==
  /\ work[i].phase = "idle" /\ messages < MaxMessages
  /\ messages' = messages + 1
  /\ work' = [work EXCEPT ![i] = IF row = None THEN [NoWork EXCEPT !.phase = "missing"]
                                 ELSE IF row.home # i THEN [NoWork EXCEPT !.phase = "missing"]
                                 ELSE [phase |-> "found", copy |-> row]]
  /\ stale' = [stale EXCEPT ![i] = {}]
  /\ raced' = raced \ {i}
  /\ leftover' = IF Deleting THEN leftover \cup {i} ELSE leftover
  /\ UNCHANGED <<row, session, request, ids, writes, requests>>

\* findUnique by phone.
Find(i) ==
  /\ work[i].phase = "idle" /\ messages < MaxMessages
  /\ messages' = messages + 1
  /\ work' = [work EXCEPT ![i] = IF row = None THEN [NoWork EXCEPT !.phase = "missing"]
                                 ELSE [phase |-> "found", copy |-> row]]
  /\ stale' = [stale EXCEPT ![i] = {}]
  /\ raced' = raced \ {i}
  /\ leftover' = IF Deleting THEN leftover \cup {i} ELSE leftover
  /\ UNCHANGED <<row, session, request, ids, writes, requests>>

\* Mutant: the contact created is not assigned.
CreateUnassigned(i) ==
  /\ work[i].phase = "missing" /\ row = None
  /\ NewRow(i, i)
  /\ work' = [work EXCEPT ![i] = [phase |-> "found", copy |-> None]]
  /\ stale' = [stale EXCEPT ![i] = {}]
  /\ UNCHANGED <<session, request, writes, messages, requests, leftover>>

\* Nobody there: create, with the instance the message came from.
CreateContact(i) ==
  /\ work[i].phase = "missing" /\ row = None
  /\ NewRow(i, i)
  /\ work' = [work EXCEPT ![i] = [phase |-> "found", copy |-> row']]
  /\ stale' = [stale EXCEPT ![i] = {}]
  /\ UNCHANGED <<session, request, writes, messages, requests, leftover>>

\* The phone is unique: somebody else was faster and the message is lost.
CreateRefused(i) ==
  /\ work[i].phase = "missing" /\ row # None
  /\ work' = [work EXCEPT ![i].phase = "dropped"]
  /\ UNCHANGED <<row, session, request, ids, writes, messages, requests, stale, raced, leftover>>

\* The message is put into the history, which needs the row.
KeepMessage(i) ==
  /\ work[i].phase = "found"
  /\ work' = [work EXCEPT ![i].phase = IF Is(work[i].copy) THEN "working" ELSE "dropped"]
  /\ UNCHANGED <<row, session, request, ids, writes, messages, requests, stale, raced, leftover>>

\* Mutant: the handler does not refresh ctx.user.
SaveForgetful(i, f) ==
  /\ work[i].phase = "working"
  /\ Update(i, work[i].copy, {f})
  /\ UNCHANGED <<session, work, request, ids, messages, requests, raced, leftover>>

\* A handler stores an answer, a variable or a result, and keeps its copy up
\* to date.
Save(i, f) ==
  /\ work[i].phase = "working"
  /\ Update(i, work[i].copy, {f})
  /\ work' = [work EXCEPT ![i].copy.value[f] = writes + 1]
  /\ UNCHANGED <<session, request, ids, messages, requests, raced, leftover>>

\* The row is gone: the update throws and the message ends.
SaveRefused(i) ==
  /\ work[i].phase = "working" /\ ~Is(work[i].copy)
  /\ work' = [work EXCEPT ![i].phase = "dropped"]
  /\ UNCHANGED <<row, session, request, ids, writes, messages, requests, stale, raced, leftover>>

\* The chain enters a step.
SetStep(i) ==
  /\ work[i].phase = "working"
  /\ session' = [session EXCEPT ![i] = work[i].copy.id]
  /\ leftover' = IF Is(work[i].copy) /\ ~Deleting THEN leftover \ {i} ELSE leftover
  /\ UNCHANGED <<row, work, request, ids, writes, messages, requests, stale, raced>>

\* The chain clears the step, or 24 hours go by.
ClearStep(i) ==
  /\ session[i] # None
  /\ session' = [session EXCEPT ![i] = None]
  /\ UNCHANGED <<row, work, request, ids, writes, messages, requests, stale, raced, leftover>>

\* A timed END writes its expiry without touching the copy; it is the last
\* thing a message does.
EndStep(i, k) ==
  /\ work[i].phase = "working"
  /\ Update(i, work[i].copy, {k})
  /\ work' = [work EXCEPT ![i].phase = "ended"]
  /\ UNCHANGED <<session, request, ids, messages, requests, raced, leftover>>

Done(i) ==
  /\ work[i].phase \in {"working", "ended", "dropped"}
  /\ work' = [work EXCEPT ![i] = NoWork]
  /\ UNCHANGED <<row, session, request, ids, writes, messages, requests, stale, raced, leftover>>

-----------------------------------------------------------------------------
(* Requests *)

Asking(a) ==
  /\ request[a].phase = "idle" /\ requests < MaxRequests
  /\ requests' = requests + 1

CreateUser(a) ==
  /\ Asking(a)
  /\ row = None /\ NewRow(a, None)
  /\ UNCHANGED <<session, work, request, writes, messages, stale, leftover>>

\* updateUser, deleteUser and resetFlow read the row first.
ReadUser(a, op) ==
  /\ Asking(a) /\ row # None
  /\ request' = [request EXCEPT ![a] = [phase |-> op, copy |-> row]]
  /\ stale' = [stale EXCEPT ![a] = {}]
  /\ raced' = raced \ {a}
  /\ UNCHANGED <<row, session, work, ids, writes, messages, leftover>>

\* Mutant: the metadata sent replaces the metadata stored.
UpdateReplacing(a, F) ==
  /\ request[a].phase = "update"
  /\ Update(a, [request[a].copy EXCEPT !.value = [f \in Fields |-> 0]], F)
  /\ request' = [request EXCEPT ![a] = NoRequest]
  /\ UNCHANGED <<session, work, ids, messages, requests, raced, leftover>>

\* The name is written if it was sent, the metadata merged into the copy's.
UpdateUser(a, F) ==
  /\ request[a].phase = "update"
  /\ Update(a, request[a].copy, F)
  /\ request' = [request EXCEPT ![a] = NoRequest]
  /\ UNCHANGED <<session, work, ids, messages, requests, raced, leftover>>

\* Mutant: deleteUser leaves the session alone.
ForgetNothing(a) ==
  LET home == request[a].copy.home IN
  /\ \/ /\ request[a].phase = "reset"
        /\ request' = [request EXCEPT ![a] = NoRequest]
        /\ UNCHANGED leftover
     \/ /\ request[a].phase = "delete"
        /\ request' = [request EXCEPT ![a].phase = "remove"]
        /\ leftover' = leftover \cup {i \in Instances : i # home \/ work[i].phase # "idle"}
  /\ UNCHANGED <<row, session, work, ids, writes, messages, requests, stale, raced>>

\* The conversation at the instance of the row is forgotten.  Other instances
\* keep theirs, and so does a message that is in the middle of its work.
\* Three calls clear the keys of the session; session stands for the step's,
\* the one that tells where the next message goes.
ForgetSession(a) ==
  LET home == request[a].copy.home IN
  /\ session' = IF home = None THEN session ELSE [session EXCEPT ![home] = None]
  /\ \/ /\ request[a].phase = "reset"
        /\ request' = [request EXCEPT ![a] = NoRequest]
        /\ UNCHANGED leftover
     \/ /\ request[a].phase = "delete"
        /\ request' = [request EXCEPT ![a].phase = "remove"]
        /\ leftover' = leftover \cup {i \in Instances : i # home \/ work[i].phase # "idle"}
  /\ UNCHANGED <<row, work, ids, writes, messages, requests, stale, raced>>

DeleteUser(a) ==
  /\ request[a].phase = "remove" /\ Is(request[a].copy)
  /\ row' = None
  /\ raced' = raced \cup (Active \ {a})
  /\ request' = [request EXCEPT ![a] = NoRequest]
  /\ UNCHANGED <<session, work, ids, writes, messages, requests, stale, leftover>>

\* The row is gone: the request fails.
RequestRefused(a) ==
  /\ request[a].phase \in {"update", "remove"} /\ ~Is(request[a].copy)
  /\ request' = [request EXCEPT ![a] = NoRequest]
  /\ UNCHANGED <<row, session, work, ids, writes, messages, requests, stale, raced, leftover>>

-----------------------------------------------------------------------------
Message(i) ==
  \/ Find(i) \/ CreateContact(i) \/ CreateRefused(i) \/ KeepMessage(i) \/ SaveRefused(i)
  \/ SetStep(i) \/ ClearStep(i) \/ Done(i)
  \/ \E f \in Fields : Save(i, f)
  \/ \E k \in Keys : EndStep(i, k)

Request(a) ==
  \/ CreateUser(a) \/ ForgetSession(a) \/ DeleteUser(a) \/ RequestRefused(a)
  \/ \E op \in {"update", "delete", "reset"} : ReadUser(a, op)
  \/ \E F \in SUBSET Fields \ {{}} : UpdateUser(a, F)

Next ==
  \/ \E i \in Instances : Message(i)
  \/ \E a \in Admins : Request(a)

Spec == Init /\ [][Next]_vars

-----------------------------------------------------------------------------
TypeOK ==
  /\ row \in Copy \cup {None}
  /\ session \in [Instances -> Nat \cup {None}]
  /\ work \in [Instances -> [phase : {"idle", "missing", "found", "working", "ended", "dropped"},
                             copy : Copy]]
  /\ request \in [Admins -> [phase : {"idle", "update", "delete", "reset", "remove"}, copy : Copy]]
  /\ ids \in Nat /\ writes \in 0 .. MaxWrites
  /\ messages \in 0 .. MaxMessages /\ requests \in 0 .. MaxRequests
  /\ stale \in [Actors -> SUBSET Fields]
  /\ raced \subseteq Actors
  /\ leftover \subseteq Instances

\* While nobody else writes a field, a message's copy is what the row holds,
\* so its conditions and texts see its own answers, and its next write of the
\* column does not undo them.
CopyIsRow ==
  \A i \in Instances :
    work[i].phase \in {"found", "working"} /\ Is(work[i].copy) =>
      \A f \in Fields \ stale[i] : work[i].copy.value[f] = row.value[f]

Steps(x) == IF x \in Instances THEN work'[x] # work[x] ELSE request'[x] # request[x]

\* A stored value is lost only to a new value, to the row's deletion, or to
\* somebody who read the row before it was stored and writes the column
\* after.  The name, a column of its own, is never lost that way.
KeptUnlessOverlapped ==
  row # None /\ row' # None /\ row'.id = row.id =>
    \A f \in Fields :
      \/ row'.value[f] \in {row.value[f], writes'}
      \/ f # Name /\ \E x \in Actors : Steps(x) /\ f \in stale[x]

LostOnlyToOverlap == [][KeptUnlessOverlapped]_vars

\* A message is dropped only if its contact was created or deleted under it.
DroppedOnlyIfRaced == \A i \in Instances : work[i].phase = "dropped" => i \in raced

\* A contact does not find the step of a deleted one: the deletion forgot it,
\* unless it was set at another instance than the row's or by a message that
\* ran beside the deletion.
StartsAfresh ==
  \A i \in Instances : session[i] # None =>
    (row # None /\ row.id = session[i]) \/ i \in leftover
=============================================================================
