-------------------------- MODULE FlowPublishing --------------------------
(***************************************************************************)
(* What version of a flow a conversation runs: the draft and the published *)
(* content in the database, FlowService's cache in every replica, and the  *)
(* publishing that updates the first, drops the second and clears the      *)
(* sessions of the instances, beside messages that are in the middle of    *)
(* any of these.                                                           *)
(*                                                                         *)
(* The content of a flow is a version number, 0 for none; a new number is  *)
(* drawn for every draft that is saved.  What a message does in its        *)
(* conversation is only that it writes or clears session keys; the model   *)
(* notes for the properties which version wrote them.                      *)
(***************************************************************************)
EXTENDS Naturals, FiniteSets

CONSTANTS Replicas, Flows, Instances, Sessions,
          InstanceOf,    \* the instance of each conversation
          FirstFlow,     \* the flow each instance has at the start; it exists, unpublished
          Requests,      \* publications that may be under way at the same time
          MaxVersions,   \* bound on the drafts saved
          MaxAdmin,      \* bound on the other operations of administrators
          MaxFailures,   \* bound on restarts and on scans that fail
          None           \* no flow, no conversation, no replica

ASSUME PublishingAssumption ==
  /\ InstanceOf \in [Sessions -> Instances]
  /\ FirstFlow \in [Instances -> Flows \cup {None}]
  /\ MaxVersions \in Nat /\ MaxAdmin \in Nat /\ MaxFailures \in Nat
  /\ None \notin Replicas \cup Flows \cup Instances \cup Sessions

VARIABLES
  flow,      \* the Flow rows
  attached,  \* the column flowId of every instance
  cache,     \* FlowService.flows of every replica
  work,      \* the message each replica works on
  pub,       \* the publications under way
  session,   \* who wrote the session keys of a conversation: a run, or None
  saved, admin, failures,   \* counters for the bounds
  released,  \* versions that were published (history)
  behind,    \* replica and flow: the cache missed a publication (history)
  strays     \* conversations whose keys the last publication need not cover (history)

rows == <<flow, attached, saved, admin, released>>
vars == <<rows, cache, work, pub, session, failures, behind, strays>>

Versions == 0 .. MaxVersions
NoWork == [phase |-> "idle", session |-> None, flow |-> None, version |-> 0]
NoPub == [phase |-> "idle", replica |-> None, flow |-> None, version |-> 0,
          todo |-> {}, left |-> {}]

Live(f) == flow[f].state = "live"
SessionsOf(i) == {s \in Sessions : InstanceOf[s] = i}
AttachedTo(f) == {i \in Instances : attached[i] = f}
Published(f) == IF Live(f) THEN flow[f].published ELSE 0

Init ==
  /\ flow = [f \in Flows |-> LET used == \E i \in Instances : FirstFlow[i] = f
                             IN  [state |-> IF used THEN "live" ELSE "unborn",
                                  active |-> used, draft |-> 0, published |-> 0]]
  /\ attached = FirstFlow
  /\ cache = [r \in Replicas |-> [f \in Flows |-> 0]]
  /\ work = [r \in Replicas |-> NoWork]
  /\ pub = [q \in Requests |-> NoPub]
  /\ session = [s \in Sessions |-> None]
  /\ saved = 0 /\ admin = 0 /\ failures = 0
  /\ released = {}
  /\ behind = {}
  /\ strays = {}

-----------------------------------------------------------------------------
(* Administration *)

Administer ==
  /\ admin < MaxAdmin
  /\ admin' = admin + 1
  /\ UNCHANGED <<cache, work, pub, session, saved, failures, released, behind>>

\* A new flow: empty, or the copy of another one's draft, which starts inactive.
Create(f) ==
  /\ flow[f].state = "unborn"
  /\ flow' = [flow EXCEPT ![f].state = "live", ![f].active = TRUE]
  /\ Administer
  /\ UNCHANGED <<attached, strays>>

Duplicate(f, g) ==
  /\ Live(f) /\ flow[g].state = "unborn"
  /\ flow' = [flow EXCEPT ![g].state = "live", ![g].draft = flow[f].draft]
  /\ Administer
  /\ UNCHANGED <<attached, strays>>

\* Saving a draft leaves what is published alone.
Update(f) ==
  /\ Live(f) /\ saved < MaxVersions
  /\ saved' = saved + 1
  /\ flow' = [flow EXCEPT ![f].draft = saved + 1]
  /\ UNCHANGED <<attached, cache, work, pub, session, admin, failures, released, behind, strays>>

\* Either of the two routes that set an instance's flow (one may set it to
\* null).  The sessions of the instance stay as they are.
Attach(i, f) ==
  /\ f # None => Live(f)
  /\ attached' = [attached EXCEPT ![i] = f]
  /\ strays' = strays \cup SessionsOf(i)
  /\ Administer
  /\ UNCHANGED flow

ToggleActive(f) ==
  /\ Live(f)
  /\ flow' = [flow EXCEPT ![f].active = ~@]
  /\ Administer
  /\ UNCHANGED <<attached, strays>>

\* The database sets flowId to null in the instances of a deleted flow.
Remove(f) ==
  /\ Live(f)
  /\ flow' = [flow EXCEPT ![f].state = "removed"]
  /\ attached' = [i \in Instances |-> IF attached[i] = f THEN None ELSE attached[i]]
  /\ strays' = strays \cup UNION {SessionsOf(i) : i \in AttachedTo(f)}
  /\ Administer

-----------------------------------------------------------------------------
(* Publishing *)

\* publish reads the row; a draft without backendFlow is refused.
ReadDraft(q, r, f) ==
  /\ pub[q].phase = "idle"
  /\ Live(f) /\ flow[f].draft # 0
  /\ pub' = [pub EXCEPT ![q] = [NoPub EXCEPT !.phase = "read", !.replica = r,
                                             !.flow = f, !.version = flow[f].draft]]
  /\ UNCHANGED <<rows, cache, work, session, failures, behind, strays>>

\* The row is gone: update throws and nothing happens.
PublishRemoved(q) ==
  /\ pub[q].phase = "read" /\ ~Live(pub[q].flow)
  /\ pub' = [pub EXCEPT ![q] = NoPub]
  /\ UNCHANGED <<rows, cache, work, session, failures, behind, strays>>

\* Who may hold another version than the one just published by replica p:
\* the caches of other replicas, and messages between reading the row and
\* storing it.
Behind(p, f) ==
  {r \in Replicas : \/ r # p /\ cache[r][f] # 0
                    \/ work[r].phase = "read" /\ work[r].flow = f}

\* The draft that was read becomes the published content; the same query
\* returns the instances of the flow.
Publish(q) ==
  LET f == pub[q].flow IN
  /\ pub[q].phase = "read" /\ Live(f)
  /\ flow' = [flow EXCEPT ![f].published = pub[q].version]
  /\ released' = released \cup {pub[q].version}
  /\ pub' = [pub EXCEPT ![q] = [@ EXCEPT !.phase = "published", !.todo = AttachedTo(f)]]
  /\ behind' = {b \in behind : b # <<pub[q].replica, f>>}
               \cup {<<r, f>> : r \in Behind(pub[q].replica, f)}
  /\ UNCHANGED <<attached, cache, work, session, saved, admin, failures, strays>>

\* The scan of the keys of i begins.
Scanning(q, i) ==
  [pub[q] EXCEPT !.phase = "scanning", !.version = 0, !.todo = @ \ {i},
                 !.left = {s \in SessionsOf(i) : session[s] # None}]

\* Mutant: the cached flow is dropped only when there are no instances.
InvalidateSessionsOnly(q) ==
  LET r == pub[q].replica IN
  /\ pub[q].phase = "published"
  /\ \/ /\ pub[q].todo = {}
        /\ cache' = [cache EXCEPT ![r][pub[q].flow] = 0]
        /\ pub' = [pub EXCEPT ![q] = NoPub]
     \/ \E i \in pub[q].todo :
          /\ pub' = [pub EXCEPT ![q] = Scanning(q, i)]
          /\ UNCHANGED cache
  /\ UNCHANGED <<rows, work, session, failures, behind, strays>>

\* invalidateCache drops the cached flow and starts to scan the sessions of
\* the next instance; without instances it only drops the flow.
Invalidate(q) ==
  LET r == pub[q].replica IN
  /\ pub[q].phase = "published"
  /\ cache' = [cache EXCEPT ![r][pub[q].flow] = 0]
  /\ \/ /\ pub[q].todo = {}
        /\ pub' = [pub EXCEPT ![q] = NoPub]
     \/ \E i \in pub[q].todo :
          pub' = [pub EXCEPT ![q] = Scanning(q, i)]
  /\ UNCHANGED <<rows, work, session, failures, behind, strays>>

\* Deletes the keys of a set of conversations.
Cleared(S) == [s \in Sessions |-> IF s \in S THEN None ELSE session[s]]

\* One round of SCAN and DEL.  A scan returns every key that was there from
\* its start to its end; keys written meanwhile it may return or miss.
ScanBatch(q, S) ==
  /\ pub[q].phase = "scanning"
  /\ pub[q].left # {} /\ S \cap pub[q].left # {}
  /\ \A s, t \in S : InstanceOf[s] = InstanceOf[t]
  /\ session' = Cleared(S)
  /\ strays' = strays \ S
  /\ pub' = [pub EXCEPT ![q] = [@ EXCEPT !.left = pub[q].left \ S]]
  /\ UNCHANGED <<rows, cache, work, failures, behind>>

\* Mutant: one round of SCAN, whatever cursor it returns.
ScanEndAtOnce(q) ==
  /\ pub[q].phase = "scanning"
  /\ pub' = [pub EXCEPT ![q] = IF pub[q].todo = {} THEN NoPub
                               ELSE [@ EXCEPT !.phase = "published", !.left = {}]]
  /\ UNCHANGED <<rows, cache, work, session, failures, behind, strays>>

\* The cursor is back at 0: on to the next instance, or done.
ScanEnd(q) ==
  /\ pub[q].phase = "scanning" /\ pub[q].left = {}
  /\ pub' = [pub EXCEPT ![q] = IF pub[q].todo = {} THEN NoPub
                               ELSE [@ EXCEPT !.phase = "published"]]
  /\ UNCHANGED <<rows, cache, work, session, failures, behind, strays>>

-----------------------------------------------------------------------------
(* Messages *)

\* A replica takes a message of s, holding the lock of the conversation, and
\* reads its instance; without an active flow it leaves the message alone.
Begin(r, s) ==
  LET f == attached[InstanceOf[s]] IN
  /\ work[r].phase = "idle"
  /\ \A o \in Replicas : work[o].session # s
  /\ f # None /\ flow[f].active
  /\ work' = [work EXCEPT ![r] = [NoWork EXCEPT !.phase = "begun", !.session = s, !.flow = f]]
  /\ UNCHANGED <<rows, cache, pub, session, failures, behind, strays>>

FromCache(r) ==
  LET v == cache[r][work[r].flow] IN
  /\ work[r].phase = "begun" /\ v # 0
  /\ work' = [work EXCEPT ![r].phase = "running", ![r].version = v]
  /\ UNCHANGED <<rows, cache, pub, session, failures, behind, strays>>

\* Mutant: the draft is run where nothing is published yet.
FromDraft(r) ==
  LET f == work[r].flow
      v == IF Published(f) # 0 THEN Published(f) ELSE flow[f].draft
  IN
  /\ work[r].phase = "begun" /\ cache[r][f] = 0
  /\ work' = [work EXCEPT ![r] = IF v = 0 THEN NoWork
                                 ELSE [@ EXCEPT !.phase = "read", !.version = v]]
  /\ UNCHANGED <<rows, cache, pub, session, failures, behind, strays>>

\* Not cached: the row is read; a flow without published content ends the message.
FromDatabase(r) ==
  LET f == work[r].flow IN
  /\ work[r].phase = "begun" /\ cache[r][f] = 0
  /\ work' = [work EXCEPT ![r] = IF Published(f) = 0 THEN NoWork
                                 ELSE [@ EXCEPT !.phase = "read", !.version = Published(f)]]
  /\ UNCHANGED <<rows, cache, pub, session, failures, behind, strays>>

\* The row arrives and is put into the cache.
Store(r) ==
  /\ work[r].phase = "read"
  /\ cache' = [cache EXCEPT ![r][work[r].flow] = work[r].version]
  /\ work' = [work EXCEPT ![r].phase = "running"]
  /\ UNCHANGED <<rows, pub, session, failures, behind, strays>>

\* Does the conversation belong to the published version of this flow?
UpToDate(s, f, v) == attached[InstanceOf[s]] = f /\ v = Published(f)

\* The chain enters a step: it writes session keys.
Enter(r) ==
  LET s == work[r].session IN
  /\ work[r].phase = "running"
  /\ session' = [session EXCEPT ![s] = [flow |-> work[r].flow, version |-> work[r].version]]
  /\ strays' = IF UpToDate(s, work[r].flow, work[r].version) THEN strays \ {s} ELSE strays \cup {s}
  /\ UNCHANGED <<rows, cache, work, pub, failures, behind>>

\* Mutant: the chain is not awaited, the lock goes while it runs.
FinishEarly(r) ==
  /\ work[r].phase = "running"
  /\ work' = [work EXCEPT ![r].session = None]
  /\ UNCHANGED <<rows, cache, pub, session, failures, behind, strays>>

Finish(r) ==
  /\ work[r].phase = "running"
  /\ work' = [work EXCEPT ![r] = NoWork]
  /\ UNCHANGED <<rows, cache, pub, session, failures, behind, strays>>

\* The keys go: an END that is over, the step limit, 24 hours of silence.
Clear(s) ==
  /\ session[s] # None
  /\ session' = Cleared({s})
  /\ strays' = strays \ {s}
  /\ UNCHANGED <<rows, cache, work, pub, failures, behind>>

-----------------------------------------------------------------------------
(* Failures *)

\* What a publication leaves undone when it ends before its time.
Unfinished(Q) == UNION {pub[q].left \cup UNION {SessionsOf(i) : i \in pub[q].todo} : q \in Q}

\* Redis fails during a scan: the request ends with an error, the new content
\* stays published.
ScanFails(q) ==
  /\ pub[q].phase = "scanning" /\ failures < MaxFailures
  /\ failures' = failures + 1
  /\ strays' = strays \cup Unfinished({q})
  /\ pub' = [pub EXCEPT ![q] = NoPub]
  /\ UNCHANGED <<rows, cache, work, session, behind>>

\* A replica restarts with an empty cache; its message and its publications
\* end where they are.
Restart(r) ==
  LET Q == {q \in Requests : pub[q].replica = r} IN
  /\ failures < MaxFailures
  /\ failures' = failures + 1
  /\ cache' = [cache EXCEPT ![r] = [f \in Flows |-> 0]]
  /\ work' = [work EXCEPT ![r] = NoWork]
  /\ pub' = [q \in Requests |-> IF q \in Q THEN NoPub ELSE pub[q]]
  /\ strays' = strays \cup Unfinished(Q)
  /\ behind' = {b \in behind : b[1] # r}
  /\ UNCHANGED <<rows, session>>

-----------------------------------------------------------------------------
Administration ==
  \/ \E f \in Flows : Create(f) \/ Update(f) \/ ToggleActive(f) \/ Remove(f)
  \/ \E f, g \in Flows : Duplicate(f, g)
  \/ \E i \in Instances, f \in Flows \cup {None} : Attach(i, f)

Publishing(q) ==
  \/ \E r \in Replicas, f \in Flows : ReadDraft(q, r, f)
  \/ PublishRemoved(q) \/ Publish(q) \/ Invalidate(q) \/ ScanEnd(q) \/ ScanFails(q)
  \/ \E S \in SUBSET Sessions : ScanBatch(q, S)

Serving(r) ==
  \/ \E s \in Sessions : Begin(r, s)
  \/ FromCache(r) \/ FromDatabase(r) \/ Store(r) \/ Enter(r) \/ Finish(r) \/ Restart(r)

Next ==
  \/ Administration
  \/ \E q \in Requests : Publishing(q)
  \/ \E r \in Replicas : Serving(r)
  \/ \E s \in Sessions : Clear(s)

Spec == Init /\ [][Next]_vars

-----------------------------------------------------------------------------
Row == [state : {"unborn", "live", "removed"}, active : BOOLEAN,
        draft : Versions, published : Versions]
Run == [flow : Flows, version : Versions]
Job == [phase : {"idle", "begun", "read", "running"}, session : Sessions \cup {None},
        flow : Flows \cup {None}, version : Versions]
Publication == [phase : {"idle", "read", "published", "scanning"}, replica : Replicas \cup {None},
                flow : Flows \cup {None}, version : Versions,
                todo : SUBSET Instances, left : SUBSET Sessions]

TypeOK ==
  /\ flow \in [Flows -> Row]
  /\ attached \in [Instances -> Flows \cup {None}]
  /\ cache \in [Replicas -> [Flows -> Versions]]
  /\ work \in [Replicas -> Job]
  /\ \A r \in Replicas : work[r].phase # "idle" => work[r].session # None /\ work[r].flow # None
  /\ pub \in [Requests -> Publication]
  /\ \A q \in Requests : pub[q].phase # "idle" => pub[q].replica # None /\ pub[q].flow # None
  /\ session \in [Sessions -> Run \cup {None}]
  /\ saved \in Versions /\ admin \in 0 .. MaxAdmin /\ failures \in 0 .. MaxFailures
  /\ released \subseteq Versions
  /\ behind \subseteq Replicas \X Flows
  /\ strays \subseteq Sessions

\* A customer never meets a draft: what is cached, about to be stored or running
\* was published (prisma/schema.prisma:56 calls it frozen), whatever was
\* saved, published or removed meanwhile.
OnlyPublished ==
  /\ \A r \in Replicas, f \in Flows : cache[r][f] \in released \cup {0}
  /\ \A r \in Replicas : work[r].phase \in {"read", "running"} => work[r].version \in released
  /\ \A s \in Sessions : session[s] # None => session[s].version \in released

\* Between the update of the row and flows.delete the publishing replica
\* still has the old content.
Dropping(r, f) ==
  \E q \in Requests : pub[q].phase = "published" /\ pub[q].replica = r /\ pub[q].flow = f

\* A replica's cache is the published content of a flow, unless another
\* replica has published, a message held the old row over the publication
\* (flow.service.ts:43-50), or invalidateCache is about to drop it.
CacheFollowsPublication ==
  \A r \in Replicas, f \in Flows :
    \/ cache[r][f] = 0 \/ ~Live(f)
    \/ cache[r][f] = flow[f].published
    \/ <<r, f>> \in behind
    \/ Dropping(r, f)

\* Is a publication going to clear these keys yet?
Uncleared(s) == \E q \in Requests : InstanceOf[s] \in pub[q].todo \/ s \in pub[q].left

\* A conversation stands in the published version of its instance's flow, or
\* a publication is about to clear it.  Exceptions are the ones in strays:
\* the keys were written by a message on outdated content, the instance
\* changed its flow, or the publication broke off.
SessionFollowsPublication ==
  \A s \in Sessions :
    session[s] # None =>
      UpToDate(s, session[s].flow, session[s].version) \/ s \in strays \/ Uncleared(s)
=============================================================================
