----------------------- MODULE FlowPublishingProofs -----------------------
(***************************************************************************)
(* Theorems about FlowPublishing, for any number of replicas, flows,       *)
(* instances, conversations and overlapping publications.                  *)
(***************************************************************************)
EXTENDS FlowPublishing, TLAPS

(* Types *)

LEMMA InitTyped == Init => TypeOK
<1> SUFFICES ASSUME Init PROVE TypeOK
  OBVIOUS
<1> USE PublishingAssumption
<1>1. 0 \in Versions /\ 0 \in 0 .. MaxAdmin /\ 0 \in 0 .. MaxFailures
  BY DEF Versions
<1>2. flow \in [Flows -> Row]
  BY <1>1 DEF Init, Row
<1>3. work \in [Replicas -> Job] /\ \A r \in Replicas : work[r].phase = "idle"
  BY <1>1 DEF Init, NoWork, Job
<1>4. pub \in [Requests -> Publication] /\ \A q \in Requests : pub[q].phase = "idle"
  BY <1>1 DEF Init, NoPub, Publication
<1> QED
  BY <1>1, <1>2, <1>3, <1>4 DEF Init, TypeOK

\* Administrators: only the rows, the history of strays and a counter move.
LEMMA AdministrationTyped == TypeOK /\ Administration => TypeOK'
<1> SUFFICES ASSUME TypeOK, Administration PROVE TypeOK'
  OBVIOUS
<1> USE PublishingAssumption
<1>a. ASSUME Administer PROVE admin' \in 0 .. MaxAdmin /\ saved' \in Versions
  BY <1>a DEF Administer, TypeOK
<1>1. ASSUME NEW f \in Flows, Create(f) PROVE TypeOK'
  <2> DEFINE q == [flow[f] EXCEPT !.state = "live", !.active = TRUE]
  <2>0. q \in Row
    <3>1. flow[f] \in Row
      BY DEF TypeOK
    <3> QED
      BY <3>1, Zenon DEF Row
  <2>1. flow' \in [Flows -> Row]
    <3>1. flow' = [flow EXCEPT ![f] = q]
      BY <1>1 DEF Create
    <3> HIDE DEF q
    <3> QED
      BY <2>0, <3>1 DEF TypeOK
  <2> QED
    BY <1>1, <1>a, <2>1 DEF Create, Administer, TypeOK
<1>2. ASSUME NEW f \in Flows, Update(f) PROVE TypeOK'
  <2>1. saved' \in Versions
    BY <1>2 DEF Update, TypeOK, Versions
  <2>2. flow' \in [Flows -> Row]
    BY <1>2, <2>1 DEF Update, TypeOK, Row
  <2> QED
    BY <1>2, <2>1, <2>2 DEF Update, TypeOK
<1>3. ASSUME NEW f \in Flows, ToggleActive(f) PROVE TypeOK'
  <2>1. flow' \in [Flows -> Row]
    BY <1>3 DEF ToggleActive, TypeOK, Row
  <2> QED
    BY <1>3, <1>a, <2>1 DEF ToggleActive, Administer, TypeOK
<1>4. ASSUME NEW f \in Flows, Remove(f) PROVE TypeOK'
  <2>1. flow' \in [Flows -> Row]
    BY <1>4 DEF Remove, TypeOK, Row
  <2>2. attached' \in [Instances -> Flows \cup {None}] /\ strays' \subseteq Sessions
    BY <1>4 DEF Remove, TypeOK, SessionsOf
  <2> QED
    BY <1>4, <1>a, <2>1, <2>2 DEF Remove, Administer, TypeOK
<1>5. ASSUME NEW f \in Flows, NEW g \in Flows, Duplicate(f, g) PROVE TypeOK'
  <2> DEFINE q == [flow[g] EXCEPT !.state = "live", !.draft = flow[f].draft]
  <2>0. q \in Row
    <3>1. flow[f] \in Row /\ flow[g] \in Row
      BY DEF TypeOK
    <3> QED
      BY <3>1, Zenon DEF Row
  <2>1. flow' \in [Flows -> Row]
    <3>1. flow' = [flow EXCEPT ![g] = q]
      BY <1>5 DEF Duplicate
    <3> HIDE DEF q
    <3> QED
      BY <2>0, <3>1 DEF TypeOK
  <2> QED
    BY <1>5, <1>a, <2>1 DEF Duplicate, Administer, TypeOK
<1>6. ASSUME NEW i \in Instances, NEW f \in Flows \cup {None}, Attach(i, f) PROVE TypeOK'
  <2>1. attached' \in [Instances -> Flows \cup {None}] /\ strays' \subseteq Sessions
    BY <1>6 DEF Attach, TypeOK, SessionsOf
  <2> QED
    BY <1>6, <1>a, <2>1 DEF Attach, Administer, TypeOK
<1> QED
  BY <1>1, <1>2, <1>3, <1>4, <1>5, <1>6 DEF Administration

\* One publication changes, to a publication.
LEMMA PubStep ==
  ASSUME TypeOK, NEW q \in Requests, NEW new \in Publication,
         new.phase # "idle" => new.replica # None /\ new.flow # None,
         pub' = [pub EXCEPT ![q] = new]
  PROVE  /\ pub' \in [Requests -> Publication]
         /\ \A p \in Requests : pub'[p].phase # "idle" => pub'[p].replica # None /\ pub'[p].flow # None
BY DEF TypeOK

LEMMA PublishingTyped ==
  ASSUME NEW q \in Requests, TypeOK, Publishing(q)
  PROVE  TypeOK'
<1> USE PublishingAssumption
<1>n. NoPub \in Publication /\ NoPub.phase = "idle"
  BY DEF NoPub, Publication, Versions
<1>t. /\ pub[q] \in Publication
      /\ pub[q].phase # "idle" => pub[q].replica # None /\ pub[q].flow # None
  BY DEF TypeOK
<1>1. ASSUME NEW r \in Replicas, NEW f \in Flows, ReadDraft(q, r, f) PROVE TypeOK'
  <2> DEFINE new == [NoPub EXCEPT !.phase = "read", !.replica = r, !.flow = f,
                                  !.version = flow[f].draft]
  <2>1. flow[f].draft \in Versions
    BY DEF TypeOK, Row
  <2>2. new \in Publication /\ new.replica = r /\ new.flow = f
    BY <2>1 DEF NoPub, Publication
  <2>3. pub' = [pub EXCEPT ![q] = new]
    BY <1>1 DEF ReadDraft
  <2> HIDE DEF new
  <2> QED
    BY <1>1, <2>2, <2>3 DEF ReadDraft, rows, TypeOK
<1>2. CASE PublishRemoved(q)
  BY <1>2, <1>n DEF PublishRemoved, rows, TypeOK
<1>3. CASE Publish(q)
  <2>1. pub[q].flow \in Flows /\ pub[q].replica \in Replicas /\ pub[q].version \in Versions
    BY <1>3, <1>t DEF Publish, Publication
  <2>2. flow' \in [Flows -> Row] /\ released' \subseteq Versions
    BY <1>3, <2>1 DEF Publish, TypeOK, Row
  <2> DEFINE new == [pub[q] EXCEPT !.phase = "published", !.todo = AttachedTo(pub[q].flow)]
  <2>3. new \in Publication /\ new.replica = pub[q].replica /\ new.flow = pub[q].flow
    BY <1>t DEF Publication, AttachedTo
  <2>4. pub' = [pub EXCEPT ![q] = new]
    BY <1>3 DEF Publish
  <2>5. behind' \subseteq Replicas \X Flows
    BY <1>3, <2>1 DEF Publish, TypeOK, Behind
  <2> HIDE DEF new
  <2> QED
    BY <1>3, <2>1, <2>2, <2>3, <2>4, <2>5, PubStep DEF Publish, TypeOK
<1>4. CASE Invalidate(q)
  <2>1. pub[q].flow \in Flows /\ pub[q].replica \in Replicas
    BY <1>4, <1>t DEF Invalidate, Publication
  <2>2. cache' \in [Replicas -> [Flows -> Versions]]
    <3>1. 0 \in Versions
      BY DEF Versions
    <3>2. [cache[pub[q].replica] EXCEPT ![pub[q].flow] = 0] \in [Flows -> Versions]
      BY <2>1, <3>1 DEF TypeOK
    <3> QED
      BY <1>4, <2>1, <3>2 DEF Invalidate, TypeOK
  <2>3. ASSUME NEW i \in pub[q].todo
        PROVE  /\ Scanning(q, i) \in Publication
               /\ Scanning(q, i).replica = pub[q].replica /\ Scanning(q, i).flow = pub[q].flow
    <3> DEFINE L == {s \in SessionsOf(i) : session[s] # None}
    <3>1. L \in SUBSET Sessions /\ 0 \in Versions
      BY DEF SessionsOf, Versions
    <3>2. Scanning(q, i) = [pub[q] EXCEPT !.phase = "scanning", !.version = 0,
                                          !.todo = @ \ {i}, !.left = L]
      BY DEF Scanning
    <3> HIDE DEF L
    <3> QED
      BY <1>t, <3>1, <3>2 DEF Publication
  <2>4. /\ pub' \in [Requests -> Publication]
        /\ \A p \in Requests : pub'[p].phase # "idle" => pub'[p].replica # None /\ pub'[p].flow # None
    BY <1>4, <1>n, <2>1, <2>3, PubStep DEF Invalidate
  <2> QED
    BY <1>4, <2>2, <2>4 DEF Invalidate, rows, TypeOK
<1>5. CASE ScanEnd(q)
  <2> DEFINE new == [pub[q] EXCEPT !.phase = "published"]
  <2>1. pub' = [pub EXCEPT ![q] = NoPub] \/ pub' = [pub EXCEPT ![q] = new]
    BY <1>5 DEF ScanEnd
  <2>2. new \in Publication /\ new.replica = pub[q].replica /\ new.flow = pub[q].flow
    BY <1>t DEF Publication
  <2>3. pub[q].phase # "idle"
    BY <1>5 DEF ScanEnd
  <2> HIDE DEF new
  <2>4. /\ pub' \in [Requests -> Publication]
        /\ \A p \in Requests : pub'[p].phase # "idle" => pub'[p].replica # None /\ pub'[p].flow # None
    BY <1>n, <1>t, <2>1, <2>2, <2>3, PubStep
  <2> QED
    BY <1>5, <2>4 DEF ScanEnd, rows, TypeOK
<1>6. CASE ScanFails(q)
  <2>1. strays' \subseteq Sessions
    BY <1>6 DEF ScanFails, Unfinished, TypeOK, Publication, SessionsOf
  <2>2. failures' \in 0 .. MaxFailures
    BY <1>6 DEF ScanFails, TypeOK
  <2> QED
    BY <1>6, <1>n, <2>1, <2>2 DEF ScanFails, rows, TypeOK
<1>7. ASSUME NEW S \in SUBSET Sessions, ScanBatch(q, S) PROVE TypeOK'
  <2>1. session' \in [Sessions -> Run \cup {None}]
    BY <1>7 DEF ScanBatch, Cleared, TypeOK
  <2> DEFINE new == [pub[q] EXCEPT !.left = pub[q].left \ S]
  <2>2. new \in Publication /\ new.replica = pub[q].replica /\ new.flow = pub[q].flow
    BY <1>t DEF Publication
  <2>3. pub' = [pub EXCEPT ![q] = new]
    BY <1>7, Zenon DEF ScanBatch
  <2>4. pub[q].phase # "idle"
    BY <1>7 DEF ScanBatch
  <2> HIDE DEF new
  <2> QED
    BY <1>7, <1>t, <2>1, <2>2, <2>3, <2>4, PubStep DEF ScanBatch, rows, TypeOK
<1> QED
  BY <1>1, <1>2, <1>3, <1>4, <1>5, <1>6, <1>7 DEF Publishing

\* One replica's work changes, to a job.
LEMMA WorkStep ==
  ASSUME TypeOK, NEW r \in Replicas, NEW new \in Job,
         new.phase # "idle" => new.session # None /\ new.flow # None,
         work' = [work EXCEPT ![r] = new]
  PROVE  /\ work' \in [Replicas -> Job]
         /\ \A o \in Replicas : work'[o].phase # "idle" => work'[o].session # None /\ work'[o].flow # None
BY DEF TypeOK

LEMMA ServingTyped ==
  ASSUME NEW r \in Replicas, TypeOK, Serving(r)
  PROVE  TypeOK'
<1> USE PublishingAssumption
<1>n. NoWork \in Job /\ NoWork.phase = "idle"
  BY DEF NoWork, Job, Versions
<1>t. /\ work[r] \in Job
      /\ work[r].phase # "idle" => work[r].session # None /\ work[r].flow # None
  BY DEF TypeOK
<1>1. ASSUME NEW s \in Sessions, Begin(r, s) PROVE TypeOK'
  <2> DEFINE f == attached[InstanceOf[s]]
             new == [NoWork EXCEPT !.phase = "begun", !.session = s, !.flow = f]
  <2>1. f \in Flows
    BY <1>1 DEF Begin, TypeOK
  <2>2. work' = [work EXCEPT ![r] = new]
    BY <1>1 DEF Begin
  <2> HIDE DEF f
  <2>3. new \in Job /\ new.session # None /\ new.flow # None
    <3>1. f # None /\ s # None
      BY <2>1
    <3>2. new \in Job /\ new.session = s /\ new.flow = f
      BY <1>n, <2>1 DEF Job
    <3> QED
      BY <3>1, <3>2
  <2> HIDE DEF new
  <2> QED
    BY <1>1, <2>2, <2>3, WorkStep DEF Begin, rows, TypeOK
<1>2. CASE FromCache(r)
  <2> DEFINE new == [work[r] EXCEPT !.phase = "running", !.version = cache[r][work[r].flow]]
  <2>1. work[r].flow \in Flows /\ work[r].session # None
    BY <1>2, <1>t DEF FromCache, Job
  <2>2. cache[r][work[r].flow] \in Versions
    BY <2>1 DEF TypeOK
  <2>3. new \in Job /\ new.session # None /\ new.flow # None
    BY <1>t, <2>1, <2>2 DEF Job
  <2>4. work' = [work EXCEPT ![r] = new]
    BY <1>2 DEF FromCache
  <2> HIDE DEF new
  <2> QED
    BY <1>2, <2>3, <2>4, WorkStep DEF FromCache, rows, TypeOK
<1>3. CASE FromDatabase(r)
  <2> DEFINE new == [work[r] EXCEPT !.phase = "read", !.version = Published(work[r].flow)]
  <2>1. work[r].flow \in Flows /\ work[r].session # None
    BY <1>3, <1>t DEF FromDatabase, Job
  <2>2. Published(work[r].flow) \in Versions
    BY <2>1 DEF TypeOK, Published, Row, Versions
  <2>3. new \in Job /\ new.session # None /\ new.flow # None
    <3> HIDE DEF Published
    <3>1. work[r].session \in Sessions \cup {None} /\ work[r].flow \in Flows
      BY <1>t, <2>1 DEF Job
    <3> QED
      BY <1>t, <2>1, <2>2, <3>1 DEF Job
  <2>4. work' = [work EXCEPT ![r] = NoWork] \/ work' = [work EXCEPT ![r] = new]
    BY <1>3 DEF FromDatabase
  <2> HIDE DEF new
  <2>5. /\ work' \in [Replicas -> Job]
        /\ \A o \in Replicas : work'[o].phase # "idle" => work'[o].session # None /\ work'[o].flow # None
    BY <1>n, <2>3, <2>4, WorkStep
  <2> QED
    BY <1>3, <2>5 DEF FromDatabase, rows, TypeOK
<1>4. CASE Store(r)
  <2> DEFINE new == [work[r] EXCEPT !.phase = "running"]
  <2>1. work[r].flow \in Flows /\ work[r].session # None /\ work[r].version \in Versions
    BY <1>4, <1>t DEF Store, Job
  <2>2. new \in Job /\ new.session # None /\ new.flow # None
    BY <1>t, <2>1 DEF Job
  <2>3. work' = [work EXCEPT ![r] = new]
    BY <1>4 DEF Store
  <2>4. [cache[r] EXCEPT ![work[r].flow] = work[r].version] \in [Flows -> Versions]
    BY <2>1 DEF TypeOK
  <2>5. cache' \in [Replicas -> [Flows -> Versions]]
    BY <1>4, <2>4 DEF Store, TypeOK
  <2> HIDE DEF new
  <2> QED
    BY <1>4, <2>2, <2>3, <2>5, WorkStep DEF Store, rows, TypeOK
<1>5. CASE Enter(r)
  <2>1. work[r].flow \in Flows /\ work[r].session \in Sessions /\ work[r].version \in Versions
    BY <1>5, <1>t DEF Enter, Job
  <2>2. session' \in [Sessions -> Run \cup {None}]
    BY <1>5, <2>1 DEF Enter, TypeOK, Run
  <2>3. strays' \subseteq Sessions
    BY <1>5, <2>1 DEF Enter, TypeOK
  <2> QED
    BY <1>5, <2>2, <2>3 DEF Enter, rows, TypeOK
<1>6. CASE Finish(r)
  BY <1>6, <1>n, WorkStep DEF Finish, rows, TypeOK
<1>7. CASE Restart(r)
  <2>1. NoPub \in Publication /\ NoPub.phase = "idle"
    BY DEF NoPub, Publication, Versions
  <2>2. /\ pub' \in [Requests -> Publication]
        /\ \A p \in Requests : pub'[p].phase # "idle" => pub'[p].replica # None /\ pub'[p].flow # None
    BY <1>7, <2>1 DEF Restart, TypeOK
  <2>3. strays' \subseteq Sessions
    BY <1>7 DEF Restart, Unfinished, TypeOK, Publication, SessionsOf
  <2>4. [f \in Flows |-> 0] \in [Flows -> Versions]
    BY DEF Versions
  <2>5. cache' \in [Replicas -> [Flows -> Versions]] /\ failures' \in 0 .. MaxFailures
    BY <1>7, <2>4 DEF Restart, TypeOK
  <2> QED
    BY <1>7, <1>n, <2>2, <2>3, <2>5 DEF Restart, rows, TypeOK
<1> QED
  BY <1>1, <1>2, <1>3, <1>4, <1>5, <1>6, <1>7 DEF Serving

LEMMA StepTyped == TypeOK /\ [Next]_vars => TypeOK'
<1>1. ASSUME TypeOK, NEW s \in Sessions, Clear(s) PROVE TypeOK'
  BY <1>1 DEF Clear, Cleared, rows, TypeOK
<1>2. TypeOK /\ UNCHANGED vars => TypeOK'
  BY DEF vars, rows, TypeOK
<1> QED
  BY <1>1, <1>2, AdministrationTyped, PublishingTyped, ServingTyped DEF Next

\* Every variable of FlowPublishing keeps its type, and a message or a
\* publication under way always has its conversation, replica and flow.
THEOREM TypeCorrect == Spec => []TypeOK
BY InitTyped, StepTyped, PTL DEF Spec

-----------------------------------------------------------------------------
(* Only what was published is run *)

\* OnlyPublished says nothing of the row a message is about to read.
Frozen == OnlyPublished /\ \A f \in Flows : flow[f].published \in released \cup {0}

\* Administrators leave the published content alone, and a flow's state only
\* goes forward.
LEMMA RowsKept ==
  ASSUME TypeOK, Administration
  PROVE  /\ \A f \in Flows : /\ flow'[f].published = flow[f].published
                             /\ flow'[f].state = "unborn" => flow[f].state = "unborn"
                             /\ flow'[f].state = "live" => flow[f].state \in {"unborn", "live"}
         /\ UNCHANGED <<cache, work, session, released>>
<1> DEFINE Kept == \A f \in Flows : /\ flow'[f].published = flow[f].published
                                    /\ flow'[f].state = "unborn" => flow[f].state = "unborn"
                                    /\ flow'[f].state = "live" => flow[f].state \in {"unborn", "live"}
<1>1. ASSUME NEW f \in Flows, Create(f) \/ ToggleActive(f) \/ Remove(f) PROVE Kept
  <2>1. CASE Create(f)
    BY <2>1 DEF Create, TypeOK, Row
  <2>2. CASE ToggleActive(f)
    BY <2>2 DEF ToggleActive, TypeOK, Row
  <2>3. CASE Remove(f)
    BY <2>3 DEF Remove, TypeOK, Row
  <2> QED
    BY <1>1, <2>1, <2>2, <2>3
<1>2. ASSUME NEW f \in Flows, Update(f) PROVE Kept
  BY <1>2 DEF Update, TypeOK, Row
<1>3. ASSUME NEW f \in Flows, NEW g \in Flows, Duplicate(f, g) PROVE Kept
  BY <1>3 DEF Duplicate, TypeOK, Row
<1>4. ASSUME NEW i \in Instances, NEW f \in Flows \cup {None}, Attach(i, f) PROVE Kept
  BY <1>4 DEF Attach, TypeOK, Row
<1>5. Kept
  BY <1>1, <1>2, <1>3, <1>4 DEF Administration
<1>6. UNCHANGED <<cache, work, session, released>>
  BY DEF Administration, Create, Update, ToggleActive, Remove, Duplicate, Attach, Administer
<1> QED
  BY <1>5, <1>6

LEMMA AdministrationKeepsFrozen == TypeOK /\ Frozen /\ Administration => Frozen'
BY RowsKept DEF Frozen, OnlyPublished

LEMMA PublishingKeepsFrozen ==
  ASSUME NEW q \in Requests, TypeOK, Frozen, Publishing(q)
  PROVE  Frozen'
<1>1. CASE Publish(q)
  <2>1. pub[q].flow \in Flows
    BY <1>1 DEF Publish, TypeOK, Publication
  <2>2. \A f \in Flows : flow'[f].published \in released' \cup {0}
    BY <1>1, <2>1 DEF Publish, TypeOK, Row, Frozen
  <2> QED
    BY <1>1, <2>2 DEF Publish, Frozen, OnlyPublished
<1>2. CASE Invalidate(q)
  <2>1. pub[q].replica \in Replicas /\ pub[q].flow \in Flows
    BY <1>2 DEF Invalidate, TypeOK, Publication
  <2>2. \A r \in Replicas, f \in Flows : cache'[r][f] \in {0, cache[r][f]}
    BY <1>2, <2>1 DEF Invalidate, TypeOK
  <2> QED
    BY <1>2, <2>2 DEF Invalidate, rows, Frozen, OnlyPublished
<1>3. ASSUME NEW S \in SUBSET Sessions, ScanBatch(q, S) PROVE Frozen'
  BY <1>3 DEF ScanBatch, Cleared, rows, Frozen, OnlyPublished
<1>4. ASSUME NEW r \in Replicas, NEW f \in Flows, ReadDraft(q, r, f) PROVE Frozen'
  BY <1>4 DEF ReadDraft, rows, Frozen, OnlyPublished
<1>5. CASE PublishRemoved(q) \/ ScanEnd(q) \/ ScanFails(q)
  BY <1>5 DEF PublishRemoved, ScanEnd, ScanFails, rows, Frozen, OnlyPublished
<1> QED
  BY <1>1, <1>2, <1>3, <1>4, <1>5 DEF Publishing

LEMMA ServingKeepsFrozen ==
  ASSUME NEW r \in Replicas, TypeOK, Frozen, Serving(r)
  PROVE  Frozen'
<1>1. ASSUME NEW s \in Sessions, Begin(r, s) PROVE Frozen'
  <2>1. \A o \in Replicas : work'[o].phase \in {"read", "running"} => work'[o].version \in released
    BY <1>1 DEF Begin, TypeOK, NoWork, Frozen, OnlyPublished
  <2> QED
    BY <1>1, <2>1 DEF Begin, rows, Frozen, OnlyPublished
<1>2. CASE FromCache(r)
  <2>1. work[r].flow \in Flows
    BY <1>2 DEF FromCache, TypeOK, Job
  <2>2. cache[r][work[r].flow] \in released
    BY <1>2, <2>1 DEF FromCache, Frozen, OnlyPublished
  <2>3. \A o \in Replicas : work'[o].phase \in {"read", "running"} => work'[o].version \in released
    BY <1>2, <2>2 DEF FromCache, TypeOK, Job, Frozen, OnlyPublished
  <2> QED
    BY <1>2, <2>3 DEF FromCache, rows, Frozen, OnlyPublished
<1>3. CASE FromDatabase(r)
  <2>1. work[r].flow \in Flows
    BY <1>3 DEF FromDatabase, TypeOK, Job
  <2>2. Published(work[r].flow) \in released \cup {0}
    BY <2>1 DEF Published, Frozen
  <2>3. \A o \in Replicas : work'[o].phase \in {"read", "running"} => work'[o].version \in released
    BY <1>3, <2>2 DEF FromDatabase, TypeOK, Job, NoWork, Frozen, OnlyPublished
  <2> QED
    BY <1>3, <2>3 DEF FromDatabase, rows, Frozen, OnlyPublished
<1>4. CASE Store(r)
  <2>1. work[r].flow \in Flows /\ work[r].version \in released
    BY <1>4 DEF Store, TypeOK, Job, Frozen, OnlyPublished
  <2>2. \A o \in Replicas : work'[o].phase \in {"read", "running"} => work'[o].version \in released
    BY <1>4, <2>1 DEF Store, TypeOK, Job, Frozen, OnlyPublished
  <2>3. \A o \in Replicas, f \in Flows : cache'[o][f] \in released \cup {0}
    BY <1>4, <2>1 DEF Store, TypeOK, Frozen, OnlyPublished
  <2> QED
    BY <1>4, <2>1, <2>2, <2>3 DEF Store, rows, Frozen, OnlyPublished
<1>5. CASE Enter(r)
  <2>1. work[r].version \in released
    BY <1>5 DEF Enter, Frozen, OnlyPublished
  <2>2. \A s \in Sessions : session'[s] # None => session'[s].version \in released
    BY <1>5, <2>1 DEF Enter, TypeOK, Frozen, OnlyPublished
  <2> QED
    BY <1>5, <2>2 DEF Enter, rows, Frozen, OnlyPublished
<1>6. CASE Finish(r)
  <2>1. \A o \in Replicas : work'[o].phase \in {"read", "running"} => work'[o].version \in released
    BY <1>6 DEF Finish, TypeOK, NoWork, Frozen, OnlyPublished
  <2> QED
    BY <1>6, <2>1 DEF Finish, rows, Frozen, OnlyPublished
<1>7. CASE Restart(r)
  <2>1. \A o \in Replicas : work'[o].phase \in {"read", "running"} => work'[o].version \in released
    BY <1>7 DEF Restart, TypeOK, NoWork, Frozen, OnlyPublished
  <2>2. \A o \in Replicas, f \in Flows : cache'[o][f] \in released \cup {0}
    BY <1>7 DEF Restart, TypeOK, Frozen, OnlyPublished
  <2> QED
    BY <1>7, <2>1, <2>2 DEF Restart, rows, Frozen, OnlyPublished
<1> QED
  BY <1>1, <1>2, <1>3, <1>4, <1>5, <1>6, <1>7 DEF Serving

\* A customer never meets a draft, whatever is saved, published or removed.
THEOREM OnlyPublishedHolds == Spec => []OnlyPublished
<1>1. Init => Frozen
  <2> SUFFICES ASSUME Init PROVE Frozen
    OBVIOUS
  <2>1. \A r \in Replicas : work[r].phase = "idle"
    BY DEF Init, NoWork
  <2> QED
    BY <2>1 DEF Init, Frozen, OnlyPublished
<1>2. TypeOK /\ Frozen /\ [Next]_vars => Frozen'
  <2>1. ASSUME TypeOK, Frozen, NEW s \in Sessions, Clear(s) PROVE Frozen'
    BY <2>1 DEF Clear, Cleared, rows, Frozen, OnlyPublished
  <2>2. Frozen /\ UNCHANGED vars => Frozen'
    BY DEF vars, rows, Frozen, OnlyPublished
  <2> QED
    BY <2>1, <2>2, AdministrationKeepsFrozen, PublishingKeepsFrozen, ServingKeepsFrozen DEF Next
<1>3. Frozen => OnlyPublished
  BY DEF Frozen
<1> QED
  BY <1>1, <1>2, <1>3, TypeCorrect, PTL DEF Spec

-----------------------------------------------------------------------------
(* The cache follows the published content *)

\* Nothing refers to a flow before it is created.
UnbornUnused ==
  \A f \in Flows : flow[f].state = "unborn" =>
    /\ flow[f].published = 0
    /\ \A i \in Instances : attached[i] # f
    /\ \A r \in Replicas : cache[r][f] = 0 /\ (work[r].phase # "idle" => work[r].flow # f)

LEMMA InitUnborn == Init => UnbornUnused
<1> SUFFICES ASSUME Init PROVE UnbornUnused
  OBVIOUS
<1>1. \A r \in Replicas : work[r].phase = "idle"
  BY DEF Init, NoWork
<1>2. \A f \in Flows : flow[f].state = "unborn" => \A i \in Instances : attached[i] # f
  BY DEF Init
<1> QED
  BY <1>1, <1>2 DEF Init, UnbornUnused

LEMMA UnbornStep == TypeOK /\ UnbornUnused /\ [Next]_vars => UnbornUnused'
<1> SUFFICES ASSUME TypeOK, UnbornUnused, [Next]_vars PROVE UnbornUnused'
  OBVIOUS
<1> USE PublishingAssumption
<1>1. CASE Administration
  <2>1. \A i \in Instances, f \in Flows : attached'[i] = f => attached[i] = f \/ Live(f)
    <3>1. ASSUME NEW i \in Instances, NEW g \in Flows \cup {None}, Attach(i, g)
          PROVE  \A j \in Instances, f \in Flows : attached'[j] = f => attached[j] = f \/ Live(f)
      BY <3>1 DEF Attach, TypeOK
    <3>2. ASSUME NEW g \in Flows, Remove(g)
          PROVE  \A j \in Instances, f \in Flows : attached'[j] = f => attached[j] = f
      BY <3>2 DEF Remove, TypeOK
    <3>3. ASSUME NEW g \in Flows, Create(g) \/ Update(g) \/ ToggleActive(g) PROVE UNCHANGED attached
      BY <3>3 DEF Create, Update, ToggleActive
    <3>4. ASSUME NEW g \in Flows, NEW h \in Flows, Duplicate(g, h) PROVE UNCHANGED attached
      BY <3>4 DEF Duplicate
    <3> QED
      BY <1>1, <3>1, <3>2, <3>3, <3>4 DEF Administration
  <2> QED
    BY <1>1, <2>1, RowsKept DEF UnbornUnused, Live
<1>2. ASSUME NEW q \in Requests, Publishing(q) PROVE UnbornUnused'
  <2>1. CASE Publish(q)
    <3>1. \A f \in Flows : flow'[f].state = "unborn" => flow'[f] = flow[f]
      BY <2>1 DEF Publish, TypeOK, Row, Live
    <3> QED
      BY <2>1, <3>1 DEF Publish, UnbornUnused
  <2>2. CASE Invalidate(q)
    <3>1. \A r \in Replicas, f \in Flows : cache[r][f] = 0 => cache'[r][f] = 0
      BY <2>2 DEF Invalidate, TypeOK
    <3> QED
      BY <2>2, <3>1 DEF Invalidate, rows, UnbornUnused
  <2>3. CASE UNCHANGED <<rows, cache, work>>
    BY <2>3 DEF rows, UnbornUnused
  <2> QED
    BY <1>2, <2>1, <2>2, <2>3 DEF Publishing, ReadDraft, PublishRemoved, ScanBatch, ScanEnd, ScanFails
<1>3. ASSUME NEW r \in Replicas, Serving(r) PROVE UnbornUnused'
  <2>1. ASSUME NEW s \in Sessions, Begin(r, s) PROVE UnbornUnused'
    <3> DEFINE g == attached[InstanceOf[s]]
    <3>1. \A o \in Replicas : work'[o] = work[o] \/ work'[o].flow = g
      BY <2>1 DEF Begin, TypeOK, NoWork
    <3>2. \A f \in Flows : flow[f].state = "unborn" => g # f
      BY DEF UnbornUnused
    <3> HIDE DEF g
    <3> QED
      BY <2>1, <3>1, <3>2 DEF Begin, rows, UnbornUnused
  <2>2. CASE Store(r)
    <3>1. \A o \in Replicas : work'[o].flow = work[o].flow /\ (work'[o].phase # "idle" => work[o].phase # "idle")
      BY <2>2 DEF Store, TypeOK, Job
    <3>2. \A o \in Replicas, f \in Flows : cache'[o][f] = cache[o][f] \/ (o = r /\ f = work[r].flow)
      BY <2>2 DEF Store, TypeOK
    <3>3. work[r].phase # "idle"
      BY <2>2 DEF Store
    <3> QED
      BY <2>2, <3>1, <3>2, <3>3 DEF Store, rows, UnbornUnused
  <2>3. CASE FromCache(r) \/ FromDatabase(r) \/ Enter(r) \/ Finish(r)
    <3>1. \A o \in Replicas : work'[o].phase # "idle" => work'[o].flow = work[o].flow /\ work[o].phase # "idle"
      <4>1. CASE FromCache(r)
        BY <4>1 DEF FromCache, TypeOK, Job
      <4>2. CASE FromDatabase(r)
        <5>1. work' = [work EXCEPT ![r] = NoWork] \/ work'[r].flow = work[r].flow
          BY <4>2 DEF FromDatabase, TypeOK, Job
        <5>2. work[r].phase # "idle" /\ \A o \in Replicas : o # r => work'[o] = work[o]
          BY <4>2 DEF FromDatabase, TypeOK
        <5>3. CASE work' = [work EXCEPT ![r] = NoWork]
          BY <5>2, <5>3 DEF NoWork, TypeOK
        <5>4. CASE work'[r].flow = work[r].flow
          BY <5>2, <5>4
        <5> QED
          BY <5>1, <5>3, <5>4
      <4>3. CASE Enter(r)
        BY <4>3 DEF Enter
      <4>4. CASE Finish(r)
        BY <4>4 DEF Finish, NoWork, TypeOK
      <4> QED
        BY <2>3, <4>1, <4>2, <4>3, <4>4
    <3>2. UNCHANGED <<rows, cache>>
      BY <2>3 DEF FromCache, FromDatabase, Enter, Finish
    <3> QED
      BY <3>1, <3>2 DEF rows, UnbornUnused
  <2>4. CASE Restart(r)
    <3>1. \A o \in Replicas : work'[o].phase # "idle" => work'[o] = work[o]
      BY <2>4 DEF Restart, NoWork, TypeOK
    <3>2. \A o \in Replicas, f \in Flows : cache'[o][f] \in {0, cache[o][f]}
      BY <2>4 DEF Restart, TypeOK
    <3> QED
      BY <2>4, <3>1, <3>2 DEF Restart, rows, UnbornUnused
  <2> QED
    BY <1>3, <2>1, <2>2, <2>3, <2>4 DEF Serving
<1>4. CASE UNCHANGED <<rows, cache, work>>
  BY <1>4 DEF rows, UnbornUnused
<1> QED
  BY <1>1, <1>2, <1>3, <1>4 DEF Next, Clear, vars

\* A row that was read and is not stored yet is the published content, or
\* counts as missed: what the next Store needs.
Reads ==
  \A r \in Replicas : work[r].phase = "read" =>
    \/ ~Live(work[r].flow)
    \/ work[r].version = flow[work[r].flow].published
    \/ <<r, work[r].flow>> \in behind

LEMMA AdministrationKeepsCache ==
  ASSUME TypeOK, UnbornUnused, Reads, CacheFollowsPublication, Administration
  PROVE  Reads' /\ CacheFollowsPublication'
<1>1. UNCHANGED <<cache, work, pub, behind>>
  BY DEF Administration, Create, Update, ToggleActive, Remove, Duplicate, Attach, Administer
<1>2. ASSUME NEW f \in Flows, Live(f)'
      PROVE  /\ flow'[f].published = flow[f].published
             /\ Live(f) \/ \A r \in Replicas : cache[r][f] = 0 /\ (work[r].phase # "idle" => work[r].flow # f)
  BY <1>2, RowsKept DEF Live, UnbornUnused
<1>3. Reads'
  <2>1. \A r \in Replicas : work[r].phase = "read" => work[r].flow \in Flows
    BY DEF TypeOK, Job
  <2> QED
    BY <1>1, <1>2, <2>1 DEF Reads
<1>4. CacheFollowsPublication'
  <2> SUFFICES ASSUME NEW r \in Replicas, NEW f \in Flows, cache[r][f] # 0, Live(f)',
                      cache[r][f] # flow'[f].published
               PROVE  <<r, f>> \in behind \/ Dropping(r, f)
    <3>1. \A r \in Replicas, f \in Flows : Dropping(r, f) => Dropping(r, f)'
      BY <1>1 DEF Dropping
    <3> QED
      BY <1>1, <3>1 DEF CacheFollowsPublication
  <2> QED
    BY <1>2 DEF CacheFollowsPublication
<1> QED
  BY <1>3, <1>4

LEMMA PublishingKeepsCache ==
  ASSUME NEW q \in Requests, TypeOK, Reads, CacheFollowsPublication, Publishing(q)
  PROVE  Reads' /\ CacheFollowsPublication'
<1>1. CASE Publish(q)
  <2> DEFINE p == pub[q].replica
             f == pub[q].flow
  <2>1. p \in Replicas /\ f \in Flows /\ Live(f) /\ pub[q].phase = "read"
    BY <1>1 DEF Publish, TypeOK, Publication
  <2>2. \A g \in Flows : g # f => flow'[g] = flow[g]
    BY <1>1 DEF Publish, TypeOK
  <2>3. \A o \in Requests : o # q => pub'[o] = pub[o]
    BY <1>1 DEF Publish, TypeOK
  <2>4. pub'[q].phase = "published" /\ pub'[q].replica = p /\ pub'[q].flow = f
    BY <1>1 DEF Publish, TypeOK, Publication
  <2>5. behind' = {b \in behind : b # <<p, f>>} \cup {<<r, f>> : r \in Behind(p, f)}
    BY <1>1 DEF Publish
  <2>6. UNCHANGED <<cache, work>>
    BY <1>1 DEF Publish
  <2>7. \A g \in Flows : g # f => Live(g)' = Live(g)
    BY <2>2 DEF Live
  <2> HIDE DEF p, f
  <2>8. Reads'
    <3> SUFFICES ASSUME NEW r \in Replicas, work[r].phase = "read"
                 PROVE  \/ ~Live(work[r].flow)'
                        \/ work[r].version = flow'[work[r].flow].published
                        \/ <<r, work[r].flow>> \in behind'
      BY <2>6 DEF Reads
    <3>1. CASE work[r].flow = f
      BY <2>5, <3>1 DEF Behind
    <3>2. CASE work[r].flow # f
      <4>1. work[r].flow \in Flows
        BY DEF TypeOK, Job
      <4>2. <<r, work[r].flow>> \in behind => <<r, work[r].flow>> \in behind'
        BY <2>5, <3>2
      <4>3. flow'[work[r].flow] = flow[work[r].flow]
        BY <2>2, <3>2, <4>1
      <4> QED
        BY <2>6, <4>2, <4>3 DEF Reads, Live
    <3> QED
      BY <3>1, <3>2
  <2>9. CacheFollowsPublication'
    <3> SUFFICES ASSUME NEW r \in Replicas, NEW g \in Flows, cache[r][g] # 0, Live(g)',
                        cache[r][g] # flow'[g].published
                 PROVE  <<r, g>> \in behind' \/ Dropping(r, g)'
      BY <2>6 DEF CacheFollowsPublication
    <3>1. CASE g = f /\ r = p
      BY <2>4, <3>1 DEF Dropping
    <3>2. CASE g = f /\ r # p
      BY <2>5, <3>2 DEF Behind
    <3>3. CASE g # f
      <4>1. <<r, g>> \in behind => <<r, g>> \in behind'
        BY <2>5, <3>3
      <4>2. Dropping(r, g) => Dropping(r, g)'
        BY <2>1, <2>3 DEF Dropping
      <4> QED
        BY <2>2, <2>7, <3>3, <4>1, <4>2 DEF CacheFollowsPublication
    <3> QED
      BY <3>1, <3>2, <3>3
  <2> QED
    BY <2>8, <2>9
<1>2. CASE Invalidate(q)
  <2>1. pub[q].replica \in Replicas /\ pub[q].flow \in Flows
    BY <1>2 DEF Invalidate, TypeOK, Publication
  <2>2. \A r \in Replicas, f \in Flows :
          IF r = pub[q].replica /\ f = pub[q].flow THEN cache'[r][f] = 0 ELSE cache'[r][f] = cache[r][f]
    BY <1>2, <2>1 DEF Invalidate, TypeOK
  <2>3. \A o \in Requests : o # q => pub'[o] = pub[o]
    BY <1>2 DEF Invalidate, TypeOK
  <2>4. \A r \in Replicas, f \in Flows :
          Dropping(r, f) => Dropping(r, f)' \/ (r = pub[q].replica /\ f = pub[q].flow)
    BY <2>3 DEF Dropping
  <2>5. UNCHANGED <<flow, work, behind>>
    BY <1>2 DEF Invalidate, rows
  <2>6. CacheFollowsPublication'
    BY <2>2, <2>4, <2>5 DEF CacheFollowsPublication, Live
  <2> QED
    BY <2>5, <2>6 DEF Reads, Live
<1>3. CASE pub[q].phase # "published" /\ UNCHANGED <<flow, cache, work, behind>> /\ \A o \in Requests : o # q => pub'[o] = pub[o]
  <2>1. \A r \in Replicas, f \in Flows : Dropping(r, f) => Dropping(r, f)'
    BY <1>3 DEF Dropping
  <2> QED
    BY <1>3, <2>1 DEF Reads, CacheFollowsPublication, Live
<1>4. ASSUME NEW S \in SUBSET Sessions, ScanBatch(q, S) PROVE Reads' /\ CacheFollowsPublication'
  BY <1>3, <1>4 DEF ScanBatch, rows, TypeOK
<1>5. ASSUME NEW r \in Replicas, NEW f \in Flows, ReadDraft(q, r, f) PROVE Reads' /\ CacheFollowsPublication'
  BY <1>3, <1>5 DEF ReadDraft, rows, TypeOK
<1>6. CASE PublishRemoved(q) \/ ScanEnd(q) \/ ScanFails(q)
  BY <1>3, <1>6 DEF PublishRemoved, ScanEnd, ScanFails, rows, TypeOK
<1> QED
  BY <1>1, <1>2, <1>4, <1>5, <1>6 DEF Publishing

LEMMA ServingKeepsCache ==
  ASSUME NEW r \in Replicas, TypeOK, Reads, CacheFollowsPublication, Serving(r)
  PROVE  Reads' /\ CacheFollowsPublication'
<1>1. CASE Store(r)
  <2>1. work[r].flow \in Flows /\ work[r].phase = "read"
    BY <1>1 DEF Store, TypeOK, Job
  <2>2. \A o \in Replicas, f \in Flows :
          IF o = r /\ f = work[r].flow THEN cache'[o][f] = work[r].version ELSE cache'[o][f] = cache[o][f]
    BY <1>1, <2>1 DEF Store, TypeOK
  <2>3. \A o \in Replicas : work'[o].phase = "read" => work'[o] = work[o]
    BY <1>1 DEF Store, TypeOK, Job
  <2>4. UNCHANGED <<flow, pub, behind>>
    BY <1>1 DEF Store, rows
  <2>5. Reads'
    BY <2>3, <2>4 DEF Reads, Live
  <2>6. CacheFollowsPublication'
    <3> SUFFICES ASSUME NEW o \in Replicas, NEW f \in Flows, cache'[o][f] # 0, Live(f),
                        cache'[o][f] # flow[f].published
                 PROVE  <<o, f>> \in behind \/ Dropping(o, f)
      <4>1. \A o \in Replicas, f \in Flows : Dropping(o, f) => Dropping(o, f)'
        BY <2>4 DEF Dropping
      <4> QED
        BY <2>4, <4>1 DEF CacheFollowsPublication, Live
    <3>1. CASE o = r /\ f = work[r].flow
      BY <2>1, <2>2, <3>1 DEF Reads
    <3>2. CASE ~(o = r /\ f = work[r].flow)
      BY <2>2, <3>2 DEF CacheFollowsPublication
    <3> QED
      BY <3>1, <3>2
  <2> QED
    BY <2>5, <2>6
<1>2. CASE FromDatabase(r)
  <2>1. \A o \in Replicas : work'[o].phase = "read" =>
          \/ work'[o] = work[o]
          \/ work'[o].flow = work[r].flow /\ work'[o].version = Published(work[r].flow)
    BY <1>2 DEF FromDatabase, TypeOK, Job, NoWork
  <2>2. Live(work[r].flow) => Published(work[r].flow) = flow[work[r].flow].published
    BY DEF Published
  <2>3. UNCHANGED <<flow, cache, pub, behind>>
    BY <1>2 DEF FromDatabase, rows
  <2>4. Reads'
    BY <2>1, <2>2, <2>3 DEF Reads, Live
  <2> QED
    BY <2>3, <2>4 DEF CacheFollowsPublication, Live, Dropping
<1>3. CASE Restart(r)
  <2>1. \A o \in Replicas : work'[o].phase = "read" => o # r /\ work'[o] = work[o]
    BY <1>3 DEF Restart, TypeOK, NoWork
  <2>2. \A o \in Replicas, f \in Flows : IF o = r THEN cache'[o][f] = 0 ELSE cache'[o][f] = cache[o][f]
    BY <1>3 DEF Restart, TypeOK
  <2>3. \A o \in Replicas, f \in Flows : o # r /\ <<o, f>> \in behind => <<o, f>> \in behind'
    BY <1>3 DEF Restart
  <2>4. UNCHANGED flow /\ \A q \in Requests : pub[q].replica # r => pub'[q] = pub[q]
    BY <1>3 DEF Restart, rows
  <2>5. Reads'
    <3>1. \A o \in Replicas : work[o].phase = "read" => work[o].flow \in Flows
      BY DEF TypeOK, Job
    <3> QED
      BY <2>1, <2>3, <2>4, <3>1 DEF Reads, Live
  <2>6. CacheFollowsPublication'
    <3>1. \A o \in Replicas, f \in Flows : o # r /\ Dropping(o, f) => Dropping(o, f)'
      BY <2>4 DEF Dropping
    <3> QED
      BY <2>2, <2>3, <2>4, <3>1 DEF CacheFollowsPublication, Live
  <2> QED
    BY <2>5, <2>6
<1>4. ASSUME \A o \in Replicas : work'[o].phase = "read" => work'[o] = work[o],
             UNCHANGED <<flow, cache, pub, behind>>
      PROVE  Reads' /\ CacheFollowsPublication'
  BY <1>4 DEF Reads, CacheFollowsPublication, Live, Dropping
<1>5. ASSUME NEW s \in Sessions, Begin(r, s) PROVE Reads' /\ CacheFollowsPublication'
  <2>1. \A o \in Replicas : work'[o].phase = "read" => work'[o] = work[o]
    BY <1>5 DEF Begin, NoWork, TypeOK
  <2> QED
    BY <1>4, <1>5, <2>1 DEF Begin, rows
<1>6. CASE FromCache(r) \/ Enter(r) \/ Finish(r)
  <2>1. \A o \in Replicas : work'[o].phase = "read" => work'[o] = work[o]
    BY <1>6 DEF FromCache, Enter, Finish, NoWork, TypeOK, Job
  <2> QED
    BY <1>4, <1>6, <2>1 DEF FromCache, Enter, Finish, rows
<1> QED
  BY <1>1, <1>2, <1>3, <1>5, <1>6 DEF Serving

\* A replica's cache is the published content, unless that replica missed a
\* publication or is about to drop the flow.
THEOREM CacheFollows == Spec => []CacheFollowsPublication
<1> DEFINE IInv == UnbornUnused /\ Reads /\ CacheFollowsPublication
<1>1. Init => IInv
  <2>1. Init => \A r \in Replicas : work[r].phase = "idle"
    BY DEF Init, NoWork
  <2>2. Init => CacheFollowsPublication
    BY DEF Init, CacheFollowsPublication
  <2> QED
    BY <2>1, <2>2, InitUnborn DEF Reads
<1>2. TypeOK /\ IInv /\ [Next]_vars => IInv'
  <2>1. ASSUME TypeOK, IInv, UNCHANGED <<flow, cache, work, pub, behind>>
        PROVE  Reads' /\ CacheFollowsPublication'
    BY <2>1 DEF Reads, CacheFollowsPublication, Live, Dropping
  <2>2. ASSUME TypeOK, IInv, [Next]_vars PROVE Reads' /\ CacheFollowsPublication'
    BY <2>1, <2>2, AdministrationKeepsCache, PublishingKeepsCache, ServingKeepsCache
       DEF Next, Clear, vars, rows
  <2> QED
    BY <2>2, UnbornStep
<1>3. IInv => CacheFollowsPublication
  OBVIOUS
<1> QED
  BY <1>1, <1>2, <1>3, TypeCorrect, PTL DEF Spec

-----------------------------------------------------------------------------
(* The sessions follow the published content *)

\* What is left to clear belongs to a publication that has begun to clear.
Pending ==
  \A q \in Requests :
    /\ pub[q].phase \in {"idle", "read"} => pub[q].todo = {} /\ pub[q].left = {}
    /\ pub[q].phase = "published" => pub[q].left = {}

InPlace(s) == UpToDate(s, session[s].flow, session[s].version)
InOrder(s) == session[s] # None => InPlace(s) \/ s \in strays \/ Uncleared(s)

LEMMA PendingStep ==
  ASSUME NEW q \in Requests, TypeOK, Pending, Publishing(q)
  PROVE  Pending'
<1>1. \A o \in Requests : o # q => pub'[o] = pub[o]
  BY DEF Publishing, ReadDraft, PublishRemoved, Publish, Invalidate, ScanBatch, ScanEnd, ScanFails, TypeOK
<1> DEFINE Sound == /\ pub'[q].phase \in {"idle", "read"} => pub'[q].todo = {} /\ pub'[q].left = {}
                    /\ pub'[q].phase = "published" => pub'[q].left = {}
<1>n. ASSUME pub' = [pub EXCEPT ![q] = NoPub] PROVE Sound
  BY <1>n DEF NoPub, TypeOK
<1>2. ASSUME NEW r \in Replicas, NEW f \in Flows, ReadDraft(q, r, f) PROVE Sound
  BY <1>2 DEF ReadDraft, NoPub, TypeOK
<1>3. ASSUME PublishRemoved(q) PROVE Sound
  BY <1>3, <1>n DEF PublishRemoved
<1>4. ASSUME Publish(q) PROVE Sound
  BY <1>4 DEF Publish, Pending, TypeOK, Publication
<1>5. ASSUME Invalidate(q) PROVE Sound
  <2>1. ASSUME NEW i \in pub[q].todo, pub' = [pub EXCEPT ![q] = Scanning(q, i)] PROVE Sound
    <3>1. Scanning(q, i).phase = "scanning"
      BY DEF Scanning, TypeOK, Publication
    <3> QED
      BY <2>1, <3>1 DEF TypeOK
  <2> QED
    BY <1>5, <1>n, <2>1 DEF Invalidate
<1>6. ASSUME ScanEnd(q) PROVE Sound
  <2>1. CASE pub' = [pub EXCEPT ![q] = [@ EXCEPT !.phase = "published"]]
    BY <1>6, <2>1 DEF ScanEnd, TypeOK, Publication
  <2> QED
    BY <1>6, <1>n, <2>1 DEF ScanEnd
<1>7. ASSUME ScanFails(q) PROVE Sound
  BY <1>7, <1>n DEF ScanFails
<1>8. ASSUME NEW S \in SUBSET Sessions, ScanBatch(q, S) PROVE Sound
  BY <1>8 DEF ScanBatch, TypeOK, Publication
<1> QED
  BY <1>1, <1>2, <1>3, <1>4, <1>5, <1>6, <1>7, <1>8 DEF Publishing, Pending

LEMMA AdministrationKeepsOrder ==
  ASSUME TypeOK, UnbornUnused, Administration, NEW s \in Sessions, InOrder(s)
  PROVE  InOrder(s)'
<1> USE PublishingAssumption
<1> DEFINE i == InstanceOf[s]
           g == session[s].flow
<1>1. i \in Instances
  OBVIOUS
<1>2. UNCHANGED <<session, pub>> /\ strays \subseteq strays'
  BY DEF Administration, Create, Update, ToggleActive, Remove, Duplicate, Attach, Administer
<1>3. ASSUME session[s] # None, InPlace(s) PROVE InPlace(s)' \/ s \in strays'
  <2>1. g \in Flows /\ attached[i] = g /\ flow[g].state # "unborn"
    BY <1>1, <1>3 DEF InPlace, UpToDate, UnbornUnused, TypeOK, Run
  <2> HIDE DEF g, i
  <2>2. attached'[i] = attached[i] \/ s \in strays'
    <3>1. ASSUME NEW j \in Instances, NEW f \in Flows \cup {None}, Attach(j, f)
          PROVE  attached'[i] = attached[i] \/ s \in strays'
      BY <1>1, <3>1 DEF Attach, SessionsOf, TypeOK, i
    <3>2. ASSUME NEW f \in Flows, Remove(f) PROVE attached'[i] = attached[i] \/ s \in strays'
      BY <1>1, <3>2 DEF Remove, SessionsOf, AttachedTo, TypeOK, i
    <3>3. ASSUME NEW f \in Flows, Create(f) \/ Update(f) \/ ToggleActive(f) PROVE UNCHANGED attached
      BY <3>3 DEF Create, Update, ToggleActive
    <3>4. ASSUME NEW f \in Flows, NEW h \in Flows, Duplicate(f, h) PROVE UNCHANGED attached
      BY <3>4 DEF Duplicate
    <3> QED
      BY <3>1, <3>2, <3>3, <3>4 DEF Administration
  <2>3. (flow'[g].state = flow[g].state /\ flow'[g].published = flow[g].published) \/ s \in strays'
    <3>1. ASSUME NEW f \in Flows, Remove(f) PROVE flow'[g] = flow[g] \/ s \in strays'
      BY <1>1, <2>1, <3>1 DEF Remove, SessionsOf, AttachedTo, TypeOK, i
    <3>2. ASSUME NEW f \in Flows, Create(f) PROVE flow'[g] = flow[g]
      BY <2>1, <3>2 DEF Create, TypeOK
    <3>3. ASSUME NEW f \in Flows, NEW h \in Flows, Duplicate(f, h) PROVE flow'[g] = flow[g]
      BY <2>1, <3>3 DEF Duplicate, TypeOK
    <3>4. ASSUME NEW f \in Flows, Update(f)
          PROVE  flow'[g].state = flow[g].state /\ flow'[g].published = flow[g].published
      BY <2>1, <3>4 DEF Update, TypeOK, Row
    <3>5. ASSUME NEW f \in Flows, ToggleActive(f)
          PROVE  flow'[g].state = flow[g].state /\ flow'[g].published = flow[g].published
      BY <2>1, <3>5 DEF ToggleActive, TypeOK, Row
    <3>6. ASSUME NEW j \in Instances, NEW f \in Flows \cup {None}, Attach(j, f) PROVE UNCHANGED flow
      BY <3>6 DEF Attach
    <3> QED
      BY <3>1, <3>2, <3>3, <3>4, <3>5, <3>6 DEF Administration
  <2> QED
    BY <1>2, <1>3, <2>2, <2>3 DEF InPlace, UpToDate, Published, Live, g, i
<1>4. Uncleared(s) => Uncleared(s)'
  BY <1>2 DEF Uncleared
<1> QED
  BY <1>2, <1>3, <1>4 DEF InOrder

LEMMA PublishingKeepsOrder ==
  ASSUME NEW q \in Requests, TypeOK, Pending, Publishing(q), NEW s \in Sessions, InOrder(s)
  PROVE  InOrder(s)'
<1> USE PublishingAssumption
<1>1. \A o \in Requests : o # q => pub'[o] = pub[o]
  BY DEF Publishing, ReadDraft, PublishRemoved, Publish, Invalidate, ScanBatch, ScanEnd, ScanFails, TypeOK
<1>2. ASSUME UNCHANGED <<rows, session>>, strays \subseteq strays',
             InstanceOf[s] \in pub[q].todo \/ s \in pub[q].left =>
               s \in strays' \/ InstanceOf[s] \in pub'[q].todo \/ s \in pub'[q].left \/ session[s] = None
      PROVE  InOrder(s)'
  <2>1. Uncleared(s) /\ session[s] # None => Uncleared(s)' \/ s \in strays'
    BY <1>1, <1>2 DEF Uncleared
  <2>2. InPlace(s) => InPlace(s)'
    BY <1>2 DEF InPlace, UpToDate, Published, Live, rows
  <2> QED
    BY <1>2, <2>1, <2>2 DEF InOrder
<1>3. CASE Publish(q)
  <2> DEFINE f == pub[q].flow
  <2>1. f \in Flows /\ pub[q].todo = {} /\ pub[q].left = {}
    BY <1>3 DEF Publish, TypeOK, Publication, Pending
  <2>2. pub'[q].todo = AttachedTo(f)
    BY <1>3 DEF Publish, TypeOK, Publication
  <2>3. UNCHANGED <<attached, session, strays>> /\ \A g \in Flows : g # f => flow'[g] = flow[g]
    BY <1>3 DEF Publish, TypeOK
  <2>4. Uncleared(s) => Uncleared(s)'
    BY <1>1, <2>1 DEF Uncleared
  <2>5. ASSUME session[s] # None, InPlace(s) PROVE InPlace(s)' \/ Uncleared(s)'
    <3>1. session[s].flow \in Flows /\ attached[InstanceOf[s]] = session[s].flow
      BY <2>5 DEF InPlace, UpToDate, TypeOK, Run
    <3>2. CASE session[s].flow = f
      BY <2>2, <3>1, <3>2 DEF AttachedTo, Uncleared
    <3>3. CASE session[s].flow # f
      BY <2>3, <2>5, <3>1, <3>3 DEF InPlace, UpToDate, Published, Live
    <3> QED
      BY <3>2, <3>3
  <2> QED
    BY <2>3, <2>4, <2>5 DEF InOrder
<1>4. CASE Invalidate(q)
  <2>1. pub[q].left = {}
    BY <1>4 DEF Invalidate, Pending
  <2>2. ASSUME NEW i \in pub[q].todo, pub' = [pub EXCEPT ![q] = Scanning(q, i)],
               session[s] # None, InstanceOf[s] \in pub[q].todo
        PROVE  InstanceOf[s] \in pub'[q].todo \/ s \in pub'[q].left
    <3>1. /\ Scanning(q, i).todo = pub[q].todo \ {i}
          /\ Scanning(q, i).left = {t \in SessionsOf(i) : session[t] # None}
      BY DEF Scanning, TypeOK, Publication
    <3>2. pub'[q] = Scanning(q, i)
      BY <2>2 DEF TypeOK
    <3> QED
      BY <2>2, <3>1, <3>2 DEF SessionsOf
  <2>3. UNCHANGED <<rows, session, strays>>
    BY <1>4 DEF Invalidate
  <2> QED
    BY <1>2, <1>4, <2>1, <2>2, <2>3 DEF Invalidate
<1>5. ASSUME NEW S \in SUBSET Sessions, ScanBatch(q, S) PROVE InOrder(s)'
  <2>1. CASE s \in S
    BY <1>5, <2>1 DEF ScanBatch, Cleared, InOrder
  <2>2. CASE s \notin S
    <3>1. session'[s] = session[s] /\ (s \in strays => s \in strays') /\ UNCHANGED rows
      BY <1>5, <2>2 DEF ScanBatch, Cleared
    <3>2. pub'[q].todo = pub[q].todo /\ pub'[q].left = pub[q].left \ S
      BY <1>5 DEF ScanBatch, TypeOK, Publication
    <3>3. Uncleared(s) => Uncleared(s)'
      BY <1>1, <2>2, <3>2 DEF Uncleared
    <3>4. InPlace(s) => InPlace(s)'
      BY <3>1 DEF InPlace, UpToDate, Published, Live, rows
    <3> QED
      BY <3>1, <3>3, <3>4 DEF InOrder
  <2> QED
    BY <2>1, <2>2
<1>6. CASE ScanEnd(q)
  <2>1. pub[q].left = {} /\ (pub[q].todo = {} \/ pub'[q].todo = pub[q].todo)
    BY <1>6 DEF ScanEnd, TypeOK, Publication
  <2> QED
    BY <1>2, <1>6, <2>1 DEF ScanEnd
<1>7. CASE ScanFails(q)
  <2>1. InstanceOf[s] \in pub[q].todo \/ s \in pub[q].left => s \in strays'
    BY <1>7 DEF ScanFails, Unfinished, SessionsOf
  <2> QED
    BY <1>2, <1>7, <2>1 DEF ScanFails
<1>8. ASSUME NEW r \in Replicas, NEW f \in Flows, ReadDraft(q, r, f) PROVE InOrder(s)'
  BY <1>2, <1>8 DEF ReadDraft, Pending
<1>9. CASE PublishRemoved(q)
  BY <1>2, <1>9 DEF PublishRemoved, Pending
<1> QED
  BY <1>3, <1>4, <1>5, <1>6, <1>7, <1>8, <1>9 DEF Publishing

LEMMA ServingPending ==
  ASSUME NEW r \in Replicas, Pending, Serving(r)
  PROVE  Pending'
<1>1. CASE Restart(r)
  BY <1>1 DEF Restart, Pending, NoPub
<1>2. CASE UNCHANGED pub
  BY <1>2 DEF Pending
<1> QED
  BY <1>1, <1>2 DEF Serving, Begin, FromCache, FromDatabase, Store, Enter, Finish

LEMMA ServingKeepsOrder ==
  ASSUME NEW r \in Replicas, TypeOK, Serving(r), NEW s \in Sessions, InOrder(s)
  PROVE  InOrder(s)'
<1> USE PublishingAssumption
<1>1. ASSUME UNCHANGED <<rows, session, pub, strays>> PROVE InOrder(s)'
  BY <1>1 DEF InOrder, InPlace, UpToDate, Published, Live, Uncleared, rows
<1>2. CASE Enter(r)
  <2>1. UNCHANGED <<rows, work, pub>>
    BY <1>2 DEF Enter
  <2>2. Uncleared(s) => Uncleared(s)'
    BY <2>1 DEF Uncleared
  <2>3. CASE s = work[r].session
    <3>1. session'[s].flow = work[r].flow /\ session'[s].version = work[r].version
      BY <1>2, <2>3 DEF Enter, TypeOK
    <3>2. UpToDate(s, work[r].flow, work[r].version) => InPlace(s)'
      BY <2>1, <3>1 DEF InPlace, UpToDate, Published, Live, rows
    <3>3. UpToDate(s, work[r].flow, work[r].version) \/ s \in strays'
      BY <1>2, <2>3 DEF Enter
    <3> QED
      BY <2>1, <3>2, <3>3 DEF InOrder
  <2>4. CASE s # work[r].session
    <3>1. session'[s] = session[s] /\ (s \in strays => s \in strays')
      BY <1>2, <2>4 DEF Enter, TypeOK
    <3>2. InPlace(s) => InPlace(s)'
      BY <2>1, <3>1 DEF InPlace, UpToDate, Published, Live, rows
    <3> QED
      BY <2>1, <2>2, <3>1, <3>2 DEF InOrder
  <2> QED
    BY <2>3, <2>4
<1>3. CASE Restart(r)
  <2>1. UNCHANGED <<rows, session>> /\ strays \subseteq strays'
    BY <1>3 DEF Restart
  <2>2. \A q \in Requests : pub'[q] = NoPub \/ pub'[q] = pub[q]
    BY <1>3 DEF Restart
  <2>3. Uncleared(s) => Uncleared(s)' \/ s \in strays'
    <3>1. ASSUME NEW q \in Requests, InstanceOf[s] \in pub[q].todo \/ s \in pub[q].left
          PROVE  pub'[q] = pub[q] \/ s \in strays'
      BY <1>3, <3>1 DEF Restart, Unfinished, SessionsOf
    <3> QED
      BY <3>1 DEF Uncleared
  <2>4. InPlace(s) => InPlace(s)'
    BY <2>1 DEF InPlace, UpToDate, Published, Live, rows
  <2> QED
    BY <2>1, <2>3, <2>4 DEF InOrder
<1>4. ASSUME NEW t \in Sessions, Begin(r, t) PROVE InOrder(s)'
  BY <1>1, <1>4 DEF Begin
<1>5. CASE FromCache(r) \/ FromDatabase(r) \/ Store(r) \/ Finish(r)
  BY <1>1, <1>5 DEF FromCache, FromDatabase, Store, Finish
<1> QED
  BY <1>2, <1>3, <1>4, <1>5 DEF Serving

\* A conversation stands in the published version, or a publication is about
\* to clear it, or its keys were written on outdated content.
THEOREM SessionFollows == Spec => []SessionFollowsPublication
<1> DEFINE IInv == UnbornUnused /\ Pending /\ \A s \in Sessions : InOrder(s)
<1>1. Init => IInv
  <2>1. Init => Pending /\ \A s \in Sessions : InOrder(s)
    BY DEF Init, NoPub, Pending, InOrder
  <2> QED
    BY <2>1, InitUnborn
<1>2. TypeOK /\ IInv /\ [Next]_vars => IInv'
  <2> SUFFICES ASSUME TypeOK, IInv, [Next]_vars
               PROVE  Pending' /\ \A s \in Sessions : InOrder(s)'
    BY UnbornStep
  <2>1. ASSUME Administration PROVE Pending' /\ \A s \in Sessions : InOrder(s)'
    <3>1. UNCHANGED pub
      BY <2>1 DEF Administration, Create, Update, ToggleActive, Remove, Duplicate, Attach, Administer
    <3> QED
      BY <2>1, <3>1, AdministrationKeepsOrder DEF Pending
  <2>2. ASSUME NEW q \in Requests, Publishing(q) PROVE Pending' /\ \A s \in Sessions : InOrder(s)'
    BY <2>2, PendingStep, PublishingKeepsOrder
  <2>3. ASSUME NEW r \in Replicas, Serving(r) PROVE Pending' /\ \A s \in Sessions : InOrder(s)'
    BY <2>3, ServingPending, ServingKeepsOrder
  <2>4. ASSUME NEW t \in Sessions, Clear(t), NEW s \in Sessions PROVE Pending' /\ InOrder(s)'
    <3>1. UNCHANGED <<rows, pub>>
      BY <2>4 DEF Clear
    <3>2. CASE s = t
      BY <2>4, <3>1, <3>2 DEF Clear, Cleared, InOrder, Pending
    <3>3. CASE s # t
      <4>1. session'[s] = session[s] /\ (s \in strays => s \in strays')
        BY <2>4, <3>3 DEF Clear, Cleared
      <4>2. (InPlace(s) => InPlace(s)') /\ (Uncleared(s) => Uncleared(s)')
        BY <3>1, <4>1 DEF InPlace, UpToDate, Published, Live, Uncleared, rows
      <4> QED
        BY <3>1, <4>1, <4>2 DEF InOrder, Pending
    <3> QED
      BY <3>2, <3>3
  <2>5. ASSUME UNCHANGED vars, NEW s \in Sessions PROVE Pending' /\ InOrder(s)'
    BY <2>5 DEF vars, rows, InOrder, InPlace, UpToDate, Published, Live, Uncleared, Pending
  <2>6. CASE Next
    <3>1. ASSUME NEW t \in Sessions, Clear(t) PROVE Pending' /\ \A s \in Sessions : InOrder(s)'
      BY <3>1, <2>4
    <3> QED
      BY <2>1, <2>2, <2>3, <2>6, <3>1 DEF Next
  <2>7. CASE UNCHANGED vars
    BY <2>5, <2>7 DEF vars, Pending
  <2> QED
    BY <2>6, <2>7
<1>3. IInv => SessionFollowsPublication
  BY DEF InOrder, InPlace, SessionFollowsPublication
<1> QED
  BY <1>1, <1>2, <1>3, TypeCorrect, PTL DEF Spec
===========================================================================
