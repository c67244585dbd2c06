---------------------- MODULE InstanceLifecycleProofs ----------------------
(***************************************************************************)
(* Theorems about InstanceLifecycle, for any number of instances, requests *)
(* at the same time, sockets, restarts, unawaited and failing writes.               *)
(***************************************************************************)
EXTENDS InstanceLifecycle, SequenceTheorems, FiniteSetTheorems, TLAPS

Request == [op : {"none", "create", "stop", "delete", "connect"},
            instance : Instances \cup {None},
            phase : {"idle", "stop", "logout", "writing", "written", "start", "remove"},
            socket : Sockets \cup {None}]
StatusWrite == [status : Statuses, call : Calls \cup {None}]
Socket == [instance : Baileys \cup {None}, state : LiveStates \cup {"free", "closed"}]

Ops == {"stop", "delete", "connect"}

\* A request is in a phase its operation has, on an instance that has it.
CallsFit ==
  \A c \in Calls :
    /\ call[c].phase = "idle" => call[c] = NoCall
    /\ call[c].phase # "idle" => call[c].instance \in Instances
    /\ call[c].phase = "stop" => call[c].op \in Ops
    /\ call[c].phase \in {"logout", "writing", "written"} =>
         call[c].op \in Ops /\ call[c].instance \in Baileys
    /\ call[c].phase = "logout" =>
         call[c].socket \in Sockets /\ socket[call[c].socket].instance = call[c].instance

SocketsFit == \A s \in Sockets : socket[s].state # "free" => socket[s].instance \in Baileys

\* A request awaits one write, of its instance.
WritesFit ==
  \A i \in Baileys : \A n \in DOMAIN writes[i] : writes[i][n].call # None =>
    /\ call[writes[i][n].call].phase = "writing" /\ call[writes[i][n].call].instance = i
    /\ \A m \in DOMAIN writes[i] : writes[i][m].call = writes[i][n].call => m = n

Shape == TypeOK /\ CallsFit /\ SocketsFit /\ WritesFit

Quiet(i) == Live(i) = {} /\ opening[i] = 0 /\ timers[i] = 0

\* An instance that was never created has nothing.
Unborn(i) ==
  row[i] = "unborn" =>
    /\ Quiet(i) /\ CallsOn(i) = {} /\ writes[i] = <<>>
    /\ i \notin boot \cup providers \cup meddled

\* An instance that waits to be started has no connection and no request.
Waiting(i) == i \in boot => Quiet(i) /\ CallsOn(i) = {} /\ Exists(i) /\ i \in wanted \cup revived

\* What the requests rely on: one connection, found in the map once it is a
\* socket; one request; nothing left once it has logged out.
Single(i) ==
  /\ Pending(i) <= 1 /\ (Live(i) # {} => Pending(i) = 0)
  /\ Live(i) \subseteq {current[i]}
  /\ \A c, d \in CallsOn(i) : c = d
  /\ \A c \in CallsOn(i) : call[c].phase \in {"writing", "written", "start", "remove"} => Quiet(i)
  /\ \A c \in CallsOn(i) : call[c].phase \in {"start", "remove"} => i \notin providers
  /\ row[i] = "deleted" => i \notin providers
  /\ ~Quiet(i) => i \in providers
  /\ ~Quiet(i) => i \in wanted \cup revived

\* The status the column has or is going to have.
Last(i) == IF writes[i] = <<>> THEN row[i] ELSE writes[i][Len(writes[i])].status

Told(i) ==
  i \notin untold \cup boot /\ Exists(i) =>
    /\ Quiet(i) \/ timers[i] > 0 => Last(i) = "DISCONNECTED"
    /\ \A s \in Live(i) : socket[s].state # "new" => Last(i) = StatusOf[socket[s].state]

Sound(i) == Unborn(i) /\ Waiting(i) /\ (i \notin meddled => Single(i) /\ Told(i))

AllSound == \A i \in Baileys : Sound(i)

-----------------------------------------------------------------------------
(* What the actions do, field by field *)

LEMMA TypeParts ==
  TypeOK <=>
    /\ row \in [Instances -> Statuses \cup {"unborn", "deleted"}]
    /\ providers \subseteq Instances /\ heard \subseteq Instances /\ boot \subseteq Instances
    /\ socket \in [Sockets -> Socket]
    /\ current \in [Baileys -> Sockets \cup {None}]
    /\ \A i \in Baileys : current[i] # None => socket[current[i]].instance = i
    /\ opening \in [Baileys -> Nat] /\ timers \in [Baileys -> Nat]
    /\ writes \in [Baileys -> Seq(StatusWrite)]
    /\ call \in [Calls -> Request]
    /\ asked \in 0 .. MaxCalls /\ restarts \in 0 .. MaxRestarts
    /\ wanted \subseteq Baileys /\ untold \subseteq Baileys /\ revived \subseteq Baileys
    /\ meddled \subseteq Baileys /\ forgotten \subseteq Baileys
BY DEF TypeOK, Socket, StatusWrite, Request

LEMMA NoCallTyped ==
  /\ NoCall \in Request /\ NoCall.op = "none" /\ NoCall.instance = None
  /\ NoCall.phase = "idle" /\ NoCall.socket = None
BY DEF NoCall, Asked, Request

LEMMA CallMoves ==
  ASSUME TypeOK, NEW c \in Calls, NEW q \in Request, call' = [call EXCEPT ![c] = q]
  PROVE  /\ call' \in [Calls -> Request] /\ call'[c] = q
         /\ \A d \in Calls \ {c} : call'[d] = call[d]
BY TypeParts

LEMMA CallPhase ==
  ASSUME TypeOK, NEW c \in Calls, NEW s \in Sockets \cup {None}, NEW p,
         p \in {"idle", "stop", "logout", "writing", "written", "start", "remove"},
         \/ call' = [call EXCEPT ![c].phase = p, ![c].socket = s]
         \/ call' = [call EXCEPT ![c].phase = p] /\ s = call[c].socket
  PROVE  /\ call' \in [Calls -> Request]
         /\ call'[c].phase = p /\ call'[c].op = call[c].op
         /\ call'[c].instance = call[c].instance /\ call'[c].socket = s
         /\ \A d \in Calls \ {c} : call'[d] = call[d]
<1>1. CASE call' = [call EXCEPT ![c].phase = p] /\ s = call[c].socket
  <2>1. call[c] \in Request
    BY TypeParts
  <2> DEFINE q == [call[c] EXCEPT !.phase = p]
  <2>2. /\ q \in Request /\ q.phase = p /\ q.op = call[c].op
        /\ q.instance = call[c].instance /\ q.socket = call[c].socket
    BY <2>1 DEF Request
  <2>3. call' = [call EXCEPT ![c] = q]
    BY <1>1
  <2> HIDE DEF q
  <2> QED
    BY <1>1, <2>2, <2>3, CallMoves
<1>2. CASE call' = [call EXCEPT ![c].phase = p, ![c].socket = s]
  <2>1. call[c] \in Request
    BY TypeParts
  <2> DEFINE q == [call[c] EXCEPT !.phase = p, !.socket = s]
  <2>2. /\ q \in Request /\ q.phase = p /\ q.op = call[c].op
        /\ q.instance = call[c].instance /\ q.socket = s
    BY <2>1 DEF Request
  <2>3. call' = [call EXCEPT ![c] = q]
    BY <1>2
  <2> HIDE DEF q
  <2> QED
    BY <2>2, <2>3, CallMoves
<1> QED
  BY <1>1, <1>2

LEMMA StoppedShape ==
  ASSUME TypeOK, NEW c \in Calls, call[c].op \in Ops, call' = Stopped(c)
  PROVE  /\ call' \in [Calls -> Request]
         /\ \/ call'[c] = NoCall
            \/ /\ call'[c].op = call[c].op /\ call'[c].instance = call[c].instance
               /\ call'[c].phase \in {"start", "remove"}
         /\ \A d \in Calls \ {c} : call'[d] = call[d]
<1>1. CASE call[c].op = "stop"
  <2>1. call' = [call EXCEPT ![c] = NoCall]
    BY <1>1 DEF Stopped
  <2> QED
    BY <2>1, CallMoves, NoCallTyped
<1>2. CASE call[c].op # "stop"
  <2> DEFINE p == AfterStop[call[c].op]
  <2>1. p \in {"start", "remove"}
    BY <1>2 DEF Ops, AfterStop
  <2> DEFINE q == [call[c] EXCEPT !.phase = p, !.socket = None]
  <2>2. q \in Request /\ q.op = call[c].op /\ q.instance = call[c].instance /\ q.phase = p
    BY <2>1, TypeParts DEF Request
  <2>3. call' = [call EXCEPT ![c] = q]
    BY <1>2, TypeParts DEF Stopped
  <2> HIDE DEF q, p
  <2> QED
    BY <2>1, <2>2, <2>3, CallMoves
<1> QED
  BY <1>1, <1>2

LEMMA StartShape ==
  ASSUME TypeOK, NEW i \in Instances, StartSession(i)
  PROVE  \/ i \notin providers /\ ~Exists(i) /\ UNCHANGED <<row, providers, heard, opening>>
         \/ /\ i \in providers \/ Exists(i)
            /\ providers' = providers \cup {i}
            /\ heard' = heard \cup SameProvider(i)
            /\ \/ /\ i \in Meta /\ opening' = opening
                  /\ row' \in [Instances -> Statuses \cup {"unborn", "deleted"}]
                  /\ ~Exists(i) => row' = row
                  /\ \A j \in Instances \ {i} : row'[j] = row[j]
               \/ /\ i \in Baileys /\ row' = row
                  /\ opening' \in [Baileys -> Nat]
                  /\ opening'[i] = opening[i] + 1
                  /\ \A j \in Baileys \ {i} : opening'[j] = opening[j]
<1>1. CASE i \notin providers /\ ~Exists(i)
  BY <1>1 DEF StartSession
<1>2. CASE (i \in providers \/ Exists(i)) /\ i \in Meta
  <2>1. row' \in MetaConnected(i) /\ opening' = opening
        /\ providers' = providers \cup {i} /\ heard' = heard \cup SameProvider(i)
    BY <1>2 DEF StartSession
  <2>2. /\ row' \in [Instances -> Statuses \cup {"unborn", "deleted"}]
        /\ ~Exists(i) => row' = row
        /\ \A j \in Instances \ {i} : row'[j] = row[j]
    BY <2>1, TypeParts DEF MetaConnected, Statuses
  <2> QED
    BY <1>2, <2>1, <2>2
<1>3. CASE (i \in providers \/ Exists(i)) /\ i \notin Meta
  <2>1. /\ opening' = [opening EXCEPT ![i] = @ + 1] /\ row' = row
        /\ providers' = providers \cup {i} /\ heard' = heard \cup SameProvider(i)
    BY <1>3 DEF StartSession
  <2>2. i \in Baileys
    BY <1>3 DEF Instances
  <2>3. /\ opening' \in [Baileys -> Nat]
        /\ opening'[i] = opening[i] + 1
        /\ \A j \in Baileys \ {i} : opening'[j] = opening[j]
    BY <2>1, <2>2, TypeParts
  <2> QED
    BY <1>3, <2>1, <2>2, <2>3
<1> QED
  BY <1>1, <1>2, <1>3

\* One socket moves.
LEMMA SocketMoves ==
  ASSUME TypeOK, NEW s \in Sockets, NEW k \in Socket, socket' = [socket EXCEPT ![s] = k]
  PROVE  /\ socket' \in [Sockets -> Socket] /\ socket'[s] = k
         /\ \A r \in Sockets \ {s} : socket'[r] = socket[r]
BY TypeParts

LEMMA SocketState ==
  ASSUME TypeOK, NEW s \in Sockets, NEW st \in LiveStates \cup {"free", "closed"},
         socket' = [socket EXCEPT ![s].state = st]
  PROVE  /\ socket' \in [Sockets -> Socket]
         /\ socket'[s].state = st /\ socket'[s].instance = socket[s].instance
         /\ \A r \in Sockets \ {s} : socket'[r] = socket[r]
<1> DEFINE k == [socket[s] EXCEPT !.state = st]
<1>1. socket[s] \in Socket
  BY TypeParts
<1>2. k \in Socket /\ k.state = st /\ k.instance = socket[s].instance
  BY <1>1 DEF Socket
<1>3. socket' = [socket EXCEPT ![s] = k]
  OBVIOUS
<1> HIDE DEF k
<1> QED
  BY <1>2, <1>3, SocketMoves

\* Writes set out, in this order, after those that are on their way.
LEMMA IssueShape ==
  ASSUME TypeOK, NEW i \in Baileys, NEW new \in Seq(StatusWrite), Issue(i, new)
  PROVE  /\ writes' \in [Baileys -> Seq(StatusWrite)]
         /\ writes'[i] = writes[i] \o new
         /\ \A j \in Baileys \ {i} : writes'[j] = writes[j]
         /\ untold' = untold \ {i}
         /\ Len(writes'[i]) = Len(writes[i]) + Len(new)
         /\ \A n \in 1 .. Len(writes[i]) : writes'[i][n] = writes[i][n]
         /\ \A n \in 1 .. Len(new) : writes'[i][Len(writes[i]) + n] = new[n]
<1>1. writes \in [Baileys -> Seq(StatusWrite)] /\ writes[i] \in Seq(StatusWrite)
  BY TypeParts
<1>2. /\ writes[i] \o new \in Seq(StatusWrite)
      /\ Len(writes[i] \o new) = Len(writes[i]) + Len(new)
      /\ \A n \in 1 .. Len(writes[i]) + Len(new) :
           (writes[i] \o new)[n] = IF n <= Len(writes[i]) THEN writes[i][n]
                                   ELSE new[n - Len(writes[i])]
  BY <1>1, ConcatProperties
<1>3. /\ writes' \in [Baileys -> Seq(StatusWrite)]
      /\ writes'[i] = writes[i] \o new
      /\ \A j \in Baileys \ {i} : writes'[j] = writes[j]
  BY <1>1, <1>2 DEF Issue
<1>4. Len(writes[i]) \in Nat /\ Len(new) \in Nat
  BY <1>1, LenProperties
<1>5. \A n \in 1 .. Len(writes[i]) : writes'[i][n] = writes[i][n]
  BY <1>2, <1>3, <1>4
<1>6. \A n \in 1 .. Len(new) : writes'[i][Len(writes[i]) + n] = new[n]
  <2> SUFFICES ASSUME NEW n \in 1 .. Len(new) PROVE writes'[i][Len(writes[i]) + n] = new[n]
    OBVIOUS
  <2>1. /\ Len(writes[i]) + n \in 1 .. Len(writes[i]) + Len(new)
        /\ ~(Len(writes[i]) + n <= Len(writes[i]))
        /\ (Len(writes[i]) + n) - Len(writes[i]) = n
    BY <1>4
  <2> QED
    BY <1>2, <1>3, <2>1
<1> QED
  BY <1>2, <1>3, <1>5, <1>6 DEF Issue

\* One write taken out of those on their way.
LEMMA Without ==
  ASSUME NEW S, NEW s \in Seq(S), NEW n \in 1 .. Len(s)
  PROVE  LET t == SubSeq(s, 1, n - 1) \o SubSeq(s, n + 1, Len(s))
         IN  /\ t \in Seq(S) /\ Len(t) = Len(s) - 1
             /\ \A m \in 1 .. Len(t) : t[m] = IF m < n THEN s[m] ELSE s[m + 1]
<1> DEFINE a == SubSeq(s, 1, n - 1)
           b == SubSeq(s, n + 1, Len(s))
           t == a \o b
<1>1. Len(s) \in Nat /\ \A m \in 1 .. Len(s) : s[m] \in S
  BY LenProperties, ElementOfSeq
<1>2. /\ a \in Seq(S)
      /\ Len(a) = IF 1 <= n - 1 THEN (n - 1) - 1 + 1 ELSE 0
      /\ \A m \in 1 .. (n - 1) - 1 + 1 : a[m] = s[1 + m - 1]
  <2>1. 1 \in Int /\ n - 1 \in Int /\ \A m \in 1 .. n - 1 : s[m] \in S
    BY <1>1
  <2> HIDE DEF a
  <2> QED
    BY <2>1, SubSeqProperties DEF a
<1>3. /\ b \in Seq(S)
      /\ Len(b) = IF n + 1 <= Len(s) THEN Len(s) - (n + 1) + 1 ELSE 0
      /\ \A m \in 1 .. Len(s) - (n + 1) + 1 : b[m] = s[n + 1 + m - 1]
  <2>1. n + 1 \in Int /\ Len(s) \in Int /\ \A m \in n + 1 .. Len(s) : s[m] \in S
    BY <1>1
  <2> QED
    BY <2>1, SubSeqProperties
<1> HIDE DEF a, b
<1>4. /\ t \in Seq(S) /\ Len(t) = Len(a) + Len(b)
      /\ \A m \in 1 .. Len(a) + Len(b) : t[m] = IF m <= Len(a) THEN a[m] ELSE b[m - Len(a)]
  BY <1>2, <1>3, ConcatProperties
<1> HIDE DEF t
<1> DEFINE la == Len(a)
           lb == Len(b)
           lt == Len(t)
           L == Len(s)
<1>5. L \in Nat /\ la \in Nat /\ lb \in Nat /\ lt \in Nat /\ n \in 1 .. L
  BY <1>2, <1>3, <1>4, LenProperties
<1>6. /\ la = IF 1 <= n - 1 THEN (n - 1) - 1 + 1 ELSE 0
      /\ lb = IF n + 1 <= L THEN L - (n + 1) + 1 ELSE 0
      /\ \A m \in 1 .. L - (n + 1) + 1 : b[m] = s[n + 1 + m - 1]
      /\ lt = la + lb
      /\ \A m \in 1 .. la + lb : t[m] = IF m <= la THEN a[m] ELSE b[m - la]
  BY <1>2, <1>3, <1>4
<1> HIDE DEF la, lb, lt, L
<1>7. la = n - 1 /\ lb = L - n /\ lt = L - 1
  BY <1>5, <1>6
<1>8. ASSUME NEW m \in 1 .. lt, m < n PROVE t[m] = s[m]
  <2>1. m \in 1 .. la + lb /\ m \in 1 .. (n - 1) - 1 + 1 /\ m <= la /\ 1 + m - 1 = m
    BY <1>5, <1>6, <1>7, <1>8
  <2>2. t[m] = a[m] /\ a[m] = s[1 + m - 1]
    BY <1>2, <1>6, <2>1
  <2> QED
    BY <2>1, <2>2
<1>9. ASSUME NEW m \in 1 .. lt, ~(m < n) PROVE t[m] = s[m + 1]
  <2> DEFINE d == m - la
  <2>1. /\ m \in 1 .. la + lb /\ d \in 1 .. L - (n + 1) + 1 /\ ~(m <= la)
        /\ n + 1 + d - 1 = m + 1
    BY <1>5, <1>6, <1>7, <1>9
  <2>2. t[m] = b[d]
    BY <1>6, <2>1
  <2> HIDE DEF d
  <2>3. b[d] = s[n + 1 + d - 1]
    BY <1>6, <2>1
  <2> QED
    BY <2>1, <2>2, <2>3
<1> QED
  BY <1>4, <1>7, <1>8, <1>9 DEF t, a, b, lt, L

\* An update that lands or fails.
LEMMA AnswerShape ==
  ASSUME TypeOK, WritesFit, NEW i \in Baileys, NEW n \in DOMAIN writes[i], Write(i, n) \/ Fail(i, n)
  PROVE  /\ row' \in [Instances -> Statuses \cup {"unborn", "deleted"}]
         /\ row' = row \/ (Exists(i) /\ row'[i] = writes[i][n].status)
         /\ \A j \in Instances \ {i} : row'[j] = row[j]
         /\ n \in 1 .. Len(writes[i]) /\ writes[i][n] \in StatusWrite /\ Len(writes[i]) \in Nat
         /\ writes' \in [Baileys -> Seq(StatusWrite)]
         /\ Len(writes'[i]) = Len(writes[i]) - 1
         /\ \A m \in 1 .. Len(writes'[i]) :
              writes'[i][m] = IF m < n THEN writes[i][m] ELSE writes[i][m + 1]
         /\ \A j \in Baileys \ {i} : writes'[j] = writes[j]
         /\ call' \in [Calls -> Request]
         /\ \A d \in Calls : \/ call'[d] = call[d] /\ writes[i][n].call # d
                             \/ /\ writes[i][n].call = d
                                /\ call[d].phase = "writing" /\ call[d].instance = i
                                /\ call'[d].phase = "written" /\ call'[d].instance = i
                                /\ call'[d].op = call[d].op
         /\ untold' \subseteq Baileys /\ untold \subseteq untold' /\ untold' \subseteq untold \cup {i}
         /\ \/ i \in untold' \/ n # Len(writes[i])
            \/ n = 1 /\ row'[i] = writes[i][n].status
         /\ i \in Instances
<1>0. i \in Instances
  BY DEF Instances
<1>1. /\ writes[i] \in Seq(StatusWrite) /\ n \in 1 .. Len(writes[i])
      /\ writes[i][n] \in StatusWrite /\ Len(writes[i]) \in Nat
  BY TypeParts, LenProperties, ElementOfSeq
<1>2. /\ row' \in [Instances -> Statuses \cup {"unborn", "deleted"}]
      /\ row' = row \/ (Exists(i) /\ row'[i] = writes[i][n].status)
      /\ \A j \in Instances \ {i} : row'[j] = row[j]
  BY <1>0, <1>1, TypeParts DEF Write, Fail, StatusWrite
<1> DEFINE t == SubSeq(writes[i], 1, n - 1) \o SubSeq(writes[i], n + 1, Len(writes[i]))
<1>3. writes' = [writes EXCEPT ![i] = t]
  BY DEF Write, Fail, Answered
<1>4. /\ t \in Seq(StatusWrite) /\ Len(t) = Len(writes[i]) - 1
      /\ \A m \in 1 .. Len(t) : t[m] = IF m < n THEN writes[i][m] ELSE writes[i][m + 1]
  BY <1>1, Without
<1> HIDE DEF t
<1>5. /\ writes' \in [Baileys -> Seq(StatusWrite)] /\ writes'[i] = t
      /\ \A j \in Baileys \ {i} : writes'[j] = writes[j]
  BY <1>3, <1>4, TypeParts
<1>6. /\ call' \in [Calls -> Request]
      /\ \A d \in Calls : \/ call'[d] = call[d] /\ writes[i][n].call # d
                          \/ /\ writes[i][n].call = d
                             /\ call[d].phase = "writing" /\ call[d].instance = i
                             /\ call'[d].phase = "written" /\ call'[d].instance = i
                             /\ call'[d].op = call[d].op
  <2>1. CASE writes[i][n].call = None
    <3>1. call' = call
      BY <2>1 DEF Write, Fail, Answered
    <3> QED
      BY <2>1, <3>1, TypeParts, LifecycleAssumption
  <2>2. CASE writes[i][n].call # None
    <3> DEFINE c == writes[i][n].call
    <3>1. c \in Calls /\ call[c].phase = "writing" /\ call[c].instance = i
      BY <1>1, <2>2 DEF WritesFit, StatusWrite
    <3>2. call' = [call EXCEPT ![c].phase = "written"]
      BY <2>2 DEF Write, Fail, Answered
    <3>4. call[c].socket \in Sockets \cup {None}
      BY <3>1, TypeParts DEF Request
    <3> HIDE DEF c
    <3>3. /\ call' \in [Calls -> Request]
          /\ call'[c].phase = "written" /\ call'[c].op = call[c].op
          /\ call'[c].instance = call[c].instance
          /\ \A d \in Calls \ {c} : call'[d] = call[d]
      BY <3>1, <3>2, <3>4, CallPhase
    <3> QED
      BY <3>1, <3>3 DEF c
  <2> QED
    BY <2>1, <2>2
<1>7. /\ untold' \subseteq Baileys /\ untold \subseteq untold' /\ untold' \subseteq untold \cup {i}
      /\ \/ i \in untold' \/ n # Len(writes[i])
         \/ n = 1 /\ row'[i] = writes[i][n].status
  <2>1. CASE Write(i, n)
    <3>1. row'[i] = writes[i][n].status
      BY <1>0, <2>1, TypeParts DEF Write
    <3> QED
      BY <1>1, <2>1, <3>1, TypeParts DEF Write, Newest
  <2>2. CASE Fail(i, n)
    BY <2>2, TypeParts DEF Fail, Newest
  <2> QED
    BY <2>1, <2>2
<1> QED
  BY <1>0, <1>1, <1>2, <1>4, <1>5, <1>6, <1>7

LEMMA AskShape ==
  ASSUME TypeOK, NEW c \in Calls, NEW i \in Instances, NEW op \in Ops, Ask(c, op, i)
  PROVE  /\ call[c].phase = "idle" /\ call' \in [Calls -> Request]
         /\ call'[c].op = op /\ call'[c].instance = i
         /\ call'[c].phase = "stop" /\ call'[c].socket = None
         /\ \A d \in Calls \ {c} : call'[d] = call[d]
         /\ row[i] # "unborn" /\ boot = {} /\ asked' \in 0 .. MaxCalls
         /\ meddled' = meddled \cup {k \in Baileys \cap {i} : CallsOn(k) # {}}
         /\ UNCHANGED <<row, process, writes, untold, restarts, wanted, revived, forgotten>>
<1> DEFINE q == Asked(op, i, "stop")
<1>2. /\ q \in Request /\ q.op = op /\ q.instance = i /\ q.phase = "stop" /\ q.socket = None
  BY DEF Request, Ops, Asked
<1>3. call' = [call EXCEPT ![c] = q]
  BY DEF Ask
<1> HIDE DEF q
<1>4. /\ call' \in [Calls -> Request] /\ call'[c] = q
      /\ \A d \in Calls \ {c} : call'[d] = call[d]
  BY <1>2, <1>3, CallMoves
<1>5. asked' \in 0 .. MaxCalls
  BY LifecycleAssumption, TypeParts DEF Ask, Asking
<1> QED
  BY <1>2, <1>4, <1>5 DEF Ask, Asking, Idle

LEMMA CreateShape ==
  ASSUME TypeOK, NEW c \in Calls, NEW i \in Instances, Create(c, i)
  PROVE  /\ call[c].phase = "idle" /\ call' \in [Calls -> Request]
         /\ call'[c].op = "create" /\ call'[c].instance = i
         /\ call'[c].phase = "start" /\ call'[c].socket = None
         /\ \A d \in Calls \ {c} : call'[d] = call[d]
         /\ row[i] = "unborn" /\ boot = {} /\ asked' \in 0 .. MaxCalls
         /\ row' \in [Instances -> Statuses \cup {"unborn", "deleted"}]
         /\ row'[i] = "DISCONNECTED" /\ \A j \in Instances \ {i} : row'[j] = row[j]
         /\ UNCHANGED <<process, writes, untold, restarts, wanted, revived, meddled, forgotten>>
<1> DEFINE q == Asked("create", i, "start")
<1>2. /\ q \in Request /\ q.op = "create" /\ q.instance = i
      /\ q.phase = "start" /\ q.socket = None
  BY DEF Request, Asked
<1>3. call' = [call EXCEPT ![c] = q]
  BY DEF Create
<1> HIDE DEF q
<1>4. /\ call' \in [Calls -> Request] /\ call'[c] = q
      /\ \A d \in Calls \ {c} : call'[d] = call[d]
  BY <1>2, <1>3, CallMoves
<1>5. asked' \in 0 .. MaxCalls
  BY LifecycleAssumption, TypeParts DEF Create, Asking
<1>6. /\ row' \in [Instances -> Statuses \cup {"unborn", "deleted"}]
      /\ row'[i] = "DISCONNECTED" /\ \A j \in Instances \ {i} : row'[j] = row[j]
  BY TypeParts DEF Create, Statuses
<1>7. /\ call[c].phase = "idle" /\ row[i] = "unborn" /\ boot = {}
      /\ UNCHANGED <<process, writes, untold, restarts, wanted, revived, meddled, forgotten>>
  BY DEF Create, Asking, Idle
<1> QED
  BY <1>2, <1>4, <1>5, <1>6, <1>7

\* connection.update: the socket gets on or closes, and the status is reported.
LEMMA EventShape ==
  ASSUME TypeOK, SocketsFit, NEW s \in Sockets, Event(s)
  PROVE  \E i \in Baileys, status \in Statuses :
           /\ i = socket[s].instance /\ socket[s].state \in LiveStates
           /\ socket' \in [Sockets -> Socket] /\ socket'[s].instance = i
           /\ \A r \in Sockets \ {s} : socket'[r] = socket[r]
           /\ Issue(i, <<[status |-> status, call |-> None]>>)
           /\ timers' \in [Baileys -> Nat]
           /\ \A j \in Baileys \ {i} : timers'[j] = timers[j]
           /\ \/ /\ socket'[s].state \in DOMAIN StatusOf /\ status = StatusOf[socket'[s].state]
                 /\ timers' = timers /\ UNCHANGED <<wanted, revived>>
              \/ /\ socket'[s].state = "closed" /\ status = "DISCONNECTED"
                 /\ \/ timers' = timers /\ Unwanted(i)
                    \/ timers'[i] = timers[i] + 1 /\ UNCHANGED <<wanted, revived>>
           /\ UNCHANGED <<row, providers, heard, current, opening, boot, call, asked, restarts,
                          meddled, forgotten>>
<1> DEFINE i == socket[s].instance
<1>0. socket[s].state \in LiveStates /\ i \in Baileys
  BY DEF Event, Progress, CloseLoggedOut, CloseOther, LiveStates, SocketsFit
<1>1. ASSUME NEW state \in DOMAIN StatusOf, Progress(s, state)
      PROVE  /\ socket' \in [Sockets -> Socket] /\ socket'[s].instance = i
             /\ \A r \in Sockets \ {s} : socket'[r] = socket[r]
             /\ socket'[s].state = state
             /\ StatusOf[state] \in Statuses
             /\ Issue(i, <<[status |-> StatusOf[state], call |-> None]>>)
             /\ timers' = timers /\ UNCHANGED <<wanted, revived>>
             /\ UNCHANGED <<row, providers, heard, current, opening, boot, call, asked, restarts,
                            meddled, forgotten>>
  <2>1. state \in LiveStates \cup {"free", "closed"} /\ StatusOf[state] \in Statuses
    BY DEF StatusOf, LiveStates, Statuses
  <2>2. socket' = [socket EXCEPT ![s].state = state]
    BY <1>1 DEF Progress
  <2>3. Issue(i, <<[status |-> StatusOf[state], call |-> None]>>)
    BY <1>1 DEF Progress, Report
  <2>4. UNCHANGED <<row, providers, heard, current, opening, timers, boot, call, asked,
                    restarts, wanted, revived, meddled, forgotten>>
    BY <1>1 DEF Progress
  <2> QED
    BY <2>1, <2>2, <2>3, <2>4, SocketState
<1>2. ASSUME CloseLoggedOut(s) \/ CloseOther(s)
      PROVE  /\ socket' \in [Sockets -> Socket] /\ socket'[s].instance = i
             /\ \A r \in Sockets \ {s} : socket'[r] = socket[r]
             /\ socket'[s].state = "closed" /\ "DISCONNECTED" \in Statuses
             /\ Issue(i, <<[status |-> "DISCONNECTED", call |-> None]>>)
             /\ timers' \in [Baileys -> Nat]
             /\ \A j \in Baileys \ {i} : timers'[j] = timers[j]
             /\ \/ timers' = timers /\ Unwanted(i)
                \/ timers'[i] = timers[i] + 1 /\ UNCHANGED <<wanted, revived>>
             /\ UNCHANGED <<row, providers, heard, current, opening, boot, call, asked, restarts,
                            meddled, forgotten>>
  <2>1. socket' = [socket EXCEPT ![s].state = "closed"]
    BY <1>2 DEF CloseLoggedOut, CloseOther
  <2>2. Issue(i, <<[status |-> "DISCONNECTED", call |-> None]>>)
    BY <1>2 DEF CloseLoggedOut, CloseOther, Report
  <2>3. \/ timers' = timers /\ Unwanted(i)
        \/ timers' = [timers EXCEPT ![i] = @ + 1] /\ UNCHANGED <<wanted, revived>>
    BY <1>2 DEF CloseLoggedOut, CloseOther
  <2> HIDE DEF i
  <2>4. /\ timers' \in [Baileys -> Nat]
        /\ \A j \in Baileys \ {i} : timers'[j] = timers[j]
        /\ \/ timers' = timers /\ Unwanted(i)
           \/ timers'[i] = timers[i] + 1 /\ UNCHANGED <<wanted, revived>>
    BY <1>0, <2>3, TypeParts
  <2>5. UNCHANGED <<row, providers, heard, current, opening, boot, call, asked, restarts,
                    meddled, forgotten>>
    BY <1>2 DEF CloseLoggedOut, CloseOther
  <2>6. /\ socket' \in [Sockets -> Socket] /\ socket'[s].instance = i
        /\ \A r \in Sockets \ {s} : socket'[r] = socket[r]
        /\ socket'[s].state = "closed"
    BY <2>1, SocketState DEF i
  <2> QED
    BY <2>2, <2>4, <2>5, <2>6 DEF Statuses, i
<1>3. CASE \E state \in DOMAIN StatusOf : Progress(s, state)
  <2> PICK state \in DOMAIN StatusOf : Progress(s, state)
    BY <1>3
  <2> HIDE DEF i
  <2>1. timers' \in [Baileys -> Nat] /\ \A j \in Baileys \ {i} : timers'[j] = timers[j]
    BY <1>1, TypeParts
  <2> QED
    BY <1>0, <1>1, <2>1 DEF i
<1>4. CASE CloseLoggedOut(s) \/ CloseOther(s)
  <2> HIDE DEF i
  <2> QED
    BY <1>0, <1>2, <1>4 DEF i
<1> QED
  BY <1>3, <1>4 DEF Event

LEMMA StopShape ==
  ASSUME TypeOK, CallsFit, NEW c \in Calls, StopBaileys(c)
  PROVE  \E i \in Baileys :
           /\ i = call[c].instance /\ call[c].phase = "stop" /\ call[c].op \in Ops
           /\ i \in providers \/ Exists(i)
           /\ providers' = providers \cup {i}
           /\ IF current[i] = None THEN Unwanted(i) ELSE UNCHANGED <<wanted, revived>>
           /\ meddled' = IF Pending(i) > 0 THEN meddled \cup {i} ELSE meddled
           /\ call' \in [Calls -> Request]
           /\ call'[c].instance = i /\ call'[c].op = call[c].op /\ call'[c].socket = current[i]
           /\ \/ current[i] = None /\ call'[c].phase = "written"
              \/ current[i] \in Sockets /\ call'[c].phase = "logout"
           /\ \A d \in Calls \ {c} : call'[d] = call[d]
           /\ UNCHANGED <<row, heard, socket, current, opening, timers, boot, writes, untold,
                          asked, restarts, forgotten>>
<1> DEFINE i == call[c].instance
<1>1. /\ i \in Baileys /\ call[c].phase = "stop" /\ call[c].op \in Ops
      /\ i \in providers \/ Exists(i)
      /\ providers' = providers \cup {i}
      /\ IF current[i] = None THEN Unwanted(i) ELSE UNCHANGED <<wanted, revived>>
      /\ meddled' = IF Pending(i) > 0 THEN meddled \cup {i} ELSE meddled
      /\ UNCHANGED <<row, heard, socket, current, opening, timers, boot, writes, untold,
                     asked, restarts, forgotten>>
  BY DEF StopBaileys, CallsFit
<1>2. PICK p \in {"written", "logout"} :
        /\ call' = [call EXCEPT ![c].phase = p, ![c].socket = current[i]]
        /\ p = IF current[i] = None THEN "written" ELSE "logout"
  BY DEF StopBaileys
<1>3. current[i] \in Sockets \cup {None}
  BY <1>1, TypeParts
<1>4. /\ call' \in [Calls -> Request]
      /\ call'[c].phase = p /\ call'[c].op = call[c].op
      /\ call'[c].instance = i /\ call'[c].socket = current[i]
      /\ \A d \in Calls \ {c} : call'[d] = call[d]
  <2>1. /\ p \in {"idle", "stop", "logout", "writing", "written", "start", "remove"}
        /\ call' = [call EXCEPT ![c].phase = p, ![c].socket = current[i]]
    BY <1>2
  <2> HIDE DEF i
  <2>2. /\ call' \in [Calls -> Request]
        /\ call'[c].phase = p /\ call'[c].op = call[c].op
        /\ call'[c].instance = call[c].instance /\ call'[c].socket = current[i]
        /\ \A d \in Calls \ {c} : call'[d] = call[d]
    BY <1>3, <2>1, CallPhase
  <2> QED
    BY <2>2 DEF i
<1> HIDE DEF i
<1>5. \/ current[i] = None /\ call'[c].phase = "written"
      \/ current[i] \in Sockets /\ call'[c].phase = "logout"
  BY <1>2, <1>3, <1>4
<1> QED
  BY <1>1, <1>4, <1>5 DEF i

\* Sequences of one and of two writes.
LEMMA FewWrites ==
  ASSUME NEW a \in StatusWrite, NEW b \in StatusWrite
  PROVE  /\ <<a>> \in Seq(StatusWrite) /\ Len(<<a>>) = 1 /\ <<a>>[1] = a
         /\ <<a, b>> \in Seq(StatusWrite) /\ Len(<<a, b>>) = 2
         /\ <<a, b>>[1] = a /\ <<a, b>>[2] = b
OBVIOUS

\* What disconnect has to write, and what the close of its socket writes before.
Farewell(c) == [status |-> "DISCONNECTED", call |-> c]

LEMMA LogoutShape ==
  ASSUME TypeOK, CallsFit, NEW c \in Calls, Logout(c)
  PROVE  \E i \in Baileys, s \in Sockets :
           /\ i = call[c].instance /\ s = call[c].socket
           /\ call[c].phase = "logout" /\ call[c].op \in Ops /\ socket[s].instance = i
           /\ current' \in [Baileys -> Sockets \cup {None}] /\ current'[i] = None
           /\ \A j \in Baileys \ {i} : current'[j] = current[j]
           /\ call' \in [Calls -> Request]
           /\ call'[c].instance = i /\ call'[c].op = call[c].op
           /\ call'[c].phase = "writing" /\ call'[c].socket = None
           /\ \A d \in Calls \ {c} : call'[d] = call[d]
           /\ socket' \in [Sockets -> Socket]
           /\ \A r \in Sockets \ {s} : socket'[r] = socket[r]
           /\ socket'[s].instance = i
           /\ \/ /\ socket[s].state \in LiveStates /\ socket'[s].state = "closed"
                 /\ Issue(i, <<Farewell(None), Farewell(c)>>)
                 /\ meddled' = IF Pending(i) > 0 THEN meddled \cup {i} ELSE meddled
              \/ /\ socket' = socket
                 /\ Issue(i, <<Farewell(c)>>)
                 /\ meddled' = IF Live(i) # {} \/ Pending(i) > 0 THEN meddled \cup {i} ELSE meddled
           /\ Unwanted(i)
           /\ UNCHANGED <<row, providers, heard, opening, timers, boot, asked, restarts, forgotten>>
<1> DEFINE i == call[c].instance
           s == call[c].socket
<1>1. /\ i \in Baileys /\ s \in Sockets /\ socket[s].instance = i
      /\ call[c].phase = "logout" /\ call[c].op \in Ops
      /\ Unwanted(i)
      /\ UNCHANGED <<row, providers, heard, opening, timers, boot, asked, restarts, forgotten>>
  BY DEF Logout, CallsFit
<1>2. /\ current' \in [Baileys -> Sockets \cup {None}] /\ current'[i] = None
      /\ \A j \in Baileys \ {i} : current'[j] = current[j]
  BY <1>1, TypeParts DEF Logout
<1>3. call' = [call EXCEPT ![c].phase = "writing", ![c].socket = None]
  BY DEF Logout
<1>4. /\ call' \in [Calls -> Request]
      /\ call'[c].phase = "writing" /\ call'[c].op = call[c].op
      /\ call'[c].instance = i /\ call'[c].socket = None
      /\ \A d \in Calls \ {c} : call'[d] = call[d]
  BY <1>3, CallPhase
<1>5. [Farewell(c) EXCEPT !.call = None] = Farewell(None)
  BY DEF Farewell
<1>6. \/ /\ socket[s].state \in LiveStates
         /\ socket' = [socket EXCEPT ![s].state = "closed"]
         /\ Issue(i, <<Farewell(None), Farewell(c)>>)
         /\ meddled' = IF Pending(i) > 0 THEN meddled \cup {i} ELSE meddled
      \/ /\ socket' = socket
         /\ Issue(i, <<Farewell(c)>>)
         /\ meddled' = IF Live(i) # {} \/ Pending(i) > 0 THEN meddled \cup {i} ELSE meddled
  BY <1>5 DEF Logout, Farewell
<1> HIDE DEF i, s
<1>7. CASE /\ socket' = socket
           /\ Issue(i, <<Farewell(c)>>)
           /\ meddled' = IF Live(i) # {} \/ Pending(i) > 0 THEN meddled \cup {i} ELSE meddled
  <2>1. /\ socket' \in [Sockets -> Socket] /\ socket'[s].instance = i
        /\ \A r \in Sockets \ {s} : socket'[r] = socket[r]
    BY <1>1, <1>7, TypeParts
  <2> QED
    BY <1>1, <1>2, <1>4, <1>7, <2>1 DEF i, s
<1>8. CASE /\ socket[s].state \in LiveStates
           /\ socket' = [socket EXCEPT ![s].state = "closed"]
           /\ Issue(i, <<Farewell(None), Farewell(c)>>)
           /\ meddled' = IF Pending(i) > 0 THEN meddled \cup {i} ELSE meddled
  <2>1. /\ socket' \in [Sockets -> Socket]
        /\ socket'[s].state = "closed" /\ socket'[s].instance = socket[s].instance
        /\ \A r \in Sockets \ {s} : socket'[r] = socket[r]
    BY <1>1, <1>8, SocketState
  <2> QED
    BY <1>1, <1>2, <1>4, <1>8, <2>1 DEF i, s
<1> QED
  BY <1>6, <1>7, <1>8

LEMMA ConnectShape ==
  ASSUME TypeOK, NEW i \in Baileys, NEW s \in Sockets, Connect(i, s)
  PROVE  /\ opening[i] > 0 /\ socket[s].state \in {"free", "closed"}
         /\ \A k \in Baileys : current[k] # s
         /\ \A c \in Calls : call[c].socket # s
         /\ opening' \in [Baileys -> Nat] /\ opening'[i] = opening[i] - 1
         /\ \A j \in Baileys \ {i} : opening'[j] = opening[j]
         /\ socket' \in [Sockets -> Socket]
         /\ socket'[s].instance = i /\ socket'[s].state = "new"
         /\ \A r \in Sockets \ {s} : socket'[r] = socket[r]
         /\ current' \in [Baileys -> Sockets \cup {None}] /\ current'[i] = s
         /\ \A j \in Baileys \ {i} : current'[j] = current[j]
         /\ UNCHANGED <<row, providers, heard, timers, boot, writes, untold, call, asked,
                        restarts, wanted, revived, meddled, forgotten>>
<1>1. opening' \in [Baileys -> Nat] /\ opening'[i] = opening[i] - 1
      /\ \A j \in Baileys \ {i} : opening'[j] = opening[j]
  BY TypeParts DEF Connect
<1>2. [instance |-> i, state |-> "new"] \in Socket
  BY DEF Socket, LiveStates
<1>3. socket' = [socket EXCEPT ![s] = [instance |-> i, state |-> "new"]]
  BY DEF Connect
<1>4. /\ socket' \in [Sockets -> Socket]
      /\ socket'[s] = [instance |-> i, state |-> "new"]
      /\ \A r \in Sockets \ {s} : socket'[r] = socket[r]
  BY <1>2, <1>3, SocketMoves
<1>5. /\ current' \in [Baileys -> Sockets \cup {None}] /\ current'[i] = s
      /\ \A j \in Baileys \ {i} : current'[j] = current[j]
  BY TypeParts DEF Connect
<1> QED
  BY <1>1, <1>4, <1>5 DEF Connect, Unused

LEMMA ReconnectShape ==
  ASSUME TypeOK, NEW i \in Baileys, Reconnect(i)
  PROVE  /\ timers[i] > 0
         /\ timers' \in [Baileys -> Nat] /\ timers'[i] = timers[i] - 1
         /\ \A j \in Baileys \ {i} : timers'[j] = timers[j]
         /\ opening' \in [Baileys -> Nat] /\ opening'[i] = opening[i] + 1
         /\ \A j \in Baileys \ {i} : opening'[j] = opening[j]
         /\ UNCHANGED <<row, providers, heard, socket, current, boot, writes, untold, call,
                        asked, restarts, wanted, revived, meddled, forgotten>>
BY TypeParts DEF Reconnect

-----------------------------------------------------------------------------
(* Types *)

LEMMA InitShape == Init => Shape
<1> SUFFICES ASSUME Init PROVE Shape
  OBVIOUS
<1> USE LifecycleAssumption
<1>1. Free \in Socket /\ Free.state = "free"
  BY DEF Free, Socket
<1>2. <<>> \in Seq(StatusWrite) /\ DOMAIN <<>> = {}
  OBVIOUS
<1>3. TypeOK
  <2>1. 0 \in 0 .. MaxCalls /\ 0 \in 0 .. MaxRestarts /\ 0 \in Nat
    OBVIOUS
  <2>2. socket \in [Sockets -> Socket] /\ writes \in [Baileys -> Seq(StatusWrite)]
    BY <1>1, <1>2 DEF Init
  <2>3. call \in [Calls -> Request]
    BY NoCallTyped DEF Init
  <2> QED
    BY <2>1, <2>2, <2>3, TypeParts DEF Init
<1>4. CallsFit
  BY NoCallTyped DEF Init, CallsFit
<1>5. SocketsFit
  BY <1>1 DEF Init, SocketsFit
<1>6. WritesFit
  BY <1>2 DEF Init, WritesFit
<1> QED
  BY <1>3, <1>4, <1>5, <1>6 DEF Shape

\* Steps that neither send nor deliver a write leave WritesFit alone.
LEMMA WritesStayFit ==
  ASSUME WritesFit, writes' = writes,
         \A d \in Calls : call[d].phase = "writing" => call'[d] = call[d],
         \A i \in Baileys : \A n \in DOMAIN writes[i] : writes[i][n].call \in Calls \cup {None}
  PROVE  WritesFit'
BY DEF WritesFit

LEMMA WritersTyped ==
  ASSUME TypeOK
  PROVE  \A i \in Baileys : \A n \in DOMAIN writes[i] :
           /\ writes[i][n].call \in Calls \cup {None} /\ writes[i][n].status \in Statuses
<1> SUFFICES ASSUME NEW i \in Baileys, NEW n \in DOMAIN writes[i]
             PROVE  writes[i][n] \in StatusWrite
  BY DEF StatusWrite
<1>1. writes[i] \in Seq(StatusWrite)
  BY TypeParts
<1> QED
  BY <1>1, LenProperties, ElementOfSeq

LEMMA EventFits ==
  ASSUME Shape, NEW s \in Sockets, Event(s)
  PROVE  Shape'
<1> USE LifecycleAssumption
<1>1. TypeOK /\ CallsFit /\ SocketsFit /\ WritesFit
  BY DEF Shape
<1>2. PICK i \in Baileys, status \in Statuses :
           /\ i = socket[s].instance /\ socket[s].state \in LiveStates
           /\ socket' \in [Sockets -> Socket] /\ socket'[s].instance = i
           /\ \A r \in Sockets \ {s} : socket'[r] = socket[r]
           /\ Issue(i, <<[status |-> status, call |-> None]>>)
           /\ timers' \in [Baileys -> Nat]
           /\ UNCHANGED <<wanted, revived>> \/ Unwanted(i)
           /\ UNCHANGED <<row, providers, heard, current, opening, boot, call, asked, restarts,
                          meddled, forgotten>>
  BY <1>1, EventShape
<1> DEFINE w == [status |-> status, call |-> None]
<1>3. w \in StatusWrite
  BY DEF StatusWrite
<1>4. <<w>> \in Seq(StatusWrite) /\ Len(<<w>>) = 1 /\ <<w>>[1] = w
  BY <1>3, FewWrites
<1> HIDE DEF w
<1>5. /\ writes' \in [Baileys -> Seq(StatusWrite)]
      /\ \A j \in Baileys \ {i} : writes'[j] = writes[j]
      /\ untold' \subseteq Baileys
      /\ Len(writes'[i]) = Len(writes[i]) + 1
      /\ \A n \in 1 .. Len(writes[i]) : writes'[i][n] = writes[i][n]
      /\ writes'[i][Len(writes[i]) + 1] = w
  <2>1. Issue(i, <<w>>)
    BY <1>2 DEF w
  <2>2. /\ writes' \in [Baileys -> Seq(StatusWrite)]
        /\ \A j \in Baileys \ {i} : writes'[j] = writes[j]
        /\ untold' = untold \ {i}
        /\ Len(writes'[i]) = Len(writes[i]) + Len(<<w>>)
        /\ \A n \in 1 .. Len(writes[i]) : writes'[i][n] = writes[i][n]
        /\ \A n \in 1 .. Len(<<w>>) : writes'[i][Len(writes[i]) + n] = <<w>>[n]
    BY <1>1, <1>4, <2>1, IssueShape
  <2>3. untold' \subseteq Baileys
    BY <1>1, <2>2, TypeParts
  <2> QED
    BY <1>4, <2>2, <2>3
<1>6. TypeOK'
  <2>1. \A j \in Baileys : current'[j] # None => socket'[current'[j]].instance = j
    BY <1>1, <1>2, TypeParts
  <2> QED
    BY <1>1, <1>2, <1>5, <2>1, TypeParts DEF TypeOK, Unwanted, Socket, StatusWrite, Request
<1>7. CallsFit'
  BY <1>1, <1>2 DEF CallsFit
<1>8. SocketsFit'
  BY <1>1, <1>2 DEF SocketsFit
<1>9. WritesFit'
  <2>1. DOMAIN writes[i] = 1 .. Len(writes[i]) /\ Len(writes[i]) \in Nat
    BY <1>1, TypeParts, LenProperties
  <2>2. DOMAIN writes'[i] = 1 .. Len(writes[i]) + 1
    BY <1>5, LenProperties
  <2>3. \A n \in DOMAIN writes'[i] :
          \/ n \in DOMAIN writes[i] /\ writes'[i][n] = writes[i][n]
          \/ writes'[i][n].call = None
    BY <1>5, <2>1, <2>2 DEF w
  <2> SUFFICES ASSUME NEW j \in Baileys, NEW n \in DOMAIN writes'[j],
                      writes'[j][n].call # None
               PROVE  /\ call[writes'[j][n].call].phase = "writing"
                      /\ call[writes'[j][n].call].instance = j
                      /\ \A m \in DOMAIN writes'[j] :
                           writes'[j][m].call = writes'[j][n].call => m = n
    BY <1>2 DEF WritesFit
  <2>4. CASE j = i
    BY <1>1, <2>3, <2>4 DEF WritesFit
  <2>5. CASE j # i
    BY <1>1, <1>5, <2>5 DEF WritesFit
  <2> QED
    BY <2>4, <2>5
<1> QED
  BY <1>6, <1>7, <1>8, <1>9 DEF Shape

LEMMA AnswerFits ==
  ASSUME Shape, NEW i \in Baileys, NEW n \in DOMAIN writes[i], Write(i, n) \/ Fail(i, n)
  PROVE  Shape'
<1> USE LifecycleAssumption
<1>1. TypeOK /\ CallsFit /\ SocketsFit /\ WritesFit
  BY DEF Shape
<1>2. /\ row' \in [Instances -> Statuses \cup {"unborn", "deleted"}]
      /\ n \in 1 .. Len(writes[i]) /\ Len(writes[i]) \in Nat
      /\ writes' \in [Baileys -> Seq(StatusWrite)]
      /\ Len(writes'[i]) = Len(writes[i]) - 1
      /\ \A m \in 1 .. Len(writes'[i]) :
           writes'[i][m] = IF m < n THEN writes[i][m] ELSE writes[i][m + 1]
      /\ \A j \in Baileys \ {i} : writes'[j] = writes[j]
      /\ call' \in [Calls -> Request]
      /\ \A d \in Calls : \/ call'[d] = call[d] /\ writes[i][n].call # d
                          \/ /\ writes[i][n].call = d
                             /\ call[d].phase = "writing" /\ call[d].instance = i
                             /\ call'[d].phase = "written" /\ call'[d].instance = i
                             /\ call'[d].op = call[d].op
      /\ untold' \subseteq Baileys
      /\ i \in Instances
  BY <1>1, AnswerShape
<1>3. UNCHANGED <<providers, heard, socket, current, opening, timers, boot, asked, restarts,
                 wanted, revived, meddled, forgotten>>
  BY DEF Write, Fail, Answered, process
<1>4. TypeOK'
  BY <1>1, <1>2, <1>3 DEF TypeOK, StatusWrite, Request
<1>5. CallsFit'
  BY <1>1, <1>2, <1>3 DEF CallsFit
<1>6. SocketsFit'
  BY <1>1, <1>3 DEF SocketsFit
<1>7. WritesFit'
  <2> DEFINE old(m) == IF m < n THEN m ELSE m + 1
  <2>1. DOMAIN writes[i] = 1 .. Len(writes[i])
    BY <1>1, TypeParts, LenProperties
  <2>2. DOMAIN writes'[i] = 1 .. Len(writes[i]) - 1
    BY <1>2, LenProperties
  <2>3. \A m \in DOMAIN writes'[i] :
          /\ old(m) \in DOMAIN writes[i] /\ writes'[i][m] = writes[i][old(m)]
          /\ old(m) # n
    BY <1>2, <2>1, <2>2
  <2>4. \A m, k \in DOMAIN writes'[i] : old(m) = old(k) => m = k
    BY <1>2, <2>2
  <2> HIDE DEF old
  <2> SUFFICES ASSUME NEW j \in Baileys, NEW m \in DOMAIN writes'[j],
                      writes'[j][m].call # None
               PROVE  /\ call'[writes'[j][m].call].phase = "writing"
                      /\ call'[writes'[j][m].call].instance = j
                      /\ \A k \in DOMAIN writes'[j] :
                           writes'[j][k].call = writes'[j][m].call => k = m
    BY DEF WritesFit
  <2>5. CASE j = i
    <3> DEFINE d == writes'[i][m].call
    <3>1. d = writes[i][old(m)].call /\ old(m) \in DOMAIN writes[i] /\ d # None
      BY <2>3, <2>5
    <3>2. d \in Calls /\ call[d].phase = "writing" /\ call[d].instance = i
      BY <1>1, <3>1, WritersTyped DEF WritesFit
    <3>3. \A k \in DOMAIN writes[i] : writes[i][k].call = d => k = old(m)
      BY <1>1, <3>1 DEF WritesFit
    <3>4. writes[i][n].call # d
      BY <2>3, <2>5, <3>3
    <3>5. call'[d] = call[d]
      BY <1>2, <3>2, <3>4
    <3>6. \A k \in DOMAIN writes'[i] : writes'[i][k].call = d => k = m
      BY <2>3, <2>4, <2>5, <3>3
    <3> QED
      BY <2>5, <3>2, <3>5, <3>6
  <2>6. CASE j # i
    <3> DEFINE d == writes[j][m].call
    <3>1. m \in DOMAIN writes[j] /\ writes'[j] = writes[j] /\ d # None
      BY <1>2, <2>6
    <3>2. d \in Calls /\ call[d].phase = "writing" /\ call[d].instance = j
      BY <1>1, <3>1, WritersTyped DEF WritesFit
    <3>3. call'[d] = call[d]
      BY <1>2, <2>6, <3>2
    <3> QED
      BY <1>1, <3>1, <3>2, <3>3 DEF WritesFit
  <2> QED
    BY <2>5, <2>6
<1> QED
  BY <1>4, <1>5, <1>6, <1>7 DEF Shape

LEMMA LogoutFits ==
  ASSUME Shape, NEW c \in Calls, Logout(c)
  PROVE  Shape'
<1> USE LifecycleAssumption
<1>1. TypeOK /\ CallsFit /\ SocketsFit /\ WritesFit
  BY DEF Shape
<1>2. PICK i \in Baileys, s \in Sockets :
           /\ i = call[c].instance /\ s = call[c].socket
           /\ call[c].phase = "logout" /\ call[c].op \in Ops /\ socket[s].instance = i
           /\ current' \in [Baileys -> Sockets \cup {None}] /\ current'[i] = None
           /\ \A j \in Baileys \ {i} : current'[j] = current[j]
           /\ call' \in [Calls -> Request]
           /\ call'[c].instance = i /\ call'[c].op = call[c].op
           /\ call'[c].phase = "writing" /\ call'[c].socket = None
           /\ \A d \in Calls \ {c} : call'[d] = call[d]
           /\ socket' \in [Sockets -> Socket]
           /\ \A r \in Sockets \ {s} : socket'[r] = socket[r]
           /\ socket'[s].instance = i
           /\ \/ Issue(i, <<Farewell(None), Farewell(c)>>)
              \/ Issue(i, <<Farewell(c)>>)
           /\ meddled' \subseteq meddled \cup {i}
           /\ Unwanted(i)
           /\ UNCHANGED <<row, providers, heard, opening, timers, boot, asked, restarts, forgotten>>
  BY <1>1, LogoutShape
<1>3. i \in Instances /\ Farewell(None) \in StatusWrite /\ Farewell(c) \in StatusWrite
  BY DEF Instances, Farewell, StatusWrite, Statuses
<1>4. /\ writes' \in [Baileys -> Seq(StatusWrite)]
      /\ \A j \in Baileys \ {i} : writes'[j] = writes[j]
      /\ untold' \subseteq Baileys
      /\ \A n \in DOMAIN writes'[i] :
           \/ n \in DOMAIN writes[i] /\ writes'[i][n] = writes[i][n]
           \/ writes'[i][n].call = None
           \/ n = Len(writes'[i]) /\ writes'[i][n].call = c
  <2>0. Len(writes[i]) \in Nat /\ DOMAIN writes[i] = 1 .. Len(writes[i])
    BY <1>1, TypeParts, LenProperties
  <2>1. ASSUME NEW new \in Seq(StatusWrite), Issue(i, new)
        PROVE  /\ writes' \in [Baileys -> Seq(StatusWrite)]
               /\ \A j \in Baileys \ {i} : writes'[j] = writes[j]
               /\ untold' \subseteq Baileys
               /\ DOMAIN writes'[i] = 1 .. Len(writes[i]) + Len(new)
               /\ Len(writes'[i]) = Len(writes[i]) + Len(new)
               /\ \A n \in 1 .. Len(writes[i]) : writes'[i][n] = writes[i][n]
               /\ \A n \in 1 .. Len(new) : writes'[i][Len(writes[i]) + n] = new[n]
    BY <1>1, <2>1, IssueShape, LenProperties, TypeParts
  <2>2. CASE Issue(i, <<Farewell(c)>>)
    <3> DEFINE new == <<Farewell(c)>>
    <3>0. Issue(i, new)
      BY <2>2
    <3>1. new \in Seq(StatusWrite) /\ Len(new) = 1 /\ new[1] = Farewell(c)
      BY <1>3, FewWrites
    <3> HIDE DEF new
    <3>a. /\ DOMAIN writes'[i] = 1 .. Len(writes[i]) + Len(new)
          /\ Len(writes'[i]) = Len(writes[i]) + Len(new)
          /\ \A n \in 1 .. Len(new) : writes'[i][Len(writes[i]) + n] = new[n]
      BY <2>1, <3>0, <3>1
    <3>2. /\ DOMAIN writes'[i] = 1 .. Len(writes[i]) + 1
          /\ Len(writes'[i]) = Len(writes[i]) + 1
          /\ writes'[i][Len(writes[i]) + 1] = Farewell(c)
      BY <3>1, <3>a
    <3>3. /\ writes' \in [Baileys -> Seq(StatusWrite)]
          /\ \A j \in Baileys \ {i} : writes'[j] = writes[j]
          /\ untold' \subseteq Baileys
          /\ \A n \in 1 .. Len(writes[i]) : writes'[i][n] = writes[i][n]
      BY <2>1, <3>0, <3>1
    <3> QED
      BY <2>0, <3>2, <3>3 DEF Farewell
  <2>3. CASE Issue(i, <<Farewell(None), Farewell(c)>>)
    <3> DEFINE new == <<Farewell(None), Farewell(c)>>
    <3>0. Issue(i, new)
      BY <2>3
    <3>1. /\ new \in Seq(StatusWrite) /\ Len(new) = 2
          /\ new[1] = Farewell(None) /\ new[2] = Farewell(c)
      BY <1>3, FewWrites
    <3> HIDE DEF new
    <3>a. /\ DOMAIN writes'[i] = 1 .. Len(writes[i]) + Len(new)
          /\ Len(writes'[i]) = Len(writes[i]) + Len(new)
          /\ \A n \in 1 .. Len(new) : writes'[i][Len(writes[i]) + n] = new[n]
      BY <2>1, <3>0, <3>1
    <3>2. /\ DOMAIN writes'[i] = 1 .. Len(writes[i]) + 2
          /\ Len(writes'[i]) = Len(writes[i]) + 2
          /\ writes'[i][Len(writes[i]) + 1] = Farewell(None)
          /\ writes'[i][Len(writes[i]) + 2] = Farewell(c)
      BY <3>1, <3>a
    <3>3. \A n \in 1 .. Len(writes[i]) + 2 :
            n \in 1 .. Len(writes[i]) \/ n = Len(writes[i]) + 1 \/ n = Len(writes[i]) + 2
      BY <2>0
    <3>4. /\ writes' \in [Baileys -> Seq(StatusWrite)]
          /\ \A j \in Baileys \ {i} : writes'[j] = writes[j]
          /\ untold' \subseteq Baileys
          /\ \A n \in 1 .. Len(writes[i]) : writes'[i][n] = writes[i][n]
      BY <2>1, <3>0, <3>1
    <3> QED
      BY <2>0, <3>2, <3>3, <3>4 DEF Farewell
  <2> QED
    BY <1>2, <2>2, <2>3
<1>5. TypeOK'
  <2>1. ASSUME NEW j \in Baileys, current'[j] # None PROVE socket'[current'[j]].instance = j
    <3>1. j # i /\ current'[j] = current[j] /\ current[j] \in Sockets
      BY <1>1, <1>2, <2>1, TypeParts
    <3>2. socket[current[j]].instance = j
      BY <1>1, <2>1, <3>1, TypeParts
    <3> QED
      BY <1>2, <3>1, <3>2
  <2>2. meddled' \subseteq Baileys
    BY <1>1, <1>2, <1>3, TypeParts
  <2> QED
    BY <1>1, <1>2, <1>4, <2>1, <2>2 DEF TypeOK, Unwanted, Socket, StatusWrite, Request
<1>6. CallsFit'
  BY <1>1, <1>2 DEF CallsFit
<1>7. SocketsFit'
  BY <1>1, <1>2 DEF SocketsFit
<1>8. WritesFit'
  <2>1. \A j \in Baileys : \A n \in DOMAIN writes[j] : writes[j][n].call # c
    BY <1>1, <1>2 DEF WritesFit
  <2> SUFFICES ASSUME NEW j \in Baileys, NEW n \in DOMAIN writes'[j],
                      writes'[j][n].call # None
               PROVE  /\ call'[writes'[j][n].call].phase = "writing"
                      /\ call'[writes'[j][n].call].instance = j
                      /\ \A m \in DOMAIN writes'[j] :
                           writes'[j][m].call = writes'[j][n].call => m = n
    BY DEF WritesFit
  <2>2. CASE j # i
    <3>1. n \in DOMAIN writes[j] /\ writes'[j] = writes[j]
      BY <1>4, <2>2
    <3>2. call'[writes[j][n].call] = call[writes[j][n].call]
      BY <1>1, <1>2, <2>1, <2>2, <3>1, WritersTyped
    <3> QED
      BY <1>1, <3>1, <3>2 DEF WritesFit
  <2>3. CASE j = i /\ n \in DOMAIN writes[i] /\ writes'[i][n] = writes[i][n]
    <3> DEFINE d == writes[i][n].call
    <3>1. d \in Calls \ {c} /\ call'[d] = call[d] /\ d # None
      BY <1>1, <1>2, <2>1, <2>3, WritersTyped
    <3>2. /\ call[d].phase = "writing" /\ call[d].instance = i
          /\ \A m \in DOMAIN writes[i] : writes[i][m].call = d => m = n
      BY <1>1, <2>3, <3>1 DEF WritesFit
    <3>3. ASSUME NEW m \in DOMAIN writes'[i], writes'[i][m].call = d PROVE m = n
      BY <1>4, <3>1, <3>2, <3>3
    <3> QED
      BY <2>3, <3>1, <3>2, <3>3
  <2>4. CASE j = i /\ n = Len(writes'[i]) /\ writes'[i][n].call = c
    BY <1>2, <1>4, <2>1, <2>4
  <2> QED
    BY <1>4, <2>2, <2>3, <2>4
<1> QED
  BY <1>5, <1>6, <1>7, <1>8 DEF Shape

\* The other steps of requests.
LEMMA ServeFits ==
  ASSUME Shape, NEW c \in Calls, Serve(c)
  PROVE  Shape'
<1> USE LifecycleAssumption
<1>1. TypeOK /\ CallsFit /\ SocketsFit /\ WritesFit
  BY DEF Shape
\* Only the request moves, and whatever of its instance.
<1>p. ASSUME call' \in [Calls -> Request], writes' = writes, socket' = socket,
             call[c].phase # "writing", \A d \in Calls \ {c} : call'[d] = call[d],
             \/ call'[c] = NoCall
             \/ /\ call'[c].instance = call[c].instance /\ call[c].instance \in Instances
                /\ call'[c].phase \in {"start", "remove"}
      PROVE  CallsFit' /\ SocketsFit' /\ WritesFit'
  <2>1. CallsFit'
    BY <1>1, <1>p, NoCallTyped DEF CallsFit
  <2>2. SocketsFit'
    BY <1>1, <1>p DEF SocketsFit
  <2>3. WritesFit'
    BY <1>1, <1>p, WritesStayFit, WritersTyped
  <2> QED
    BY <2>1, <2>2, <2>3
<1>2. ASSUME StopUnknown(c) PROVE Shape'
  <2>1. /\ call[c].phase = "stop" /\ call[c].instance \in Instances /\ call' = Stopped(c)
        /\ call[c].op \in Ops
        /\ UNCHANGED <<row, providers, heard, socket, current, opening, timers, boot, writes,
                       untold, asked, restarts, wanted, revived, meddled, forgotten>>
    BY <1>1, <1>2 DEF StopUnknown, CallsFit, process
  <2>2. TypeOK'
    BY <1>1, <2>1, StoppedShape DEF TypeOK, Request
  <2> QED
    BY <1>1, <1>p, <2>1, <2>2, StoppedShape DEF Shape
<1>3. ASSUME StopMeta(c) PROVE Shape'
  <2>1. /\ call[c].phase = "stop" /\ call[c].instance \in Instances /\ call' = Stopped(c)
        /\ call[c].op \in Ops
        /\ row' \in [Instances -> Statuses \cup {"unborn", "deleted"}]
        /\ providers' \subseteq Instances
        /\ UNCHANGED <<heard, socket, current, opening, timers, boot, writes,
                       untold, asked, restarts, wanted, revived, meddled, forgotten>>
    BY <1>1, <1>3, TypeParts DEF StopMeta, CallsFit, Statuses
  <2>2. TypeOK'
    BY <1>1, <2>1, StoppedShape DEF TypeOK, Request
  <2> QED
    BY <1>1, <1>p, <2>1, <2>2, StoppedShape DEF Shape
<1>4. ASSUME StopBaileys(c) PROVE Shape'
  <2>1. PICK i \in Baileys :
           /\ i = call[c].instance /\ call[c].phase = "stop" /\ call[c].op \in Ops
           /\ providers' = providers \cup {i}
           /\ IF current[i] = None THEN Unwanted(i) ELSE UNCHANGED <<wanted, revived>>
           /\ meddled' = IF Pending(i) > 0 THEN meddled \cup {i} ELSE meddled
           /\ call' \in [Calls -> Request]
           /\ call'[c].instance = i /\ call'[c].op = call[c].op /\ call'[c].socket = current[i]
           /\ \/ current[i] = None /\ call'[c].phase = "written"
              \/ current[i] \in Sockets /\ call'[c].phase = "logout"
           /\ \A d \in Calls \ {c} : call'[d] = call[d]
           /\ UNCHANGED <<row, heard, socket, current, opening, timers, boot, writes, untold,
                          asked, restarts, forgotten>>
    BY <1>1, <1>4, StopShape
  <2>2. i \in Instances
    BY DEF Instances
  <2>3. /\ providers' \subseteq Instances /\ meddled' \subseteq Baileys
        /\ wanted' \subseteq Baileys /\ revived' \subseteq Baileys
    BY <1>1, <2>1, <2>2, TypeParts DEF Unwanted
  <2>4. TypeOK'
    BY <1>1, <2>1, <2>3 DEF TypeOK, Request
  <2>5. current[i] \in Sockets => socket[current[i]].instance = i
    BY <1>1, TypeParts
  <2>6. CallsFit'
    BY <1>1, <2>1, <2>2, <2>5 DEF CallsFit
  <2>7. SocketsFit'
    BY <1>1, <2>1 DEF SocketsFit
  <2>8. WritesFit'
    BY <1>1, <2>1, WritesStayFit, WritersTyped
  <2> QED
    BY <2>4, <2>6, <2>7, <2>8 DEF Shape
<1>5. ASSUME RemoveKeys(c) PROVE Shape'
  <2>1. /\ call[c].phase = "written" /\ call[c].instance \in Instances /\ call' = Stopped(c)
        /\ call[c].op \in Ops /\ providers' \subseteq Instances
        /\ UNCHANGED <<row, heard, socket, current, opening, timers, boot, writes,
                       untold, asked, restarts, wanted, revived, meddled, forgotten>>
    BY <1>1, <1>5, TypeParts DEF RemoveKeys, CallsFit
  <2>2. TypeOK'
    BY <1>1, <2>1, StoppedShape DEF TypeOK, Request
  <2> QED
    BY <1>1, <1>p, <2>1, <2>2, StoppedShape DEF Shape
<1>6. ASSUME RemoveRow(c) PROVE Shape'
  <2>1. /\ call[c].phase = "remove" /\ call[c].instance \in Instances
        /\ call' = [call EXCEPT ![c] = NoCall]
        /\ row' \in [Instances -> Statuses \cup {"unborn", "deleted"}]
        /\ wanted' \subseteq Baileys /\ revived' \subseteq Baileys
        /\ UNCHANGED <<providers, heard, socket, current, opening, timers, boot, writes,
                       untold, asked, restarts, meddled, forgotten>>
    BY <1>1, <1>6, TypeParts DEF RemoveRow, CallsFit, process, Unwanted
  <2>2. /\ call' \in [Calls -> Request] /\ call'[c] = NoCall
        /\ \A d \in Calls \ {c} : call'[d] = call[d]
    BY <1>1, <2>1, CallMoves, NoCallTyped
  <2>3. TypeOK'
    BY <1>1, <2>1, <2>2 DEF TypeOK, Request
  <2> QED
    BY <1>1, <1>p, <2>1, <2>2, <2>3 DEF Shape
<1>7. ASSUME Start(c) PROVE Shape'
  <2>1. /\ call[c].phase = "start" /\ call[c].instance \in Instances
        /\ StartSession(call[c].instance)
        /\ call' = [call EXCEPT ![c] = NoCall]
        /\ wanted' \subseteq Baileys /\ revived' \subseteq Baileys
        /\ UNCHANGED <<socket, current, timers, boot, writes, untold, asked, restarts, meddled,
                       forgotten>>
    BY <1>1, <1>7, TypeParts DEF Start, CallsFit, Wanted
  <2>2. /\ call' \in [Calls -> Request] /\ call'[c] = NoCall
        /\ \A d \in Calls \ {c} : call'[d] = call[d]
    BY <1>1, <2>1, CallMoves, NoCallTyped
  <2>3. /\ row' \in [Instances -> Statuses \cup {"unborn", "deleted"}]
        /\ providers' \subseteq Instances /\ heard' \subseteq Instances
        /\ opening' \in [Baileys -> Nat]
    BY <1>1, <2>1, StartShape, TypeParts DEF SameProvider, Instances
  <2>4. TypeOK'
    BY <1>1, <2>1, <2>2, <2>3 DEF TypeOK, Request
  <2> QED
    BY <1>1, <1>p, <2>1, <2>2, <2>4 DEF Shape
<1> QED
  BY <1>2, <1>3, <1>4, <1>5, <1>6, <1>7, LogoutFits DEF Serve

LEMMA RequestsFit ==
  ASSUME Shape, NEW c \in Calls, NEW i \in Instances,
         Create(c, i) \/ \E op \in Ops : Ask(c, op, i)
  PROVE  Shape'
<1> USE LifecycleAssumption
<1>1. TypeOK /\ CallsFit /\ SocketsFit /\ WritesFit
  BY DEF Shape
<1>2. /\ call[c].phase = "idle" /\ call' \in [Calls -> Request]
      /\ call'[c].instance = i /\ call'[c].phase \in {"stop", "start"}
      /\ call'[c].phase = "stop" => call'[c].op \in Ops
      /\ \A d \in Calls \ {c} : call'[d] = call[d]
      /\ asked' \in 0 .. MaxCalls
      /\ row' \in [Instances -> Statuses \cup {"unborn", "deleted"}]
      /\ meddled' \subseteq Baileys
      /\ UNCHANGED <<providers, heard, socket, current, opening, timers, boot, writes, untold,
                     restarts, wanted, revived, forgotten>>
  <2>1. CASE Create(c, i)
    BY <1>1, <2>1, CreateShape, TypeParts DEF process
  <2>2. ASSUME NEW op \in Ops, Ask(c, op, i)
        PROVE  /\ call[c].phase = "idle" /\ call' \in [Calls -> Request]
               /\ call'[c].instance = i /\ call'[c].phase = "stop" /\ call'[c].op \in Ops
               /\ \A d \in Calls \ {c} : call'[d] = call[d]
               /\ asked' \in 0 .. MaxCalls
               /\ row' \in [Instances -> Statuses \cup {"unborn", "deleted"}]
               /\ meddled' \subseteq Baileys
               /\ UNCHANGED <<providers, heard, socket, current, opening, timers, boot, writes,
                              untold, restarts, wanted, revived, forgotten>>
    <3>1. /\ call[c].phase = "idle" /\ call' \in [Calls -> Request]
          /\ call'[c].instance = i /\ call'[c].phase = "stop" /\ call'[c].op = op
          /\ \A d \in Calls \ {c} : call'[d] = call[d]
          /\ asked' \in 0 .. MaxCalls
          /\ meddled' = meddled \cup {k \in Baileys \cap {i} : CallsOn(k) # {}}
          /\ UNCHANGED <<row, process, writes, untold, restarts, wanted, revived, forgotten>>
      BY <1>1, <2>2, AskShape
    <3>2. /\ meddled' \subseteq Baileys
          /\ row' \in [Instances -> Statuses \cup {"unborn", "deleted"}]
      BY <1>1, <3>1, TypeParts
    <3> QED
      BY <3>1, <3>2 DEF process
  <2> QED
    BY <2>1, <2>2
<1>3. TypeOK'
  BY <1>1, <1>2 DEF TypeOK, Request
<1>4. CallsFit'
  BY <1>1, <1>2 DEF CallsFit
<1>5. SocketsFit'
  BY <1>1, <1>2 DEF SocketsFit
<1>6. WritesFit'
  BY <1>1, <1>2, WritesStayFit, WritersTyped
<1> QED
  BY <1>3, <1>4, <1>5, <1>6 DEF Shape

LEMMA ConnectionFits ==
  ASSUME Shape, NEW i \in Baileys, Reconnect(i) \/ \E s \in Sockets : Connect(i, s)
  PROVE  Shape'
<1> USE LifecycleAssumption
<1>1. TypeOK /\ CallsFit /\ SocketsFit /\ WritesFit
  BY DEF Shape
<1>2. CASE Reconnect(i)
  <2>1. /\ timers' \in [Baileys -> Nat] /\ opening' \in [Baileys -> Nat]
        /\ UNCHANGED <<row, providers, heard, socket, current, boot, writes, untold, call,
                       asked, restarts, wanted, revived, meddled, forgotten>>
    BY <1>1, <1>2, ReconnectShape
  <2> QED
    BY <1>1, <2>1 DEF Shape, TypeOK, CallsFit, SocketsFit, WritesFit
<1>3. ASSUME NEW s \in Sockets, Connect(i, s) PROVE Shape'
  <2>1. /\ \A k \in Baileys : current[k] # s
        /\ \A c \in Calls : call[c].socket # s
        /\ opening' \in [Baileys -> Nat]
        /\ socket' \in [Sockets -> Socket] /\ socket'[s].instance = i
        /\ \A r \in Sockets \ {s} : socket'[r] = socket[r]
        /\ current' \in [Baileys -> Sockets \cup {None}] /\ current'[i] = s
        /\ \A j \in Baileys \ {i} : current'[j] = current[j]
        /\ UNCHANGED <<row, providers, heard, timers, boot, writes, untold, call, asked,
                       restarts, wanted, revived, meddled, forgotten>>
    BY <1>1, <1>3, ConnectShape
  <2>2. ASSUME NEW j \in Baileys, current'[j] # None PROVE socket'[current'[j]].instance = j
    <3>1. CASE j = i
      BY <2>1, <3>1
    <3>2. CASE j # i
      <4>1. current'[j] = current[j] /\ current[j] \in Sockets \ {s}
        BY <1>1, <2>1, <2>2, <3>2, TypeParts
      <4>2. socket[current[j]].instance = j
        BY <1>1, <2>2, <4>1, TypeParts
      <4> QED
        BY <2>1, <4>1, <4>2
    <3> QED
      BY <3>1, <3>2
  <2>3. TypeOK'
    BY <1>1, <2>1, <2>2 DEF TypeOK, Socket
  <2>4. CallsFit'
    BY <1>1, <2>1 DEF CallsFit
  <2>5. SocketsFit'
    BY <1>1, <2>1 DEF SocketsFit
  <2>6. WritesFit'
    BY <1>1, <2>1 DEF WritesFit
  <2> QED
    BY <2>3, <2>4, <2>5, <2>6 DEF Shape
<1> QED
  BY <1>2, <1>3

LEMMA BootFits ==
  ASSUME Shape, NEW i \in Instances, Boot(i)
  PROVE  Shape'
<1>1. TypeOK /\ CallsFit /\ SocketsFit /\ WritesFit
  BY DEF Shape
<1>2. /\ boot' = boot \ {i} /\ StartSession(i)
      /\ UNCHANGED <<socket, current, timers, writes, untold, call, asked, restarts, wanted, revived,
                     meddled, forgotten>>
  BY DEF Boot
<1>3. /\ row' \in [Instances -> Statuses \cup {"unborn", "deleted"}]
      /\ providers' \subseteq Instances /\ heard' \subseteq Instances
      /\ opening' \in [Baileys -> Nat]
  BY <1>1, <1>2, StartShape, TypeParts DEF SameProvider, Instances
<1>4. TypeOK'
  BY <1>1, <1>2, <1>3 DEF TypeOK
<1> QED
  BY <1>1, <1>2, <1>4 DEF Shape, CallsFit, SocketsFit, WritesFit

LEMMA RestartFits ==
  ASSUME Shape, Restart
  PROVE  Shape'
<1> USE LifecycleAssumption
<1>1. TypeOK
  BY DEF Shape
<1>2. Free \in Socket /\ Free.state = "free"
  BY DEF Free, Socket
<1>3. <<>> \in Seq(StatusWrite) /\ DOMAIN <<>> = {}
  OBVIOUS
<1>4. /\ socket' \in [Sockets -> Socket] /\ \A s \in Sockets : socket'[s].state = "free"
      /\ writes' \in [Baileys -> Seq(StatusWrite)] /\ \A i \in Baileys : writes'[i] = <<>>
      /\ call' \in [Calls -> Request] /\ \A c \in Calls : call'[c] = NoCall
  BY <1>2, <1>3, NoCallTyped DEF Restart
<1>5. /\ boot' \subseteq Instances /\ forgotten' \subseteq Baileys
      /\ wanted' \subseteq Baileys /\ revived' \subseteq Baileys
      /\ restarts' \in 0 .. MaxRestarts
  BY <1>1, TypeParts DEF Restart, ToBoot, Revived
<1>6. TypeOK'
  <2>1. /\ opening' \in [Baileys -> Nat] /\ timers' \in [Baileys -> Nat]
        /\ current' \in [Baileys -> Sockets \cup {None}] /\ \A i \in Baileys : current'[i] = None
        /\ providers' = {} /\ heard' = {} /\ untold' = {} /\ meddled' = {}
        /\ row' = row /\ asked' = asked
    BY DEF Restart
  <2> QED
    BY <1>1, <1>4, <1>5, <2>1 DEF TypeOK, Socket, StatusWrite, Request
<1>7. CallsFit'
  BY <1>4, NoCallTyped DEF CallsFit
<1>8. SocketsFit'
  BY <1>4 DEF SocketsFit
<1>9. WritesFit'
  BY <1>3, <1>4 DEF WritesFit
<1> QED
  BY <1>6, <1>7, <1>8, <1>9 DEF Shape

LEMMA StepShape == Shape /\ [Next]_vars => Shape'
<1> SUFFICES ASSUME Shape, [Next]_vars PROVE Shape'
  OBVIOUS
<1>1. CASE UNCHANGED vars
  BY <1>1, TypeParts DEF Shape, TypeOK, CallsFit, SocketsFit, WritesFit, vars, process
<1>2. ASSUME NEW c \in Calls, NEW i \in Instances,
             Create(c, i) \/ \E op \in {"stop", "delete", "connect"} : Ask(c, op, i)
      PROVE  Shape'
  BY <1>2, RequestsFit DEF Ops
<1> QED
  BY <1>1, <1>2, ServeFits, EventFits, ConnectionFits, AnswerFits, BootFits, RestartFits DEF Next

LEMMA ShapeHolds == Spec => []Shape
BY InitShape, StepShape, PTL DEF Spec

\* Types: in particular the entry of BaileysProvider.sockets for an instance is
\* a socket of that instance, and every request awaits a write of its own.
THEOREM TypeCorrect == Spec => []TypeOK
<1>1. Shape => TypeOK
  BY DEF Shape
<1> QED
  BY <1>1, ShapeHolds, PTL

-----------------------------------------------------------------------------
(* Messages of Meta *)

\* The webhook finds a callback whenever a Meta instance is CONNECTED and the
\* start is over: a start registers the callback before the virtual connection
\* sets the column, nothing unregisters it while the process lives, and a
\* restart starts every CONNECTED instance.
THEOREM HeardHolds == Spec => []ConnectedIsHeard
<1> USE LifecycleAssumption
<1>1. Init => ConnectedIsHeard
  BY DEF Init, ConnectedIsHeard, Instances
<1>2. ASSUME Shape, ConnectedIsHeard, [Next]_vars PROVE ConnectedIsHeard'
  <2>0. TypeOK /\ CallsFit /\ SocketsFit /\ WritesFit /\ Meta \subseteq Instances
    BY <1>2 DEF Shape, Instances
  <2>1. ASSUME NEW i \in Instances, StartSession(i), boot \subseteq boot' \cup {i}
        PROVE  ConnectedIsHeard'
    <3> SUFFICES ASSUME NEW j \in Meta, row'[j] = "CONNECTED", j \notin boot' PROVE j \in heard'
      BY DEF ConnectedIsHeard
    <3>1. CASE UNCHANGED <<row, providers, heard, opening>> /\ ~Exists(i)
      BY <1>2, <2>1, <3>1 DEF ConnectedIsHeard, Exists, Statuses
    <3>2. CASE heard' = heard \cup SameProvider(i) /\ i \in Meta
      BY <3>2 DEF SameProvider
    <3>3. CASE heard' = heard \cup SameProvider(i) /\ i \in Baileys /\ row' = row
      BY <1>2, <2>1, <3>3 DEF ConnectedIsHeard
    <3> QED
      BY <2>0, <2>1, <3>1, <3>2, <3>3, StartShape
  <2>2. CASE UNCHANGED <<row, heard, boot>>
    BY <1>2, <2>2 DEF ConnectedIsHeard
  <2>3. ASSUME NEW c \in Calls, Serve(c) PROVE ConnectedIsHeard'
    <3>1. CASE StopMeta(c)
      <4>1. /\ UNCHANGED <<heard, boot>>
            /\ \A j \in Meta : row'[j] = "CONNECTED" => row[j] = "CONNECTED"
        BY <2>0, <3>1, TypeParts DEF StopMeta
      <4> QED
        BY <1>2, <4>1 DEF ConnectedIsHeard
    <3>2. CASE RemoveRow(c)
      <4>1. /\ UNCHANGED <<heard, boot>>
            /\ \A j \in Meta : row'[j] = "CONNECTED" => row[j] = "CONNECTED"
        BY <2>0, <3>2, TypeParts DEF RemoveRow, process
      <4> QED
        BY <1>2, <4>1 DEF ConnectedIsHeard
    <3>3. CASE Start(c)
      BY <2>0, <2>1, <3>3 DEF Start, CallsFit
    <3>4. CASE StopUnknown(c) \/ StopBaileys(c) \/ Logout(c) \/ RemoveKeys(c)
      BY <2>2, <3>4 DEF StopUnknown, StopBaileys, Logout, RemoveKeys, process
    <3> QED
      BY <2>3, <3>1, <3>2, <3>3, <3>4 DEF Serve
  <2>4. ASSUME NEW s \in Sockets, Event(s) PROVE ConnectedIsHeard'
    BY <2>2, <2>4 DEF Event, Progress, CloseLoggedOut, CloseOther
  <2>5. ASSUME NEW i \in Baileys, Reconnect(i) \/ \E s \in Sockets : Connect(i, s)
        PROVE  ConnectedIsHeard'
    BY <2>2, <2>5 DEF Reconnect, Connect
  <2>6. ASSUME NEW i \in Baileys, NEW n \in DOMAIN writes[i],
               Write(i, n) \/ Fail(i, n)
        PROVE  ConnectedIsHeard'
    <3>1. /\ UNCHANGED <<heard, boot>> /\ \A j \in Meta : row'[j] = row[j]
      <4>1. UNCHANGED <<heard, boot>>
        BY <2>6 DEF Write, Fail, Answered, process
      <4>2. \A j \in Instances \ {i} : row'[j] = row[j]
        BY <2>0, <2>6, AnswerShape
      <4>3. \A j \in Meta : j \in Instances \ {i}
        BY <2>6, LifecycleAssumption DEF Instances
      <4> QED
        BY <4>1, <4>2, <4>3
    <3> QED
      BY <1>2, <3>1 DEF ConnectedIsHeard
  <2>7. ASSUME NEW i \in Instances, Boot(i) PROVE ConnectedIsHeard'
    BY <2>1, <2>7 DEF Boot
  <2>8. ASSUME Restart PROVE ConnectedIsHeard'
    BY <2>0, <2>8 DEF Restart, ToBoot, Exists, Statuses, ConnectedIsHeard
  <2>9. ASSUME NEW c \in Calls, NEW i \in Instances, Create(c, i) PROVE ConnectedIsHeard'
    <3>1. /\ UNCHANGED <<heard, boot>>
          /\ \A j \in Meta : row'[j] = "CONNECTED" => row[j] = "CONNECTED"
      BY <2>0, <2>9, CreateShape DEF process
    <3> QED
      BY <1>2, <3>1 DEF ConnectedIsHeard
  <2>10. ASSUME NEW c \in Calls, NEW i \in Instances, NEW op \in {"stop", "delete", "connect"},
                Ask(c, op, i)
         PROVE  ConnectedIsHeard'
    BY <2>2, <2>10 DEF Ask, process
  <2>11. CASE UNCHANGED vars
    BY <2>2, <2>11 DEF vars, process
  <2> QED
    BY <1>2, <2>3, <2>4, <2>5, <2>6, <2>7, <2>8, <2>9, <2>10, <2>11 DEF Next
<1> QED
  BY <1>1, <1>2, ShapeHolds, PTL DEF Spec

-----------------------------------------------------------------------------
(* One connection, told by the column *)

\* A step that has nothing to do with an instance.
Untouched(i) ==
  /\ row'[i] = row[i] /\ current'[i] = current[i] /\ writes'[i] = writes[i]
  /\ opening'[i] = opening[i] /\ timers'[i] = timers[i]
  /\ (i \in boot' <=> i \in boot) /\ (i \in providers' <=> i \in providers)
  /\ (i \in wanted' \cup revived' <=> i \in wanted \cup revived)
  /\ (i \in meddled' <=> i \in meddled)
  /\ (i \in untold' <=> i \in untold)
  /\ Live(i)' = Live(i) /\ \A s \in Live(i) : socket'[s] = socket[s]
  /\ CallsOn(i)' = CallsOn(i) /\ \A c \in CallsOn(i) : call'[c].phase = call[c].phase

LEMMA UntouchedSound ==
  ASSUME NEW i \in Baileys, Sound(i), Untouched(i)
  PROVE  Sound(i)'
<1>1. Quiet(i)' <=> Quiet(i)
  BY DEF Untouched, Quiet
<1>2. Unborn(i)'
  BY <1>1 DEF Sound, Untouched, Unborn
<1>3. Waiting(i)'
  BY <1>1 DEF Sound, Untouched, Waiting, Exists
<1>4. ASSUME i \notin meddled' PROVE Single(i)' /\ Told(i)'
  <2>1. Single(i) /\ Told(i)
    BY <1>4 DEF Sound, Untouched
  <2>2. Last(i)' = Last(i)
    BY DEF Untouched, Last
  <2>3. Single(i)'
    BY <1>1, <2>1 DEF Untouched, Single, Pending
  <2>4. Told(i)'
    BY <1>1, <2>1, <2>2 DEF Untouched, Told, Exists
  <2> QED
    BY <2>3, <2>4
<1> QED
  BY <1>2, <1>3, <1>4 DEF Sound

\* What two of the parts come down to for an instance that requests may reach.
LEMMA SoundIf ==
  ASSUME NEW i \in Baileys, row'[i] # "unborn", i \notin boot',
         i \notin meddled' => Single(i)' /\ Told(i)'
  PROVE  Sound(i)'
BY DEF Sound, Unborn, Waiting

\* An instance with a request is born and started.
LEMMA Busy ==
  ASSUME NEW i \in Baileys, Sound(i), NEW c \in CallsOn(i)
  PROVE  row[i] # "unborn" /\ i \notin boot
BY DEF Sound, Unborn, Waiting

LEMMA MetaUntouched ==
  ASSUME Shape, NEW i \in Baileys, NEW c \in Calls, StopMeta(c)
  PROVE  Untouched(i)
<1>1. /\ TypeOK /\ CallsFit /\ call[c].phase = "stop" /\ call[c].op \in Ops
      /\ call[c].instance \in Meta /\ call[c].instance # i
  BY LifecycleAssumption DEF Shape, StopMeta, CallsFit
<1>2. /\ UNCHANGED <<socket, current, opening, timers, boot, writes, untold, meddled>>
      /\ row'[i] = row[i] /\ (i \in providers' <=> i \in providers)
      /\ UNCHANGED <<wanted, revived>>
      /\ call' = Stopped(c)
  BY <1>1, TypeParts DEF StopMeta, Instances
<1>3. \A d \in Calls : call[d].instance = i \/ call'[d].instance = i => call'[d] = call[d]
  BY <1>1, <1>2, StoppedShape, NoCallTyped, LifecycleAssumption DEF Instances
<1>4. CallsOn(i)' = CallsOn(i) /\ \A d \in CallsOn(i) : call'[d].phase = call[d].phase
  BY <1>3 DEF CallsOn
<1> QED
  BY <1>2, <1>4 DEF Untouched, Live

\* A request reaches its own instance only.
LEMMA CallElsewhere ==
  ASSUME NEW i \in Baileys, NEW c \in Calls, call[c].instance # i,
         call'[c] = NoCall \/ call'[c].instance = call[c].instance,
         \A d \in Calls \ {c} : call'[d] = call[d]
  PROVE  CallsOn(i)' = CallsOn(i) /\ \A d \in CallsOn(i) : call'[d].phase = call[d].phase
<1>1. call'[c].instance # i
  BY NoCallTyped, LifecycleAssumption DEF Instances
<1> QED
  BY <1>1 DEF CallsOn

LEMMA NewCall ==
  ASSUME TypeOK, CallsFit, NEW i \in Baileys, NEW j \in Instances \ {i},
         NEW c \in Calls, call[c].phase = "idle", call'[c].instance = j,
         \A d \in Calls \ {c} : call'[d] = call[d]
  PROVE  CallsOn(i)' = CallsOn(i) /\ \A d \in CallsOn(i) : call'[d].phase = call[d].phase
<1>1. call[c].instance # i
  BY NoCallTyped, LifecycleAssumption DEF CallsFit, Instances
<1> QED
  BY <1>1 DEF CallsOn

LEMMA CreateSound ==
  ASSUME Shape, NEW i \in Baileys, Sound(i), NEW c \in Calls, NEW j \in Instances, Create(c, j)
  PROVE  Sound(i)'
<1>1. TypeOK /\ CallsFit
  BY DEF Shape
<1>2. /\ call[c].phase = "idle" /\ call'[c].instance = j /\ call'[c].phase = "start"
      /\ \A d \in Calls \ {c} : call'[d] = call[d]
      /\ row[j] = "unborn" /\ row'[j] = "DISCONNECTED" /\ \A k \in Instances \ {j} : row'[k] = row[k]
      /\ UNCHANGED <<providers, socket, current, opening, timers, boot, writes, untold, wanted, revived,
                     meddled>>
  BY <1>1, CreateShape DEF process
<1>3. CASE j # i
  <2>1. CallsOn(i)' = CallsOn(i) /\ \A d \in CallsOn(i) : call'[d].phase = call[d].phase
    BY <1>1, <1>2, <1>3, NewCall
  <2>2. Untouched(i)
    BY <1>2, <1>3, <2>1 DEF Untouched, Live, Instances
  <2> QED
    BY <2>2, UntouchedSound
<1>4. CASE j = i
  <2>1. /\ Quiet(i) /\ CallsOn(i) = {} /\ writes[i] = <<>>
        /\ i \notin boot \cup providers \cup meddled
    BY <1>2, <1>4 DEF Sound, Unborn
  <2>2. CallsOn(i)' = {c}
    BY <1>2, <1>4, <2>1 DEF CallsOn
  <2>3. Quiet(i)' /\ Live(i)' = {} /\ Pending(i)' = 0
    BY <1>2, <2>1 DEF Quiet, Live, Pending
  <2>4. Single(i)'
    BY <1>2, <1>4, <2>1, <2>2, <2>3 DEF Single
  <2>5. Told(i)'
    BY <1>2, <1>4, <2>1, <2>3 DEF Told, Last
  <2> QED
    BY <1>2, <1>4, <2>1, <2>4, <2>5, SoundIf
<1> QED
  BY <1>3, <1>4

LEMMA AskSound ==
  ASSUME Shape, NEW i \in Baileys, Sound(i), NEW c \in Calls, NEW j \in Instances,
         NEW op \in Ops, Ask(c, op, j)
  PROVE  Sound(i)'
<1>1. TypeOK /\ CallsFit
  BY DEF Shape
<1>2. /\ call[c].phase = "idle" /\ call'[c].instance = j /\ call'[c].phase = "stop"
      /\ \A d \in Calls \ {c} : call'[d] = call[d]
      /\ row[j] # "unborn" /\ boot = {}
      /\ meddled' = meddled \cup {k \in Baileys \cap {j} : CallsOn(k) # {}}
      /\ UNCHANGED <<row, providers, socket, current, opening, timers, boot, writes, untold,
                     wanted, revived>>
  BY <1>1, AskShape DEF process
<1>3. CASE j # i
  <2>1. CallsOn(i)' = CallsOn(i) /\ \A d \in CallsOn(i) : call'[d].phase = call[d].phase
    BY <1>1, <1>2, <1>3, NewCall
  <2>2. Untouched(i)
    BY <1>2, <1>3, <2>1 DEF Untouched, Live
  <2> QED
    BY <2>2, UntouchedSound
<1>4. CASE j = i
  <2>1. ASSUME i \notin meddled' PROVE Single(i)' /\ Told(i)'
    <3>1. Single(i) /\ Told(i) /\ CallsOn(i) = {}
      BY <1>2, <1>4, <2>1 DEF Sound
    <3>2. CallsOn(i)' = {c}
      BY <1>2, <1>4, <3>1 DEF CallsOn
    <3>3. (Quiet(i)' <=> Quiet(i)) /\ Live(i)' = Live(i) /\ Pending(i)' = Pending(i)
          /\ Last(i)' = Last(i)
      BY <1>2 DEF Quiet, Live, Pending, Last
    <3>4. Single(i)'
      BY <1>2, <3>1, <3>2, <3>3 DEF Single
    <3>5. Told(i)'
      BY <1>2, <3>1, <3>3 DEF Told, Exists
    <3> QED
      BY <3>4, <3>5
  <2> QED
    BY <1>2, <1>4, <2>1, SoundIf
<1> QED
  BY <1>3, <1>4

\* A request that goes on, or is done, on its own instance.
LEMMA CallHere ==
  ASSUME NEW i \in Baileys, NEW c \in Calls, call[c].instance = i,
         call'[c] = NoCall \/ call'[c].instance = i,
         \A d \in Calls \ {c} : call'[d] = call[d]
  PROVE  c \in CallsOn(i) /\ CallsOn(i)' \subseteq CallsOn(i)
BY NoCallTyped, LifecycleAssumption DEF CallsOn, Instances

\* A request that goes on with the rest of its operation after a stop, or is
\* done, leaves its instance sound when nothing is left of its connection.
LEMMA StoppedSound ==
  ASSUME Shape, NEW i \in Baileys, Sound(i), NEW c \in Calls, call[c].instance = i,
         call[c].op \in Ops, call' = Stopped(c),
         i \notin meddled => Quiet(i),
         i \notin providers',
         UNCHANGED <<row, socket, current, opening, timers, boot, writes, untold, wanted, revived, meddled>>
  PROVE  Sound(i)'
<1>1. TypeOK
  BY DEF Shape
<1>2. /\ \/ call'[c] = NoCall
         \/ call'[c].instance = i /\ call'[c].phase \in {"start", "remove"}
      /\ \A d \in Calls \ {c} : call'[d] = call[d]
  BY <1>1, StoppedShape
<1>3. c \in CallsOn(i) /\ CallsOn(i)' \subseteq CallsOn(i)
  BY <1>2, CallHere
<1>4. row[i] # "unborn" /\ i \notin boot
  BY <1>3, Busy
<1>5. ASSUME i \notin meddled' PROVE Single(i)' /\ Told(i)'
  <2>1. Single(i) /\ Told(i) /\ Quiet(i)
    BY <1>5 DEF Sound
  <2>2. Quiet(i)' /\ Live(i)' = {} /\ Pending(i)' = 0
    BY <2>1 DEF Quiet, Live, Pending
  <2>3. Single(i)'
    BY <1>3, <2>1, <2>2 DEF Single
  <2>4. Told(i)'
    BY <2>1, <2>2 DEF Told, Last, Exists, Quiet
  <2> QED
    BY <2>3, <2>4
<1> QED
  BY <1>4, <1>5, SoundIf

LEMMA StopUnknownSound ==
  ASSUME Shape, NEW i \in Baileys, Sound(i), NEW c \in Calls, StopUnknown(c)
  PROVE  Sound(i)'
<1>1. TypeOK /\ CallsFit /\ call[c].op \in Ops
  BY DEF Shape, CallsFit, StopUnknown
<1>2. /\ call' = Stopped(c)
      /\ call[c].instance \notin providers
      /\ UNCHANGED <<row, providers, socket, current, opening, timers, boot, writes, untold,
                     wanted, revived, meddled>>
  BY DEF StopUnknown, process
<1>3. CASE call[c].instance # i
  <2>1. CallsOn(i)' = CallsOn(i) /\ \A d \in CallsOn(i) : call'[d].phase = call[d].phase
    BY <1>1, <1>2, <1>3, StoppedShape, CallElsewhere
  <2>2. Untouched(i)
    BY <1>2, <2>1 DEF Untouched, Live
  <2> QED
    BY <2>2, UntouchedSound
<1>4. CASE call[c].instance = i
  <2>1. i \notin meddled => Quiet(i)
    BY <1>2, <1>4 DEF Sound, Single
  <2> QED
    BY <1>1, <1>2, <1>4, <2>1, StoppedSound
<1> QED
  BY <1>3, <1>4

LEMMA RemoveKeysSound ==
  ASSUME Shape, NEW i \in Baileys, Sound(i), NEW c \in Calls, RemoveKeys(c)
  PROVE  Sound(i)'
<1>1. TypeOK /\ CallsFit /\ call[c].op \in Ops /\ call[c].phase = "written"
  BY DEF Shape, CallsFit, RemoveKeys
<1>2. /\ call' = Stopped(c) /\ providers' = providers \ {call[c].instance}
      /\ UNCHANGED <<row, socket, current, opening, timers, boot, writes, untold, wanted, revived, meddled>>
  BY DEF RemoveKeys
<1>3. CASE call[c].instance # i
  <2>1. CallsOn(i)' = CallsOn(i) /\ \A d \in CallsOn(i) : call'[d].phase = call[d].phase
    BY <1>1, <1>2, <1>3, StoppedShape, CallElsewhere
  <2>2. Untouched(i)
    BY <1>2, <1>3, <2>1 DEF Untouched, Live
  <2> QED
    BY <2>2, UntouchedSound
<1>4. CASE call[c].instance = i
  <2>1. c \in CallsOn(i)
    BY <1>4 DEF CallsOn
  <2>2. i \notin meddled => Quiet(i)
    BY <1>1, <2>1 DEF Sound, Single
  <2> QED
    BY <1>1, <1>2, <1>4, <2>2, StoppedSound
<1> QED
  BY <1>3, <1>4

LEMMA RemoveRowSound ==
  ASSUME Shape, NEW i \in Baileys, Sound(i), NEW c \in Calls, RemoveRow(c)
  PROVE  Sound(i)'
<1>1. TypeOK /\ CallsFit /\ call[c].instance \in Instances
  BY DEF Shape, CallsFit, RemoveRow
<1>2. /\ call[c].phase = "remove"
      /\ call'[c] = NoCall /\ \A d \in Calls \ {c} : call'[d] = call[d]
      /\ row'[call[c].instance] = "deleted"
      /\ \A j \in Instances \ {call[c].instance} : row'[j] = row[j]
      /\ Unwanted(call[c].instance)
      /\ UNCHANGED <<providers, socket, current, opening, timers, boot, writes, untold, meddled>>
  BY <1>1, TypeParts DEF RemoveRow, process
<1>3. CASE call[c].instance # i
  <2>1. CallsOn(i)' = CallsOn(i) /\ \A d \in CallsOn(i) : call'[d].phase = call[d].phase
    BY <1>2, <1>3, CallElsewhere
  <2>2. Untouched(i)
    BY <1>2, <1>3, <2>1 DEF Untouched, Live, Instances, Unwanted
  <2> QED
    BY <2>2, UntouchedSound
<1>4. CASE call[c].instance = i
  <2>1. c \in CallsOn(i) /\ CallsOn(i)' \subseteq CallsOn(i)
    BY <1>2, <1>4, CallHere
  <2>2. row[i] # "unborn" /\ i \notin boot
    BY <2>1, Busy
  <2>3. ASSUME i \notin meddled' PROVE Single(i)' /\ Told(i)'
    <3>1. Single(i) /\ Quiet(i) /\ i \notin providers
      BY <1>2, <2>1, <2>3 DEF Sound, Single
    <3>2. Quiet(i)' /\ Live(i)' = {} /\ Pending(i)' = 0
      BY <1>2, <3>1 DEF Quiet, Live, Pending
    <3>3. Single(i)'
      BY <1>2, <2>1, <3>1, <3>2 DEF Single
    <3>4. Told(i)'
      BY <1>2, <1>4 DEF Told, Exists, Statuses
    <3> QED
      BY <3>3, <3>4
  <2> QED
    BY <1>2, <1>4, <2>2, <2>3, SoundIf
<1> QED
  BY <1>3, <1>4

\* startSession of another instance.
LEMMA StartElsewhere ==
  ASSUME TypeOK, NEW i \in Baileys, NEW j \in Instances \ {i}, StartSession(j),
         UNCHANGED <<socket, current, timers, writes, untold, meddled>>,
         i \in boot' <=> i \in boot, 
         i \in wanted' \cup revived' <=> i \in wanted \cup revived,
         CallsOn(i)' = CallsOn(i), \A d \in CallsOn(i) : call'[d].phase = call[d].phase
  PROVE  Untouched(i)
<1>1. row'[i] = row[i] /\ opening'[i] = opening[i] /\ (i \in providers' <=> i \in providers)
  <2>1. i \in Instances \ {j} /\ j # i
    BY DEF Instances
  <2>2. \/ UNCHANGED <<row, providers, opening>>
        \/ /\ providers' = providers \cup {j}
           /\ \A k \in Instances \ {j} : row'[k] = row[k]
           /\ \A k \in Baileys \ {j} : opening'[k] = opening[k]
    BY StartShape, LifecycleAssumption
  <2> QED
    BY <2>1, <2>2
<1> QED
  BY <1>1 DEF Untouched, Live

\* startSession of an instance without a connection: it gets one, if it has a
\* row, and no request is left that would take it for stopped.
LEMMA StartHere ==
  ASSUME TypeOK, NEW i \in Baileys, StartSession(i), Quiet(i), Single(i), CallsOn(i)' = {},
         UNCHANGED <<socket, current, timers, writes, untold, meddled>>,
         Exists(i) \/ i \notin providers, Exists(i) => i \in wanted' \cup revived'
  PROVE  Single(i)' /\ (~Exists(i) => Quiet(i)')
         /\ row'[i] = row[i]
         /\ (Exists(i) => ~Quiet(i)' /\ timers'[i] = 0 /\ Live(i)' = {})
<1>0. i \in Instances /\ i \notin Meta
  BY LifecycleAssumption DEF Instances
<1>1. Live(i) = {} /\ opening[i] = 0 /\ timers[i] = 0 /\ Live(i)' = {} /\ timers'[i] = 0
  BY DEF Quiet, Live
<1>2. CASE ~Exists(i)
  <2>1. UNCHANGED <<row, providers, opening>>
    BY <1>0, <1>2, StartShape
  <2>2. Quiet(i)' /\ Pending(i)' = 0
    BY <1>1, <2>1 DEF Quiet, Pending
  <2>3. Single(i)'
    BY <1>1, <1>2, <2>1, <2>2 DEF Single
  <2> QED
    BY <1>2, <2>1, <2>2, <2>3
<1>3. CASE Exists(i)
  <2>1. i \in providers' /\ row' = row /\ opening'[i] = 1
    BY <1>0, <1>1, <1>3, StartShape
  <2>2. ~Quiet(i)' /\ Pending(i)' = 1 /\ row[i] # "deleted"
    BY <1>1, <1>3, <2>1 DEF Quiet, Pending, Exists, Statuses
  <2>3. Single(i)'
    BY <1>1, <1>3, <2>1, <2>2 DEF Single
  <2> QED
    BY <1>1, <1>3, <2>1, <2>2, <2>3
<1> QED
  BY <1>2, <1>3

LEMMA StartSound ==
  ASSUME Shape, NEW i \in Baileys, Sound(i), NEW c \in Calls, Start(c)
  PROVE  Sound(i)'
<1>1. /\ TypeOK /\ CallsFit /\ call[c].instance \in Instances /\ i \in Instances
      /\ i \notin Meta
  BY LifecycleAssumption DEF Shape, CallsFit, Start, Instances
<1>2. /\ call[c].phase = "start" /\ StartSession(call[c].instance)
      /\ Wanted(call[c].instance)
      /\ call'[c] = NoCall /\ \A d \in Calls \ {c} : call'[d] = call[d]
      /\ UNCHANGED <<socket, current, timers, boot, writes, untold, meddled>>
  BY <1>1, TypeParts DEF Start
<1>3. CASE call[c].instance # i
  <2>1. CallsOn(i)' = CallsOn(i) /\ \A d \in CallsOn(i) : call'[d].phase = call[d].phase
    BY <1>2, <1>3, CallElsewhere
  <2>2. Untouched(i)
    BY <1>1, <1>2, <1>3, <2>1, StartElsewhere DEF Wanted
  <2> QED
    BY <2>2, UntouchedSound
<1>4. CASE call[c].instance = i
  <2>1. c \in CallsOn(i) /\ CallsOn(i)' \subseteq CallsOn(i) /\ c \notin CallsOn(i)'
    BY <1>1, <1>2, <1>4, CallHere, NoCallTyped, LifecycleAssumption DEF CallsOn
  <2>2. row[i] # "unborn" /\ i \notin boot
    BY <2>1, Busy
  <2>3. row'[i] = row[i]
    BY <1>1, <1>2, <1>4, StartShape
  <2>4. ASSUME i \notin meddled' PROVE Single(i)' /\ Told(i)'
    <3>1. Single(i) /\ Told(i) /\ Quiet(i) /\ i \notin providers /\ CallsOn(i)' = {}
      BY <1>2, <2>1, <2>4 DEF Sound, Single
    <3>2. /\ Single(i)' /\ (~Exists(i) => Quiet(i)')
          /\ (Exists(i) => ~Quiet(i)' /\ timers'[i] = 0 /\ Live(i)' = {})
      BY <1>1, <1>2, <1>4, <3>1, StartHere DEF Wanted
    <3>3. Told(i)'
      BY <2>3, <3>2 DEF Told, Exists
    <3> QED
      BY <3>2, <3>3
  <2> QED
    BY <1>2, <2>2, <2>3, <2>4, SoundIf
<1> QED
  BY <1>3, <1>4

LEMMA BootSound ==
  ASSUME Shape, NEW i \in Baileys, Sound(i), NEW j \in Instances, Boot(j)
  PROVE  Sound(i)'
<1>1. TypeOK /\ i \in Instances /\ i \notin Meta
  BY LifecycleAssumption DEF Shape, Instances
<1>2. /\ j \in boot /\ boot' = boot \ {j} /\ StartSession(j)
      /\ CallsOn(i)' = CallsOn(i) /\ \A d \in CallsOn(i) : call'[d].phase = call[d].phase
      /\ UNCHANGED <<socket, current, timers, writes, untold, meddled, wanted, revived>>
  BY DEF Boot, CallsOn
<1>3. CASE j # i
  <2>1. Untouched(i)
    BY <1>1, <1>2, <1>3, StartElsewhere
  <2> QED
    BY <2>1, UntouchedSound
<1>4. CASE j = i
  <2>1. Quiet(i) /\ CallsOn(i) = {} /\ Exists(i) /\ i \in wanted \cup revived
    BY <1>2, <1>4 DEF Sound, Waiting
  <2>2. row'[i] = row[i] /\ row[i] # "unborn"
    BY <1>1, <1>2, <1>4, <2>1, StartShape DEF Exists, Statuses
  <2>3. ASSUME i \notin meddled' PROVE Single(i)' /\ Told(i)'
    <3>1. Single(i)
      BY <1>2, <2>3 DEF Sound
    <3>2. Single(i)' /\ ~Quiet(i)' /\ timers'[i] = 0 /\ Live(i)' = {}
      BY <1>1, <1>2, <1>4, <2>1, <3>1, StartHere
    <3>3. Told(i)'
      BY <3>2 DEF Told
    <3> QED
      BY <3>2, <3>3
  <2> QED
    BY <1>2, <1>4, <2>2, <2>3, SoundIf
<1> QED
  BY <1>3, <1>4

LEMMA StopBaileysSound ==
  ASSUME Shape, NEW i \in Baileys, Sound(i), NEW c \in Calls, StopBaileys(c)
  PROVE  Sound(i)'
<1>1. TypeOK /\ CallsFit
  BY DEF Shape
<1>2. PICK j \in Baileys :
        /\ j = call[c].instance /\ call[c].phase = "stop"
        /\ j \in providers \/ Exists(j)
        /\ providers' = providers \cup {j}
        /\ IF current[j] = None THEN Unwanted(j) ELSE UNCHANGED <<wanted, revived>>
        /\ meddled' = IF Pending(j) > 0 THEN meddled \cup {j} ELSE meddled
        /\ call'[c].instance = j
        /\ \/ current[j] = None /\ call'[c].phase = "written"
           \/ call'[c].phase = "logout"
        /\ \A d \in Calls \ {c} : call'[d] = call[d]
        /\ UNCHANGED <<row, socket, current, opening, timers, boot, writes, untold>>
  BY <1>1, StopShape
<1>3. CASE j # i
  <2>1. CallsOn(i)' = CallsOn(i) /\ \A d \in CallsOn(i) : call'[d].phase = call[d].phase
    BY <1>2, <1>3, CallElsewhere
  <2>2. Untouched(i)
    BY <1>2, <1>3, <2>1 DEF Untouched, Live, Unwanted
  <2> QED
    BY <2>2, UntouchedSound
<1>4. CASE j = i
  <2>1. c \in CallsOn(i) /\ CallsOn(i)' \subseteq CallsOn(i)
    BY <1>2, <1>4, CallHere
  <2>2. row[i] # "unborn" /\ i \notin boot
    BY <2>1, Busy
  <2>3. (Quiet(i)' <=> Quiet(i)) /\ Live(i)' = Live(i) /\ Pending(i)' = Pending(i)
        /\ Last(i)' = Last(i)
    BY <1>2 DEF Quiet, Live, Pending, Last
  <2>4. ASSUME i \notin meddled' PROVE Single(i)' /\ Told(i)'
    <3>1. Single(i) /\ Told(i) /\ ~(Pending(i) > 0)
      BY <1>2, <1>4, <2>4 DEF Sound
    <3>2. opening[i] = 0 /\ timers[i] = 0
      BY <1>1, <3>1, TypeParts DEF Pending
    <3>3. current[i] = None => Quiet(i)
      BY <3>1, <3>2, LifecycleAssumption DEF Quiet, Single, Live
    <3>4. \A d \in CallsOn(i)' : d = c
      BY <2>1, <3>1 DEF Single
    <3>5. ~Quiet(i) => call'[c].phase = "logout" /\ c \in CallsOn(i)'
      BY <1>2, <1>4, <3>3 DEF CallsOn
    <3>6. call'[c].phase \in {"written", "logout"}
      BY <1>2
    <3>7. row[i] # "deleted"
      BY <1>2, <1>4, <3>1 DEF Single, Exists, Statuses
    <3>8. Single(i)'
      BY <1>2, <1>4, <2>3, <3>1, <3>3, <3>4, <3>5, <3>6, <3>7 DEF Single
    <3>9. Told(i)'
      BY <1>2, <2>3, <3>1 DEF Told, Exists
    <3> QED
      BY <3>8, <3>9
  <2> QED
    BY <1>2, <2>2, <2>4, SoundIf
<1> QED
  BY <1>3, <1>4

\* Writes set out for another instance, and for this one.
LEMMA IssueElsewhere ==
  ASSUME TypeOK, NEW i \in Baileys, NEW j \in Baileys \ {i}, NEW new \in Seq(StatusWrite),
         Issue(j, new)
  PROVE  writes'[i] = writes[i] /\ (i \in untold' <=> i \in untold)
BY IssueShape

LEMMA IssueHere ==
  ASSUME TypeOK, NEW i \in Baileys, NEW new \in Seq(StatusWrite), Issue(i, new),
         NEW m \in Nat \ {0}, Len(new) = m
  PROVE  Last(i)' = new[m].status
<1>1. Len(writes[i]) \in Nat /\ writes'[i] \in Seq(StatusWrite)
      /\ Len(writes'[i]) = Len(writes[i]) + Len(new)
      /\ \A n \in 1 .. Len(new) : writes'[i][Len(writes[i]) + n] = new[n]
  BY IssueShape, TypeParts, LenProperties
<1>2. Len(writes'[i]) = Len(writes[i]) + m /\ m \in 1 .. Len(new)
  BY <1>1
<1>3. writes'[i][Len(writes'[i])] = new[m]
  BY <1>1, <1>2
<1>4. writes'[i] # <<>>
  BY <1>1, <1>2, EmptySeq
<1> QED
  BY <1>3, <1>4 DEF Last

LEMMA LogoutSound ==
  ASSUME Shape, NEW i \in Baileys, Sound(i), NEW c \in Calls, Logout(c)
  PROVE  Sound(i)'
<1>1. TypeOK /\ CallsFit
  BY DEF Shape
<1>2. PICK j \in Baileys, s \in Sockets :
        /\ j = call[c].instance /\ call[c].phase = "logout" /\ socket[s].instance = j
        /\ current'[j] = None /\ \A k \in Baileys \ {j} : current'[k] = current[k]
        /\ call'[c].instance = j /\ call'[c].phase = "writing"
        /\ \A d \in Calls \ {c} : call'[d] = call[d]
        /\ \A r \in Sockets \ {s} : socket'[r] = socket[r]
        /\ socket'[s].instance = j
        /\ \/ /\ socket[s].state \in LiveStates /\ socket'[s].state = "closed"
              /\ Issue(j, <<Farewell(None), Farewell(c)>>)
              /\ meddled' = IF Pending(j) > 0 THEN meddled \cup {j} ELSE meddled
           \/ /\ socket' = socket
              /\ Issue(j, <<Farewell(c)>>)
              /\ meddled' = IF Live(j) # {} \/ Pending(j) > 0 THEN meddled \cup {j} ELSE meddled
        /\ Unwanted(j)
        /\ UNCHANGED <<row, providers, opening, timers, boot>>
  BY SMTT(30), <1>1, LogoutShape
<1>3. Farewell(None) \in StatusWrite /\ Farewell(c) \in StatusWrite
  BY DEF Farewell, StatusWrite, Statuses
<1>4. CASE j # i
  <2>1. CallsOn(i)' = CallsOn(i) /\ \A d \in CallsOn(i) : call'[d].phase = call[d].phase
    BY <1>2, <1>4, CallElsewhere
  <2>2. writes'[i] = writes[i] /\ (i \in untold' <=> i \in untold)
    BY <1>1, <1>2, <1>3, <1>4, FewWrites, IssueElsewhere
  <2>3. Live(i)' = Live(i) /\ \A r \in Live(i) : socket'[r] = socket[r]
    BY <1>2, <1>4 DEF Live
  <2>4. Untouched(i)
    BY <1>2, <1>4, <2>1, <2>2, <2>3 DEF Untouched, Unwanted
  <2> QED
    BY <2>4, UntouchedSound
<1>5. CASE j = i
  <2>1. c \in CallsOn(i) /\ CallsOn(i)' \subseteq CallsOn(i)
    BY <1>2, <1>5, CallHere
  <2>2. row[i] # "unborn" /\ i \notin boot
    BY <2>1, Busy
  <2>3. Last(i)' = "DISCONNECTED"
    <3>1. CASE Issue(i, <<Farewell(c)>>)
      <4> DEFINE new == <<Farewell(c)>>
      <4>1. new \in Seq(StatusWrite) /\ Len(new) = 1 /\ new[1] = Farewell(c) /\ Issue(i, new)
        BY <1>3, <3>1, FewWrites
      <4> HIDE DEF new
      <4>2. Last(i)' = new[1].status
        BY <1>1, <4>1, IssueHere
      <4> QED
        BY <4>1, <4>2 DEF Farewell
    <3>2. CASE Issue(i, <<Farewell(None), Farewell(c)>>)
      <4> DEFINE new == <<Farewell(None), Farewell(c)>>
      <4>1. new \in Seq(StatusWrite) /\ Len(new) = 2 /\ new[2] = Farewell(c) /\ Issue(i, new)
        BY <1>3, <3>2, FewWrites
      <4> HIDE DEF new
      <4>2. Last(i)' = new[2].status
        BY <1>1, <4>1, IssueHere
      <4> QED
        BY <4>1, <4>2 DEF Farewell
    <3> QED
      BY <1>2, <1>5, <3>1, <3>2
  <2>4. ASSUME i \notin meddled' PROVE Single(i)' /\ Told(i)'
    <3>1. Single(i) /\ ~(Pending(i) > 0)
      BY <1>2, <1>5, <2>4 DEF Sound
    <3>2. opening[i] = 0 /\ timers[i] = 0
      BY <1>1, <3>1, TypeParts DEF Pending
    <3>3. Live(i)' = {}
      <4>1. CASE socket[s].state \in LiveStates /\ socket'[s].state = "closed"
        <5>1. s \in Live(i)
          BY <1>2, <1>5, <4>1 DEF Live
        <5>2. Live(i) \subseteq {s}
          BY <3>1, <5>1 DEF Single
        <5> QED
          BY <1>2, <4>1, <5>2 DEF Live, LiveStates
      <4>2. CASE socket' = socket /\ Live(i) = {}
        BY <4>2 DEF Live
      <4> QED
        BY <1>2, <1>5, <2>4, <4>1, <4>2
    <3>4. Quiet(i)' /\ Pending(i)' = 0
      BY <1>2, <3>2, <3>3 DEF Quiet, Pending
    <3>5. \A d \in CallsOn(i)' : d = c
      BY <2>1, <3>1 DEF Single
    <3>6. Single(i)'
      BY <1>2, <3>1, <3>3, <3>4, <3>5 DEF Single
    <3>7. Told(i)'
      BY <2>3, <3>3 DEF Told
    <3> QED
      BY <3>6, <3>7
  <2> QED
    BY <1>2, <2>2, <2>4, SoundIf
<1> QED
  BY <1>4, <1>5

LEMMA EventSound ==
  ASSUME Shape, NEW i \in Baileys, Sound(i), NEW s \in Sockets, Event(s)
  PROVE  Sound(i)'
<1>1. TypeOK /\ SocketsFit
  BY DEF Shape
<1>2. PICK j \in Baileys, status \in Statuses :
        /\ j = socket[s].instance /\ socket[s].state \in LiveStates
        /\ socket'[s].instance = j
        /\ \A r \in Sockets \ {s} : socket'[r] = socket[r]
        /\ Issue(j, <<[status |-> status, call |-> None]>>)
        /\ \A k \in Baileys \ {j} : timers'[k] = timers[k]
        /\ \/ /\ socket'[s].state \in DOMAIN StatusOf /\ status = StatusOf[socket'[s].state]
              /\ timers' = timers /\ UNCHANGED <<wanted, revived>>
           \/ /\ socket'[s].state = "closed" /\ status = "DISCONNECTED"
              /\ \/ timers' = timers /\ Unwanted(j)
                 \/ timers'[j] = timers[j] + 1 /\ UNCHANGED <<wanted, revived>>
        /\ UNCHANGED <<row, providers, current, opening, boot, call, meddled>>
  BY <1>1, EventShape
<1> DEFINE w == [status |-> status, call |-> None]
           new == <<w>>
<1>3. /\ new \in Seq(StatusWrite) /\ Len(new) = 1 /\ new[1].status = status
      /\ Issue(j, new)
  <2>1. w \in StatusWrite /\ w.status = status
    BY DEF StatusWrite
  <2> HIDE DEF w
  <2>2. new \in Seq(StatusWrite) /\ Len(new) = 1 /\ new[1] = w
    BY <2>1, FewWrites
  <2>3. Issue(j, new)
    BY <1>2 DEF w
  <2> QED
    BY <2>1, <2>2, <2>3
<1> HIDE DEF new
<1>4. CASE j # i
  <2>1. writes'[i] = writes[i] /\ (i \in untold' <=> i \in untold)
    BY <1>1, <1>3, <1>4, IssueElsewhere
  <2>2. Live(i)' = Live(i) /\ \A r \in Live(i) : socket'[r] = socket[r]
    BY <1>2, <1>4 DEF Live
  <2>3. Untouched(i)
    BY <1>2, <1>4, <2>1, <2>2 DEF Untouched, CallsOn, Unwanted
  <2> QED
    BY <2>3, UntouchedSound
<1>5. CASE j = i
  <2>1. s \in Live(i) /\ ~Quiet(i)
    BY <1>2, <1>5 DEF Live, Quiet
  <2>2. row[i] # "unborn" /\ i \notin boot
    BY <2>1 DEF Sound, Unborn, Waiting
  <2>3. Last(i)' = status
    <3>1. new \in Seq(StatusWrite) /\ Len(new) = 1 /\ Issue(i, new)
      BY <1>3, <1>5
    <3>2. Last(i)' = new[1].status
      BY <1>1, <3>1, IssueHere
    <3> QED
      BY <1>3, <3>2
  <2>4. ASSUME i \notin meddled PROVE Single(i)' /\ Told(i)'
    <3>1. Single(i) /\ Pending(i) = 0 /\ Live(i) = {s} /\ current[i] = s
      BY <2>1, <2>4 DEF Sound, Single
    <3>2. opening[i] = 0 /\ timers[i] = 0
      BY <1>1, <3>1, TypeParts DEF Pending
    <3>3. /\ \A c \in CallsOn(i)' : call'[c].phase \notin {"writing", "written", "start", "remove"}
          /\ CallsOn(i)' = CallsOn(i)
      BY <1>2, <2>1, <3>1 DEF Single, CallsOn
    <3>4. CASE /\ socket'[s].state \in DOMAIN StatusOf /\ status = StatusOf[socket'[s].state]
               /\ timers' = timers /\ UNCHANGED <<wanted, revived>>
      <4>1. socket'[s].state \in LiveStates
        BY <3>4 DEF StatusOf, LiveStates
      <4>2. Live(i)' = {s}
        BY <1>2, <1>5, <3>1, <4>1 DEF Live
      <4>3. ~Quiet(i)' /\ Pending(i)' = 0 /\ timers'[i] = 0
        BY <1>2, <3>2, <3>4, <4>2 DEF Quiet, Pending
      <4>4. Single(i)'
        BY <1>2, <2>1, <3>1, <3>3, <3>4, <4>2, <4>3 DEF Single
      <4>5. Told(i)'
        BY <2>3, <3>4, <4>2, <4>3 DEF Told
      <4> QED
        BY <4>4, <4>5
    <3>5. CASE /\ socket'[s].state = "closed" /\ status = "DISCONNECTED"
               /\ \/ timers' = timers /\ Unwanted(i)
                  \/ timers'[i] = timers[i] + 1 /\ UNCHANGED <<wanted, revived>>
      <4>1. Live(i)' = {}
        BY <1>2, <3>1, <3>5 DEF Live, LiveStates
      <4>2. /\ opening'[i] = 0 /\ Pending(i)' <= 1
            /\ Quiet(i)' \/ UNCHANGED <<wanted, revived>>
        BY <1>2, <3>2, <3>5, <4>1 DEF Quiet, Pending
      <4>3. Single(i)'
        BY <1>2, <2>1, <3>1, <3>3, <4>1, <4>2 DEF Single
      <4>4. Told(i)'
        BY <2>3, <3>5, <4>1 DEF Told
      <4> QED
        BY <4>3, <4>4
    <3> QED
      BY <1>2, <1>5, <3>4, <3>5
  <2> QED
    BY <1>2, <2>2, <2>4, SoundIf
<1> QED
  BY <1>4, <1>5

LEMMA ReconnectSound ==
  ASSUME Shape, NEW i \in Baileys, Sound(i), NEW j \in Baileys, Reconnect(j)
  PROVE  Sound(i)'
<1>1. TypeOK
  BY DEF Shape
<1>2. /\ timers[j] > 0
      /\ timers'[j] = timers[j] - 1 /\ \A k \in Baileys \ {j} : timers'[k] = timers[k]
      /\ opening'[j] = opening[j] + 1 /\ \A k \in Baileys \ {j} : opening'[k] = opening[k]
      /\ UNCHANGED <<row, providers, socket, current, boot, writes, untold, call, wanted, revived, meddled>>
  BY <1>1, ReconnectShape
<1>3. Live(i)' = Live(i) /\ CallsOn(i)' = CallsOn(i)
  BY <1>2 DEF Live, CallsOn
<1>4. CASE j # i
  <2>1. Untouched(i)
    BY <1>2, <1>3, <1>4 DEF Untouched
  <2> QED
    BY <2>1, UntouchedSound
<1>5. CASE j = i
  <2>0. opening[i] \in Nat /\ timers[i] \in Nat
    BY <1>1, TypeParts
  <2>1. ~Quiet(i) /\ ~Quiet(i)' /\ Pending(i)' = Pending(i)
    BY <1>2, <1>5, <2>0 DEF Quiet, Pending
  <2>2. row[i] # "unborn" /\ i \notin boot
    BY <2>1 DEF Sound, Unborn, Waiting
  <2>3. ASSUME i \notin meddled PROVE Single(i)' /\ Told(i)'
    <3>1. Single(i)
      BY <2>3 DEF Sound
    <3>2. Live(i) = {} /\ timers'[i] = 0
      BY <1>2, <1>5, <2>0, <3>1 DEF Single, Pending
    <3>3. Single(i)'
      BY <1>2, <1>3, <2>1, <3>1 DEF Single
    <3>4. Told(i)'
      BY <1>3, <2>1, <3>2 DEF Told
    <3> QED
      BY <3>3, <3>4
  <2> QED
    BY <1>2, <2>2, <2>3, SoundIf
<1> QED
  BY <1>4, <1>5

LEMMA ConnectSound ==
  ASSUME Shape, NEW i \in Baileys, Sound(i), NEW j \in Baileys, NEW s \in Sockets, Connect(j, s)
  PROVE  Sound(i)'
<1>1. TypeOK
  BY DEF Shape
<1>2. /\ opening[j] > 0 /\ socket[s].state \in {"free", "closed"}
      /\ opening'[j] = opening[j] - 1 /\ \A k \in Baileys \ {j} : opening'[k] = opening[k]
      /\ socket'[s].instance = j /\ socket'[s].state = "new"
      /\ \A r \in Sockets \ {s} : socket'[r] = socket[r]
      /\ current'[j] = s /\ \A k \in Baileys \ {j} : current'[k] = current[k]
      /\ UNCHANGED <<row, providers, timers, boot, writes, untold, call, wanted, revived, meddled>>
  BY <1>1, ConnectShape
<1>3. s \notin Live(i) /\ CallsOn(i)' = CallsOn(i)
  BY <1>2 DEF Live, LiveStates, CallsOn
<1>4. CASE j # i
  <2>1. Live(i)' = Live(i) /\ \A r \in Live(i) : socket'[r] = socket[r]
    BY <1>2, <1>3, <1>4 DEF Live
  <2>2. Untouched(i)
    BY <1>2, <1>3, <1>4, <2>1 DEF Untouched
  <2> QED
    BY <2>2, UntouchedSound
<1>5. CASE j = i
  <2>0. opening[i] \in Nat /\ timers[i] \in Nat
    BY <1>1, TypeParts
  <2>1. Live(i)' = Live(i) \cup {s}
    BY <1>2, <1>3, <1>5 DEF Live, LiveStates
  <2>2. ~Quiet(i) /\ ~Quiet(i)'
    BY <1>2, <1>5, <2>0, <2>1 DEF Quiet
  <2>3. row[i] # "unborn" /\ i \notin boot
    BY <2>2 DEF Sound, Unborn, Waiting
  <2>4. ASSUME i \notin meddled PROVE Single(i)' /\ Told(i)'
    <3>1. Single(i)
      BY <2>4 DEF Sound
    <3>0. opening[i] = 1 /\ timers[i] = 0
      BY <1>2, <1>5, <2>0, <3>1 DEF Single, Pending
    <3>a. Live(i) = {}
      BY <3>0, <3>1 DEF Single, Pending
    <3>2. Live(i)' = {s} /\ timers'[i] = 0 /\ opening'[i] = 0
      BY <1>2, <1>5, <2>1, <3>0, <3>a
    <3>3. Pending(i)' = 0
      BY <3>2 DEF Pending
    <3>4. Single(i)'
      BY <1>2, <1>3, <1>5, <2>2, <3>1, <3>2, <3>3 DEF Single
    <3>5. Told(i)'
      BY <1>2, <2>2, <3>2 DEF Told
    <3> QED
      BY <3>4, <3>5
  <2> QED
    BY <1>2, <2>3, <2>4, SoundIf
<1> QED
  BY <1>4, <1>5

\* An answer leaves the last status last, or the instance is among the untold.
LEMMA AnswerSound ==
  ASSUME Shape, NEW i \in Baileys, Sound(i), NEW j \in Baileys, NEW n \in DOMAIN writes[j],
         Write(j, n) \/ Fail(j, n)
  PROVE  Sound(i)'
<1>1. TypeOK /\ WritesFit
  BY DEF Shape
<1>0. /\ row' \in [Instances -> Statuses \cup {"unborn", "deleted"}]
      /\ row' = row \/ (Exists(j) /\ row'[j] = writes[j][n].status)
      /\ \A k \in Instances \ {j} : row'[k] = row[k]
      /\ n \in 1 .. Len(writes[j]) /\ writes[j][n] \in StatusWrite /\ Len(writes[j]) \in Nat
      /\ writes' \in [Baileys -> Seq(StatusWrite)]
      /\ Len(writes'[j]) = Len(writes[j]) - 1
      /\ \A m \in 1 .. Len(writes'[j]) :
           writes'[j][m] = IF m < n THEN writes[j][m] ELSE writes[j][m + 1]
      /\ \A k \in Baileys \ {j} : writes'[k] = writes[k]
      /\ call' \in [Calls -> Request]
      /\ \A d \in Calls : \/ call'[d] = call[d] /\ writes[j][n].call # d
                          \/ /\ writes[j][n].call = d
                             /\ call[d].phase = "writing" /\ call[d].instance = j
                             /\ call'[d].phase = "written" /\ call'[d].instance = j
                             /\ call'[d].op = call[d].op
      /\ untold \subseteq untold' /\ untold' \subseteq untold \cup {j}
      /\ \/ j \in untold' \/ n # Len(writes[j])
         \/ n = 1 /\ row'[j] = writes[j][n].status
      /\ j \in Instances
  BY SMTT(30), <1>1, AnswerShape
<1>2. \A d \in Calls : \/ call'[d] = call[d]
                      \/ /\ call[d].phase = "writing" /\ call[d].instance = j
                         /\ call'[d].phase = "written" /\ call'[d].instance = j
  BY <1>0
<1>3. UNCHANGED <<providers, socket, current, opening, timers, boot, wanted, revived, meddled>>
  BY DEF Write, Fail, Answered, process
<1>4. /\ Live(i)' = Live(i) /\ CallsOn(i)' = CallsOn(i) /\ (Quiet(i)' <=> Quiet(i))
      /\ Pending(i)' = Pending(i)
  <2>1. Live(i)' = Live(i)
    BY <1>3 DEF Live
  <2>2. CallsOn(i)' = CallsOn(i)
    BY <1>2 DEF CallsOn
  <2>3. Quiet(i)' <=> Quiet(i)
    BY <1>3, <2>1, <2>2 DEF Quiet
  <2>4. Pending(i)' = Pending(i)
    BY <1>3 DEF Pending
  <2> QED
    BY <2>1, <2>2, <2>3, <2>4
<1>5. CASE j # i
  <2>1. \A d \in CallsOn(i) : call'[d].phase = call[d].phase
    BY <1>0, <1>2, <1>5 DEF CallsOn
  <2>2. row'[i] = row[i] /\ writes'[i] = writes[i] /\ (i \in untold' <=> i \in untold)
    BY <1>0, <1>2, <1>5 DEF Instances
  <2>3. Untouched(i)
    BY <1>3, <1>4, <2>1, <2>2 DEF Untouched
  <2> QED
    BY <2>3, UntouchedSound
<1>6. CASE j = i
  <2>1. writes[i] # <<>> /\ row[i] # "unborn"
    <3>1. writes[i] # <<>>
      BY <1>0, <1>2, <1>6
    <3> QED
      BY <3>1 DEF Sound, Unborn
  <2>2. (Exists(i)' <=> Exists(i)) /\ row'[i] # "unborn" /\ (row'[i] = "deleted" <=> row[i] = "deleted")
    BY <1>0, <1>2, <1>6, <2>1 DEF Exists, Statuses, StatusWrite
  <2>3. Waiting(i)'
    BY <1>3, <1>4, <2>2 DEF Sound, Waiting
  <2>4. i \notin untold' => Last(i)' = Last(i)
    <3> SUFFICES ASSUME i \notin untold' PROVE Last(i)' = Last(i)
      OBVIOUS
    <3>1. Last(i) = writes[i][Len(writes[i])].status
      BY <2>1 DEF Last
    <3>2. CASE n = Len(writes[i])
      <4>1. n = 1 /\ writes'[i] = <<>> /\ row'[i] = writes[i][1].status
        BY <1>0, <1>6, <3>2, EmptySeq
      <4> QED
        BY <3>1, <3>2, <4>1 DEF Last
    <3>3. CASE n # Len(writes[i])
      <4>0. Len(writes[i]) \in Nat \ {0} /\ Len(writes'[i]) = Len(writes[i]) - 1
        BY <1>0, <1>2, <1>6
      <4> DEFINE old == Len(writes[i])
                 len == Len(writes'[i])
      <4>a. old \in Nat \ {0} /\ n \in 1 .. old /\ n # old /\ len = old - 1
        BY <1>0, <1>6, <3>3, <4>0
      <4> HIDE DEF old, len
      <4>b. len \in 1 .. len /\ ~(len < n) /\ len + 1 = old
        BY <4>a
      <4>1. Len(writes'[i]) \in 1 .. Len(writes'[i])
        BY <4>b DEF len
      <4>2. writes'[i][Len(writes'[i])] = writes[i][Len(writes[i])]
        BY <1>0, <1>6, <4>1, <4>b DEF len, old
      <4>3. writes'[i] # <<>>
        BY <4>1
      <4> QED
        BY <3>1, <4>2, <4>3 DEF Last
    <3> QED
      BY <3>2, <3>3
  <2>5. ASSUME i \notin meddled' PROVE Single(i)' /\ Told(i)'
    <3>1. Single(i) /\ Told(i)
      BY <1>3, <2>5 DEF Sound
    <3>b. \A d \in CallsOn(i)' : call'[d].phase \in {"writing", "written", "start", "remove"} =>
                                    Quiet(i)'
      BY <1>0, <1>2, <1>4, <3>1 DEF Single, CallsOn
    <3>c. \A d \in CallsOn(i)' : call'[d].phase \in {"start", "remove"} => i \notin providers'
      BY <1>0, <1>2, <1>3, <1>4, <3>1 DEF Single, CallsOn
    <3>d. ~Quiet(i)' => i \in wanted' \cup revived'
      BY <1>0, <1>2, <1>3, <1>4, <3>1 DEF Single, CallsOn
    <3>2. Single(i)'
      BY <1>3, <1>4, <2>2, <3>1, <3>b, <3>c, <3>d DEF Single
    <3>3. Told(i)'
      BY <1>0, <1>2, <1>3, <1>4, <1>6, <2>2, <2>4, <3>1 DEF Told
    <3> QED
      BY <3>2, <3>3
  <2> QED
    BY <2>2, <2>3, <2>5 DEF Sound, Unborn
<1> QED
  BY <1>5, <1>6

\* What the start has to do is what the rows tell: an instance whose row is not
\* DISCONNECTED has a connection, and so is wanted or was revived before, or it
\* is among those whose row says otherwise for a reason.
LEMMA RestartSound ==
  ASSUME Shape, NEW i \in Baileys, Sound(i), Restart
  PROVE  Sound(i)'
<1>1. TypeOK /\ i \in Instances
  BY DEF Shape, Instances
<1>2. /\ providers' = {} /\ meddled' = {} /\ row' = row
      /\ \A s \in Sockets : socket'[s] = Free
      /\ opening'[i] = 0 /\ timers'[i] = 0 /\ writes'[i] = <<>>
      /\ \A c \in Calls : call'[c] = NoCall
      /\ boot' = ToBoot /\ wanted' = wanted /\ revived' = Revived
  BY DEF Restart
<1>3. Live(i)' = {} /\ CallsOn(i)' = {} /\ Quiet(i)' /\ Pending(i)' = 0
  <2>1. Live(i)' = {}
    BY <1>2 DEF Live, Free, LiveStates
  <2>2. CallsOn(i)' = {}
    BY <1>1, <1>2, NoCallTyped, LifecycleAssumption DEF CallsOn
  <2> QED
    BY <1>2, <2>1, <2>2 DEF Quiet, Pending
<1>4. i \in boot' => Exists(i) /\ row[i] # "DISCONNECTED"
  BY <1>2 DEF ToBoot
<1>5. ASSUME i \in boot' PROVE i \in wanted' \cup revived'
  <2> SUFFICES ASSUME i \notin wanted, i \notin untold \cup meddled \cup revived, writes[i] = <<>>
               PROVE  FALSE
    BY <1>2, <1>5 DEF Revived
  <2>1. i \notin boot
    BY DEF Sound, Waiting
  <2>2. Single(i) /\ Told(i) /\ Last(i) # "DISCONNECTED"
    BY <1>4, <1>5 DEF Sound, Last
  <2>3. Quiet(i)
    BY <2>2 DEF Single
  <2> QED
    BY <1>4, <1>5, <2>1, <2>2, <2>3 DEF Told
<1>6. Unborn(i)'
  BY <1>2, <1>3, <1>4 DEF Unborn, Exists, Statuses
<1>7. Waiting(i)'
  BY <1>2, <1>3, <1>4, <1>5 DEF Waiting, Exists
<1>8. Single(i)'
  BY <1>2, <1>3 DEF Single
<1>9. Told(i)'
  BY <1>1, <1>2, <1>3 DEF Told, Last, ToBoot, Exists
<1> QED
  BY <1>6, <1>7, <1>8, <1>9 DEF Sound

LEMMA InitSound == Init => AllSound
<1> SUFFICES ASSUME Init, NEW i \in Baileys PROVE Sound(i)
  BY DEF AllSound
<1>1. i \in Instances
  BY DEF Instances
<1>2. Live(i) = {} /\ CallsOn(i) = {} /\ Quiet(i) /\ Pending(i) = 0
  <2>1. Live(i) = {}
    BY DEF Init, Live, Free, LiveStates
  <2>2. CallsOn(i) = {}
    BY <1>1, NoCallTyped, LifecycleAssumption DEF Init, CallsOn
  <2> QED
    BY <2>1, <2>2 DEF Init, Quiet, Pending
<1>3. row[i] = "unborn" /\ writes[i] = <<>> /\ providers = {} /\ boot = {} /\ meddled = {}
  BY <1>1 DEF Init
<1> QED
  BY <1>2, <1>3 DEF Sound, Unborn, Waiting, Single, Told, Exists, Statuses

LEMMA StepSound == Shape /\ AllSound /\ [Next]_vars => AllSound'
<1> SUFFICES ASSUME Shape, AllSound, [Next]_vars, NEW i \in Baileys PROVE Sound(i)'
  BY DEF AllSound
<1>0. Sound(i)
  BY DEF AllSound
<1>1. CASE UNCHANGED vars
  <2>1. Untouched(i)
    BY <1>1 DEF vars, process, Untouched, Live, CallsOn
  <2> QED
    BY <1>0, <2>1, UntouchedSound
<1>2. ASSUME NEW c \in Calls, NEW j \in Instances,
             Create(c, j) \/ \E op \in {"stop", "delete", "connect"} : Ask(c, op, j)
      PROVE  Sound(i)'
  BY <1>0, <1>2, CreateSound, AskSound DEF Ops
<1>3. ASSUME NEW c \in Calls, Serve(c) PROVE Sound(i)'
  <2>1. CASE StopMeta(c)
    BY <1>0, <2>1, MetaUntouched, UntouchedSound
  <2> QED
    BY <1>0, <1>3, <2>1, StopUnknownSound, StopBaileysSound, LogoutSound, RemoveKeysSound,
       RemoveRowSound, StartSound DEF Serve
<1>4. ASSUME NEW s \in Sockets, Event(s) PROVE Sound(i)'
  BY <1>0, <1>4, EventSound
<1>5. ASSUME NEW j \in Baileys,
             \/ Reconnect(j)
             \/ \E s \in Sockets : Connect(j, s)
             \/ \E n \in DOMAIN writes[j] : Write(j, n) \/ Fail(j, n)
      PROVE  Sound(i)'
  BY <1>0, <1>5, ReconnectSound, ConnectSound, AnswerSound
<1>6. ASSUME NEW j \in Instances, Boot(j) PROVE Sound(i)'
  BY <1>0, <1>6, BootSound
<1>7. ASSUME Restart PROVE Sound(i)'
  BY <1>0, <1>7, RestartSound
<1> QED
  BY <1>1, <1>2, <1>3, <1>4, <1>5, <1>6, <1>7 DEF Next

LEMMA SoundHolds == Spec => [](Shape /\ AllSound)
BY InitShape, InitSound, StepShape, StepSound, PTL DEF Spec

-----------------------------------------------------------------------------

LEMMA Counting ==
  ASSUME TypeOK, NEW i \in Baileys
  PROVE  /\ IsFiniteSet(Live(i)) /\ Cardinality(Live(i)) \in Nat /\ Pending(i) \in Nat
         /\ Connections(i) = Cardinality(Live(i)) + Pending(i)
         /\ Connections(i) = 0 <=> Quiet(i)
<1>1. IsFiniteSet(Live(i)) /\ Cardinality(Live(i)) \in Nat
  BY LifecycleAssumption, FS_Subset, FS_CardinalityType DEF Live
<1>2. opening[i] \in Nat /\ timers[i] \in Nat
  BY TypeParts
<1>3. Cardinality(Live(i)) = 0 <=> Live(i) = {}
  BY <1>1, FS_EmptySet
<1>4. Pending(i) \in Nat /\ (Pending(i) = 0 <=> opening[i] = 0 /\ timers[i] = 0)
  BY <1>2 DEF Pending
<1>5. Connections(i) = Cardinality(Live(i)) + Pending(i)
  BY DEF Connections
<1>6. Connections(i) = 0 <=> Cardinality(Live(i)) = 0 /\ Pending(i) = 0
  BY <1>1, <1>4, <1>5
<1> QED
  BY <1>1, <1>3, <1>4, <1>5, <1>6 DEF Quiet

\* An instance has one connection at most: a live socket, a connect that waits
\* for the keys, or a reconnect timer.  Whoever sets out a new one has none
\* left: a reconnect follows the close of the only socket, and a request
\* starts only what its own stop has emptied; the named races are the only
\* ways around it.
THEOREM OneConnectionHolds == Spec => []OneConnection
<1>1. ASSUME Shape, AllSound, NEW i \in Baileys \ meddled PROVE Connections(i) <= 1
  <2>1. TypeOK /\ Single(i)
    BY <1>1 DEF Shape, AllSound, Sound
  <2>2. /\ IsFiniteSet(Live(i)) /\ Cardinality(Live(i)) \in Nat /\ Pending(i) \in Nat
        /\ Connections(i) = Cardinality(Live(i)) + Pending(i)
    BY <2>1, Counting
  <2>3. CASE Live(i) = {}
    BY <2>1, <2>2, <2>3, FS_EmptySet DEF Single
  <2>4. CASE Live(i) # {}
    <3>1. Live(i) = {current[i]} /\ Pending(i) = 0
      BY <2>1, <2>4 DEF Single
    <3>2. Cardinality({current[i]}) = 1
      BY FS_Singleton
    <3> QED
      BY <2>2, <3>1, <3>2
  <2> QED
    BY <2>3, <2>4
<1>2. Shape /\ AllSound => OneConnection
  BY <1>1 DEF OneConnection
<1> QED
  BY <1>2, SoundHolds, PTL

\* A disconnected or deleted instance has no connection left, and gets none by
\* a timer, a restart or another request.  What a stop has emptied nothing
\* fills but the races at meddled; and a restart starts an instance that
\* nobody wants only for one of the reasons at Revived: its newest status
\* failed, landed before an older one, or was lost on its way.
THEOREM StaysStoppedHolds == Spec => []StaysStopped
<1>1. ASSUME Shape, AllSound, NEW i \in Baileys \ (meddled \cup wanted \cup revived), AtRest(i)
      PROVE  Connections(i) = 0
  <2>1. TypeOK /\ Single(i)
    BY <1>1 DEF Shape, AllSound, Sound
  <2>2. Quiet(i)
    BY <1>1, <2>1 DEF Single, AtRest
  <2> QED
    BY <2>1, <2>2, Counting
<1>2. Shape /\ AllSound => StaysStopped
  BY <1>1 DEF StaysStopped
<1> QED
  BY <1>2, SoundHolds, PTL

\* With no write on its way, the status column tells what the connection is;
\* without one it is DISCONNECTED, also after a restart.  It does so whatever
\* became of older statuses, once the newest has landed last; only when that one
\* failed or landed before an older one (untold), or after one of the races at
\* meddled, may it be wrong.
THEOREM StatusHolds == Spec => []StatusIsTrue
<1>1. ASSUME Shape, AllSound, NEW i \in Baileys \ (meddled \cup untold),
             Exists(i), AtRest(i), writes[i] = <<>>
      PROVE  /\ Connections(i) = 0 \/ timers[i] > 0 => row[i] = "DISCONNECTED"
             /\ \A s \in Live(i) : socket[s].state # "new" => row[i] = StatusOf[socket[s].state]
  <2>1. TypeOK /\ Told(i)
    BY <1>1 DEF Shape, AllSound, Sound
  <2>2. Last(i) = row[i] /\ i \notin untold \cup boot
    BY <1>1 DEF Last, AtRest
  <2> QED
    BY <1>1, <2>1, <2>2, Counting DEF Told
<1>2. Shape /\ AllSound => StatusIsTrue
  BY <1>1 DEF StatusIsTrue
<1> QED
  BY <1>2, SoundHolds, PTL
=============================================================================
