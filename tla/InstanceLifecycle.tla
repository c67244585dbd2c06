------------------------ MODULE InstanceLifecycle ------------------------
(***************************************************************************)
(* The connections of WhatsApp instances: the administrator's requests     *)
(* through SessionManagerService, the Baileys sockets with the callbacks   *)
(* that reconnect them, the virtual connections of the Meta provider, the  *)
(* status column, and the start of the process.                            *)
(*                                                                         *)
(* One process; sockets, timers, maps and callbacks are lost with it.      *)
(* A status write of a callback is not awaited, so two that are on their   *)
(* way may reach the database in either order; and each may fail, which    *)
(* is logged and forgotten.                                                *)
(***************************************************************************)
EXTENDS Naturals, Sequences, FiniteSets

CONSTANTS Baileys, Meta, \* instances by provider
          Calls,         \* requests that may be under way at the same time
          Sockets,       \* bound on the sockets that exist at the same time
          MaxCalls,      \* bound on the requests
          MaxRestarts,   \* bound on the restarts
          MaxWrites,     \* bound on the unawaited writes of one instance
          None

Instances == Baileys \cup Meta

ASSUME LifecycleAssumption ==
  /\ Baileys \cap Meta = {}
  /\ IsFiniteSet(Sockets)
  /\ MaxCalls \in Nat /\ MaxRestarts \in Nat /\ MaxWrites \in Nat \ {0}
  /\ None \notin Instances \cup Calls \cup Sockets

VARIABLES
  row,       \* status of the WhatsappInstance row; "unborn" before it, "deleted" after it
  providers, \* ProviderFactory.activeProviders
  heard,     \* instances for whose provider onMessage was called in this process
  socket,    \* state and instance of every socket
  current,   \* BaileysProvider.sockets
  opening,   \* calls of connect that wait for the stored keys or the version
  timers,    \* reconnect timers that are running
  writes,    \* status writes on their way, with the request that awaits them
  call,      \* requests of administrators
  boot,      \* instances onModuleInit has still to start
  asked, restarts,  \* counters for the bounds
  wanted,    \* Baileys instances started, and neither disconnected nor logged out since (history)
  untold,    \* the newest status failed, or landed before an older one (history)
  revived,   \* not wanted, but a restart did not find it DISCONNECTED, for
             \* one of the reasons named at Revived (history)
  meddled,   \* a stop of the instance met one of the races below (history)
  forgotten  \* wanted, but a restart found its row DISCONNECTED (history)

process == <<providers, heard, socket, current, opening, timers, boot>>
vars == <<row, process, writes, call, asked, restarts, wanted, untold, revived, meddled, forgotten>>

Statuses == {"DISCONNECTED", "QR_READY", "CONNECTING", "CONNECTED"}
LiveStates == {"new", "connecting", "qr", "open"}
Free == [instance |-> None, state |-> "free"]
Asked(op, i, phase) == [op |-> op, instance |-> i, phase |-> phase, socket |-> None]
NoCall == Asked("none", None, "idle")

Exists(i) == row[i] \in Statuses
Live(i) == {s \in Sockets : socket[s].instance = i /\ socket[s].state \in LiveStates}
Pending(i) == opening[i] + timers[i]
Connections(i) == Cardinality(Live(i)) + Pending(i)
CallsOn(i) == {c \in Calls : call[c].instance = i}

Init ==
  /\ row = [i \in Instances |-> "unborn"]
  /\ providers = {} /\ heard = {} /\ boot = {}
  /\ socket = [s \in Sockets |-> Free]
  /\ current = [i \in Baileys |-> None]
  /\ opening = [i \in Baileys |-> 0]
  /\ timers = [i \in Baileys |-> 0]
  /\ writes = [i \in Baileys |-> <<>>]
  /\ call = [c \in Calls |-> NoCall]
  /\ asked = 0 /\ restarts = 0
  /\ wanted = {} /\ untold = {} /\ revived = {} /\ meddled = {} /\ forgotten = {}

-----------------------------------------------------------------------------
(* SessionManagerService.startSession *)

SameProvider(i) == IF i \in Meta THEN Meta ELSE Baileys

\* The virtual connection of a Meta instance: there is none without a row or
\* without credentials in it, and the update may fail.
MetaConnected(i) == {row} \cup (IF Exists(i) THEN {[row EXCEPT ![i] = "CONNECTED"]} ELSE {})

\* The provider is looked up in the cache or by the row, the callbacks are
\* registered with it, and connect is called, which for a Baileys instance
\* waits for its keys.
StartSession(i) ==
  IF i \notin providers /\ ~Exists(i)
  THEN UNCHANGED <<row, providers, heard, opening>>
  ELSE /\ providers' = providers \cup {i}
       /\ heard' = heard \cup SameProvider(i)
       /\ IF i \in Meta
          THEN /\ row' \in MetaConnected(i)
               /\ UNCHANGED opening
          ELSE /\ opening' = [opening EXCEPT ![i] = @ + 1]
               /\ UNCHANGED row

Unused(s) ==
  /\ socket[s].state \in {"free", "closed"} /\ \A k \in Baileys : current[k] # s
  /\ \A c \in Calls : call[c].socket # s

\* connect goes on: a new socket takes the place of whatever the map holds.
\* Which unused one is the new socket makes no difference.
Connect(i, s) ==
  /\ opening[i] > 0
  /\ Unused(s) /\ s = CHOOSE t \in Sockets : Unused(t)
  /\ opening' = [opening EXCEPT ![i] = @ - 1]
  /\ socket' = [socket EXCEPT ![s] = [instance |-> i, state |-> "new"]]
  /\ current' = [current EXCEPT ![i] = s]
  /\ UNCHANGED <<row, providers, heard, timers, boot, writes, untold, call, asked, restarts,
                 wanted, revived, meddled, forgotten>>

-----------------------------------------------------------------------------
(* connection.update *)

\* A new status makes up for whatever became of older ones.
Issue(i, new) ==
  /\ writes' = [writes EXCEPT ![i] = @ \o new]
  /\ untold' = untold \ {i}

\* The administrator or the phone has ended the session of the instance.
Unwanted(i) == wanted' = wanted \ {i} /\ revived' = revived \ {i}

\* The administrator has started it.
Wanted(i) ==
  IF i \in Baileys /\ Exists(i) THEN wanted' = wanted \cup {i} /\ revived' = revived \ {i}
  ELSE UNCHANGED <<wanted, revived>>

\* The bound on the unawaited writes of an instance: one less after one of the
\* races, when the properties have nothing to say of it until a restart.
Bound(i) == IF i \in meddled THEN MaxWrites - 1 ELSE MaxWrites

\* updateInstanceDbStatus, called without await.
Report(i, status) ==
  Len(writes[i]) < Bound(i) /\ Issue(i, <<[status |-> status, call |-> None]>>)

StatusOf == [connecting |-> "CONNECTING", qr |-> "QR_READY", open |-> "CONNECTED"]

\* The socket gets on: connecting, a QR code (or the next one), open.
Progress(s, state) ==
  /\ \/ socket[s].state = "new" /\ state = "connecting"
     \/ socket[s].state \in {"connecting", "qr"} /\ state \in {"qr", "open"}
  /\ socket' = [socket EXCEPT ![s].state = state]
  /\ Report(socket[s].instance, StatusOf[state])
  /\ UNCHANGED <<row, providers, heard, current, opening, timers, boot, call, asked,
                 restarts, wanted, revived, meddled, forgotten>>

\* Mutant: the socket is thrown away, its map entry stays.
CloseFreed(s) ==
  LET i == socket[s].instance IN
  /\ socket[s].state \in LiveStates
  /\ socket' = [socket EXCEPT ![s] = Free]
  /\ Report(i, "DISCONNECTED")
  /\ Unwanted(i)
  /\ UNCHANGED <<row, providers, heard, current, opening, timers, boot, call, asked,
                 restarts, meddled, forgotten>>

\* The phone logged the session out: no reconnection.
CloseLoggedOut(s) ==
  LET i == socket[s].instance IN
  /\ socket[s].state \in LiveStates
  /\ socket' = [socket EXCEPT ![s].state = "closed"]
  /\ Report(i, "DISCONNECTED")
  /\ Unwanted(i)
  /\ UNCHANGED <<row, providers, heard, current, opening, timers, boot, call, asked,
                 restarts, meddled, forgotten>>

\* Mutant: no timer.
CloseForGood(s) ==
  LET i == socket[s].instance IN
  /\ socket[s].state \in LiveStates
  /\ socket' = [socket EXCEPT ![s].state = "closed"]
  /\ Report(i, "DISCONNECTED")
  /\ UNCHANGED <<row, providers, heard, current, opening, timers, boot, call, asked, restarts,
                 wanted, revived, meddled, forgotten>>

\* Any other close: connect is called again in 5 seconds.
CloseOther(s) ==
  LET i == socket[s].instance IN
  /\ socket[s].state \in LiveStates
  /\ socket' = [socket EXCEPT ![s].state = "closed"]
  /\ Report(i, "DISCONNECTED")
  /\ timers' = [timers EXCEPT ![i] = @ + 1]
  /\ UNCHANGED <<row, providers, heard, current, opening, boot, call, asked, restarts,
                 wanted, revived, meddled, forgotten>>

\* The timer asks nobody whether the instance is still wanted.
Reconnect(i) ==
  /\ timers[i] > 0
  /\ timers' = [timers EXCEPT ![i] = @ - 1]
  /\ opening' = [opening EXCEPT ![i] = @ + 1]
  /\ UNCHANGED <<row, providers, heard, socket, current, boot, writes, untold, call, asked,
                 restarts, wanted, revived, meddled, forgotten>>

\* The n-th write on its way is answered.  A request that awaits it goes on.
Answered(i, n) ==
  LET w == writes[i][n] IN
  /\ n \in DOMAIN writes[i]
  /\ writes' = [writes EXCEPT ![i] = SubSeq(@, 1, n - 1) \o SubSeq(@, n + 1, Len(@))]
  /\ call' = IF w.call = None THEN call ELSE [call EXCEPT ![w.call].phase = "written"]
  /\ UNCHANGED <<process, asked, restarts, wanted, revived, meddled, forgotten>>

Newest(i, n) == n = Len(writes[i])

\* Answers come in any order.
Write(i, n) ==
  /\ Exists(i) /\ Answered(i, n)
  /\ row' = [row EXCEPT ![i] = writes[i][n].status]
  /\ untold' = IF Newest(i, n) /\ n > 1 THEN untold \cup {i} ELSE untold

\* The update fails and is logged: there is no row, another instance has the
\* phone that comes with CONNECTED, or the database is away.
Fail(i, n) ==
  /\ Answered(i, n)
  /\ untold' = IF Newest(i, n) THEN untold \cup {i} ELSE untold
  /\ UNCHANGED row

-----------------------------------------------------------------------------
(* The administrator's requests *)

Idle(c) == call[c].phase = "idle"

\* Requests are served once the start is over.  Which of those that are idle
\* the new one is makes no difference.
Asking(c) ==
  /\ Idle(c) /\ c = CHOOSE d \in Calls : Idle(d)
  /\ boot = {} /\ asked < MaxCalls
  /\ asked' = asked + 1

\* Which of the instances of a provider that do not exist yet is created makes
\* no difference.
Create(c, i) ==
  /\ row[i] = "unborn" /\ i = CHOOSE k \in SameProvider(i) : row[k] = "unborn"
  /\ Asking(c)
  /\ row' = [row EXCEPT ![i] = "DISCONNECTED"]
  /\ call' = [call EXCEPT ![c] = Asked("create", i, "start")]
  /\ UNCHANGED <<process, writes, untold, restarts, wanted, revived, meddled, forgotten>>

\* Mutant: connectInstance does not stop the session first.
AskStartAtOnce(c, op, i) ==
  /\ row[i] # "unborn" /\ Asking(c)
  /\ call' = [call EXCEPT ![c] = Asked(op, i, IF op = "connect" THEN "start" ELSE "stop")]
  /\ meddled' = meddled \cup {k \in Baileys \cap {i} : CallsOn(k) # {}}
  /\ UNCHANGED <<row, process, writes, untold, restarts, wanted, revived, forgotten>>

\* The bound on requests that meet: there is room for two writes more.
Room(k) == CallsOn(k) = {} \/ Len(writes[k]) + 2 <= MaxWrites

\* Two requests for one instance at the same time are the first race.
Ask(c, op, i) ==
  /\ row[i] # "unborn" /\ Asking(c)
  /\ \A k \in Baileys \cap {i} : Room(k)
  /\ call' = [call EXCEPT ![c] = Asked(op, i, "stop")]
  /\ meddled' = meddled \cup {k \in Baileys \cap {i} : CallsOn(k) # {}}
  /\ UNCHANGED <<row, process, writes, untold, restarts, wanted, revived, forgotten>>

\* What follows stopSession in the request that called it.
AfterStop == [delete |-> "remove", connect |-> "start"]
Stopped(c) == [call EXCEPT ![c] = IF call[c].op = "stop" THEN NoCall
                                  ELSE [@ EXCEPT !.phase = AfterStop[call[c].op], !.socket = None]]

\* stopSession of an instance without a row: getProvider throws.
StopUnknown(c) ==
  LET i == call[c].instance IN
  /\ call[c].phase = "stop"
  /\ i \notin providers /\ ~Exists(i)
  /\ call' = Stopped(c)
  /\ UNCHANGED <<row, process, writes, untold, asked, restarts, wanted, revived, meddled, forgotten>>

\* Mutant: disconnect takes the callback away from the provider all share.
StopMetaUnhooking(c) ==
  LET i == call[c].instance IN
  /\ call[c].phase = "stop" /\ i \in Meta
  /\ i \in providers \/ Exists(i)
  /\ \/ /\ Exists(i)
        /\ row' = [row EXCEPT ![i] = "DISCONNECTED"]
        /\ providers' = providers \ {i}
     \/ /\ providers' = providers \cup {i}
        /\ UNCHANGED row
  /\ heard' = heard \ Meta
  /\ call' = Stopped(c)
  /\ UNCHANGED <<socket, current, opening, timers, boot, writes, untold, asked, restarts,
                 wanted, revived, meddled, forgotten>>

\* The Meta provider writes DISCONNECTED; an update that fails, as it does
\* without a row, throws before removeProvider.
StopMeta(c) ==
  LET i == call[c].instance IN
  /\ call[c].phase = "stop" /\ i \in Meta
  /\ i \in providers \/ Exists(i)
  /\ \/ /\ Exists(i)
        /\ row' = [row EXCEPT ![i] = "DISCONNECTED"]
        /\ providers' = providers \ {i}
     \/ /\ providers' = providers \cup {i}
        /\ UNCHANGED row
  /\ call' = Stopped(c)
  /\ UNCHANGED <<heard, socket, current, opening, timers, boot, writes, untold, asked, restarts,
                 wanted, revived, meddled, forgotten>>

\* disconnect takes the socket from the map, if there is one.  A reconnect
\* that is waiting or under way is not in the map: the second race.
StopBaileys(c) ==
  LET i == call[c].instance IN
  /\ call[c].phase = "stop" /\ i \in Baileys
  /\ i \in providers \/ Exists(i)
  /\ providers' = providers \cup {i}
  /\ IF current[i] = None THEN Unwanted(i) ELSE UNCHANGED <<wanted, revived>>
  /\ meddled' = IF Pending(i) > 0 THEN meddled \cup {i} ELSE meddled
  /\ call' = [call EXCEPT ![c].phase = IF current[i] = None THEN "written" ELSE "logout",
                          ![c].socket = current[i]]
  /\ UNCHANGED <<row, heard, socket, current, opening, timers, boot, writes, untold, asked,
                 restarts, forgotten>>

\* logout ends the socket as logged out, or fails softly and leaves it as it
\* is: the third race, and so is a socket that closed by itself meanwhile and
\* will reconnect.  The map entry goes, and DISCONNECTED is written and awaited.
Logout(c) ==
  LET i == call[c].instance
      s == call[c].socket
      written == [status |-> "DISCONNECTED", call |-> c]
  IN
  /\ call[c].phase = "logout"
  /\ current' = [current EXCEPT ![i] = None]
  /\ Unwanted(i)
  /\ call' = [call EXCEPT ![c].phase = "writing", ![c].socket = None]
  /\ \/ /\ socket[s].state \in LiveStates
        /\ socket' = [socket EXCEPT ![s].state = "closed"]
        /\ Issue(i, <<[written EXCEPT !.call = None], written>>)
        /\ meddled' = IF Pending(i) > 0 THEN meddled \cup {i} ELSE meddled
     \/ /\ Issue(i, <<written>>)
        /\ meddled' = IF Live(i) # {} \/ Pending(i) > 0 THEN meddled \cup {i} ELSE meddled
        /\ UNCHANGED socket
  /\ UNCHANGED <<row, providers, heard, opening, timers, boot, asked, restarts, forgotten>>

\* The stored keys are deleted and the provider leaves the cache.
RemoveKeys(c) ==
  LET i == call[c].instance IN
  /\ call[c].phase = "written"
  /\ providers' = providers \ {i}
  /\ call' = Stopped(c)
  /\ UNCHANGED <<row, heard, socket, current, opening, timers, boot, writes, untold, asked,
                 restarts, wanted, revived, meddled, forgotten>>

\* deleteSession deletes the row, or throws when there is none.
RemoveRow(c) ==
  /\ call[c].phase = "remove"
  /\ row' = [row EXCEPT ![call[c].instance] = "deleted"]
  /\ Unwanted(call[c].instance)
  /\ call' = [call EXCEPT ![c] = NoCall]
  /\ UNCHANGED <<process, writes, untold, asked, restarts, meddled, forgotten>>

Start(c) ==
  /\ call[c].phase = "start"
  /\ StartSession(call[c].instance)
  /\ Wanted(call[c].instance)
  /\ call' = [call EXCEPT ![c] = NoCall]
  /\ UNCHANGED <<socket, current, timers, boot, writes, untold, asked, restarts, meddled, forgotten>>

-----------------------------------------------------------------------------
(* The process restarts *)

\* Mutant: every instance is started again.
ToBootAll == {i \in Instances : Exists(i)}

\* Mutant: only what was CONNECTED is started again.
ToBootConnected == {i \in Instances : row[i] = "CONNECTED"}

\* What onModuleInit is going to find.
ToBoot == {i \in Instances : Exists(i) /\ row[i] # "DISCONNECTED"}

\* Why the row of an instance that nobody wants may say otherwise: its newest
\* status was lost or written over, is lost on its way with the process, or
\* one of the races has happened; and so it stays until somebody stops it.
Revived == {i \in (Baileys \cap ToBoot) \ wanted :
              i \in untold \cup meddled \cup revived \/ writes[i] # <<>>}

Restart ==
  /\ restarts < MaxRestarts
  /\ restarts' = restarts + 1
  /\ providers' = {} /\ heard' = {}
  /\ socket' = [s \in Sockets |-> Free]
  /\ current' = [i \in Baileys |-> None]
  /\ opening' = [i \in Baileys |-> 0]
  /\ timers' = [i \in Baileys |-> 0]
  /\ writes' = [i \in Baileys |-> <<>>]
  /\ call' = [c \in Calls |-> NoCall]
  /\ boot' = ToBoot
  /\ untold' = {} /\ meddled' = {}
  /\ forgotten' = forgotten \cup {i \in wanted : row[i] = "DISCONNECTED"}
  /\ revived' = Revived
  /\ UNCHANGED <<row, asked, wanted>>

\* onModuleInit starts what was not disconnected; requests are served afterwards.
Boot(i) ==
  /\ i \in boot
  /\ boot' = boot \ {i}
  /\ StartSession(i)
  /\ UNCHANGED <<socket, current, timers, writes, untold, call, asked, restarts, wanted, revived,
                 meddled, forgotten>>

-----------------------------------------------------------------------------
Serve(c) ==
  \/ StopUnknown(c) \/ StopMeta(c) \/ StopBaileys(c) \/ Logout(c)
  \/ RemoveKeys(c) \/ RemoveRow(c) \/ Start(c)

Event(s) ==
  \/ \E state \in DOMAIN StatusOf : Progress(s, state)
  \/ CloseLoggedOut(s) \/ CloseOther(s)

Next ==
  \/ \E c \in Calls, i \in Instances :
       Create(c, i) \/ \E op \in {"stop", "delete", "connect"} : Ask(c, op, i)
  \/ \E c \in Calls : Serve(c)
  \/ \E s \in Sockets : Event(s)
  \/ \E i \in Baileys : \/ Reconnect(i)
                        \/ \E s \in Sockets : Connect(i, s)
                        \/ \E n \in DOMAIN writes[i] : Write(i, n) \/ Fail(i, n)
  \/ \E i \in Instances : Boot(i)
  \/ Restart

Spec == Init /\ [][Next]_vars

\* What Node and the database do of themselves: requests and the start are
\* carried through, timers fire, connect returns, writes are answered.  Nothing is
\* assumed of WhatsApp, administrators or restarts.
Fairness ==
  /\ \A c \in Calls : WF_vars(Serve(c))
  /\ \A i \in Baileys : /\ WF_vars(Reconnect(i))
                        /\ WF_vars(\E s \in Sockets : Connect(i, s))
                        /\ WF_vars(\E n \in DOMAIN writes[i] : Write(i, n) \/ Fail(i, n))
  /\ WF_vars(\E i \in Instances : Boot(i))

FairSpec == Spec /\ Fairness

-----------------------------------------------------------------------------
TypeOK ==
  /\ row \in [Instances -> Statuses \cup {"unborn", "deleted"}]
  /\ providers \subseteq Instances /\ heard \subseteq Instances /\ boot \subseteq Instances
  /\ socket \in [Sockets -> [instance : Baileys \cup {None}, state : LiveStates \cup {"free", "closed"}]]
  /\ current \in [Baileys -> Sockets \cup {None}]
  /\ \A i \in Baileys : current[i] # None => socket[current[i]].instance = i
  /\ opening \in [Baileys -> Nat] /\ timers \in [Baileys -> Nat]
  /\ writes \in [Baileys -> Seq([status : Statuses, call : Calls \cup {None}])]
  /\ call \in [Calls -> [op : {"none", "create", "stop", "delete", "connect"},
                        instance : Instances \cup {None},
                        phase : {"idle", "stop", "logout", "writing", "written", "start", "remove"},
                        socket : Sockets \cup {None}]]
  /\ asked \in 0 .. MaxCalls /\ restarts \in 0 .. MaxRestarts
  /\ wanted \cup untold \cup revived \cup meddled \cup forgotten \subseteq Baileys

AtRest(i) == CallsOn(i) = {} /\ i \notin boot

\* An instance has one connection at most: a live socket, a connect under way
\* or a reconnect timer.  Two sockets of one account throw each other out.
\* The races named at meddled are the only ways to get a second one.
OneConnection == \A i \in Baileys \ meddled : Connections(i) <= 1

\* A disconnected or deleted instance ("totalmente apagada",
\* instance.controller.ts:57) has no connection left, and gets none by a timer,
\* a restart or another request.  The exceptions are the races named at
\* meddled and the restarts named at Revived, and there are no others.
StaysStopped ==
  \A i \in Baileys \ (meddled \cup wanted \cup revived) : AtRest(i) => Connections(i) = 0

\* With no write on its way, the status column tells what the connection is;
\* without one it is DISCONNECTED, also after a restart.  It may be wrong when
\* the newest status failed or landed before an older one (untold), until the
\* next status, and after one of the races at meddled, until a restart.
StatusIsTrue ==
  \A i \in Baileys \ (meddled \cup untold) :
    Exists(i) /\ AtRest(i) /\ writes[i] = <<>> =>
      /\ Connections(i) = 0 \/ timers[i] > 0 => row[i] = "DISCONNECTED"
      /\ \A s \in Live(i) : socket[s].state # "new" => row[i] = StatusOf[socket[s].state]

\* The webhook hands messages to a callback that is there whenever a Meta
\* instance is CONNECTED and requests are served; else they are lost, after
\* Meta was told 200 (whatsapp-meta.controller.ts:74,134).
ConnectedIsHeard ==
  \A i \in Meta : row[i] = "CONNECTED" /\ i \notin boot => i \in heard

\* A wanted instance always gets a connection again, whatever closed the last
\* one, unless a restart found its row DISCONNECTED: in the 5 seconds before a
\* reconnection, before its first status was written, or because one failed.
ComesBack ==
  \A i \in Baileys : i \in wanted ~> Live(i) # {} \/ i \notin wanted \/ i \in forgotten

=============================================================================
