------------------------------- MODULE Registry -------------------------------
(***************************************************************************)
(* The server's table of live client sessions (server/registry.go) with    *)
(* every goroutine that touches it: one handleControl per control          *)
(* connection, its watch goroutine, the public request handlers that look  *)
(* a service up, and the shutdown that closes everything.                  *)
(*                                                                         *)
(* A critical section of Registry.mu is one step; what the code does       *)
(* before taking the mutex or after releasing it is a step of its own.     *)
(* Time is discrete: Tick advances, for every service, the time since      *)
(* lastSeen (saturating just past the grace window, where the code no      *)
(* longer tells values apart) and counts the running timers down.          *)
(*                                                                         *)
(* A definition marked "Slip" is not the code: it is the next one with a   *)
(* plausible mistake in it, which the named property must catch.           *)
(***************************************************************************)
EXTENDS Naturals, FiniteSets

CONSTANTS
    Service,  \* service names
    Session,  \* control connections, and the Session each may become
    Request,  \* public requests; each makes one Lookup
    Grace,    \* Registry.grace, in ticks
    None      \* the absent value (nil, or no entry in a map)

ASSUME GraceAssumption == Grace \in Nat
ASSUME NoneAssumption  == None \notin Service \cup Session \cup Request

VARIABLES
    sessions,   \* Registry.sessions: service -> its session, or None
    notifiers,  \* Registry.notifiers: service -> channel, or None.  A channel
                \* is named by the request that made it: one request makes at
                \* most one
    seen,       \* services with an entry in Registry.lastSeen
    age,        \* service -> ticks since lastSeen, saturating at Grace + 1
    shown,      \* service -> the session Stats shows as connected (its remote),
                \* or None when Stats.connected is false
    pc,         \* session -> where its handleControl goroutine stands
    svc,        \* session -> the service its handshake settled on
    old,        \* session -> the local `old` of its Register call
    ch,         \* session -> the local `ch` of its Register call
    dead,       \* sessions whose yamux connection is closed
    closed,     \* sessions whose `closed` channel is closed
    rpc,        \* request -> where its handler goroutine stands
    want,       \* request -> the service of its Host header
    waitOn,     \* request -> the channel its Lookup selects on
    timer,      \* request -> ticks left on its Lookup timer
    got,        \* request -> the session its Lookup returned
    closedCh,   \* channels that have been closed
    srv,        \* "up", or "closed" once CloseAll has cleared the map
    doomed      \* the sessions CloseAll copied and has not closed yet

mapVars  == <<sessions, notifiers, seen, age>>
connVars == <<pc, svc, old, ch>>
muxVars  == <<dead, closed>>
reqVars  == <<rpc, want, waitOn, timer, got>>
vars == <<mapVars, shown, connVars, muxVars, reqVars, closedCh, srv, doomed>>

TypeOK ==
    /\ sessions  \in [Service -> Session \cup {None}]
    /\ notifiers \in [Service -> Request \cup {None}]
    /\ seen \subseteq Service
    /\ age \in [Service -> 0 .. Grace + 1]
    /\ shown \in [Service -> Session \cup {None}]
    /\ pc \in [Session -> {"idle", "handshake", "mark", "insert", "evict",
                           "wake", "serve", "unmark", "done"}]
    /\ svc \in [Session -> Service \cup {None}]
    /\ old \in [Session -> Session \cup {None}]
    /\ ch  \in [Session -> Request \cup {None}]
    /\ dead \subseteq Session
    /\ closed \subseteq Session
    /\ rpc \in [Request -> {"idle", "wait", "dial", "fwd", "bad", "gone"}]
    /\ want \in [Request -> Service \cup {None}]
    /\ waitOn \in [Request -> Request \cup {None}]
    /\ timer \in [Request -> 0 .. Grace]
    /\ got \in [Request -> Session \cup {None}]
    /\ closedCh \subseteq Request
    /\ srv \in {"up", "closed"}
    /\ doomed \subseteq Session

Init ==
    /\ sessions  = [v \in Service |-> None]
    /\ notifiers = [v \in Service |-> None]
    /\ seen = {}
    /\ age = [v \in Service |-> 0]
    /\ shown = [v \in Service |-> None]
    /\ pc  = [s \in Session |-> "idle"]
    /\ svc = [s \in Session |-> None]
    /\ old = [s \in Session |-> None]
    /\ ch  = [s \in Session |-> None]
    /\ dead = {}
    /\ closed = {}
    /\ rpc    = [r \in Request |-> "idle"]
    /\ want   = [r \in Request |-> None]
    /\ waitOn = [r \in Request |-> None]
    /\ timer  = [r \in Request |-> 0]
    /\ got    = [r \in Request |-> None]
    /\ closedCh = {}
    /\ srv = "up"
    /\ doomed = {}

Goto(s, l) == pc' = [pc EXCEPT ![s] = l]

(***************************************************************************)
(* handleControl, one goroutine per control connection.                    *)
(***************************************************************************)

\* runControl accepts a connection; its listener is closed before CloseAll.
Accept(s) ==
    /\ srv = "up"
    /\ pc[s] = "idle"
    /\ Goto(s, "handshake")
    /\ UNCHANGED <<mapVars, shown, svc, old, ch, muxVars, reqVars, closedCh,
                   srv, doomed>>

\* Hello read, token found, OK acknowledged and the yamux session made.
HandshakeOK(s, v) ==
    /\ pc[s] = "handshake"
    /\ Goto(s, "mark")
    /\ svc' = [svc EXCEPT ![s] = v]
    /\ UNCHANGED <<mapVars, shown, old, ch, muxVars, reqVars, closedCh, srv,
                   doomed>>

\* Any of the early returns before Register: bad hello, token or name, a
\* failed write, the 10 s deadline.
HandshakeFail(s) ==
    /\ pc[s] = "handshake"
    /\ Goto(s, "done")
    /\ UNCHANGED <<mapVars, shown, svc, old, ch, muxVars, reqVars, closedCh,
                   srv, doomed>>

\* Register, before the mutex: Stats.MarkConnected.
MarkConnected(s) ==
    /\ pc[s] = "mark"
    /\ shown' = [shown EXCEPT ![svc[s]] = s]
    /\ Goto(s, "insert")
    /\ UNCHANGED <<mapVars, svc, old, ch, muxVars, reqVars, closedCh, srv,
                   doomed>>

\* The `old` Register remembers.
\* Slip (NoOrphanSession): it is read after the slot was overwritten.
DisplacedForgotten(s) == None
Displaced(s) == sessions[svc[s]]

\* The notifier channel Register remembers.
\* Slip (NoLostWakeup): it is read after the map was cleared.
ChannelForgotten(s) == None
Notifier(s) == notifiers[svc[s]]

\* Slip (NoDoubleClose): the channel stays in the map.
KeptChannels(s) == notifiers
WithoutChannel(s) == [notifiers EXCEPT ![svc[s]] = None]

\* Register, under the mutex: take the slot, remember what was in it.
Insert(s) ==
    /\ pc[s] = "insert"
    /\ old' = [old EXCEPT ![s] = Displaced(s)]
    /\ sessions' = [sessions EXCEPT ![svc[s]] = s]
    /\ seen' = seen \cup {svc[s]}
    /\ age' = [age EXCEPT ![svc[s]] = 0]
    /\ ch' = [ch EXCEPT ![s] = Notifier(s)]
    /\ notifiers' = WithoutChannel(s)
    /\ Goto(s, "evict")
    /\ UNCHANGED <<shown, svc, muxVars, reqVars, closedCh, srv, doomed>>

\* Register, after the mutex: close the session that was displaced.
Evict(s) ==
    /\ pc[s] = "evict"
    /\ dead' = dead \cup ({old[s]} \ {None})
    /\ closed' = closed \cup ({old[s]} \ {None})
    /\ old' = [old EXCEPT ![s] = None]
    /\ Goto(s, "wake")
    /\ UNCHANGED <<mapVars, shown, svc, ch, reqVars, closedCh, srv, doomed>>

\* Register's last statement closes the notifier channel; handleControl then
\* starts watch and blocks on Closed().
Wake(s) ==
    /\ pc[s] = "wake"
    /\ closedCh' = closedCh \cup ({ch[s]} \ {None})
    /\ ch' = [ch EXCEPT ![s] = None]
    /\ Goto(s, "serve")
    /\ UNCHANGED <<mapVars, shown, svc, old, muxVars, reqVars, srv, doomed>>

\* Slips (NeverDroppedAlive, NoZombieEntry): the identity test is dropped, or
\* never succeeds.
AlwaysCurrent(s) == TRUE
NeverCurrent(s) == FALSE
IsCurrent(s) == sessions[svc[s]] = s

\* Unregister: Closed() has fired.  A session that no longer holds its slot
\* leaves the map alone.
Unregister(s) ==
    /\ pc[s] = "serve"
    /\ s \in closed
    /\ \/ /\ IsCurrent(s)
          /\ sessions' = [sessions EXCEPT ![svc[s]] = None]
          /\ seen' = seen \cup {svc[s]}
          /\ age' = [age EXCEPT ![svc[s]] = 0]
          /\ Goto(s, "unmark")
       \/ /\ ~IsCurrent(s)
          /\ Goto(s, "done")
          /\ UNCHANGED <<sessions, seen, age>>
    /\ UNCHANGED <<notifiers, shown, svc, old, ch, muxVars, reqVars, closedCh,
                   srv, doomed>>

\* Slip (NoGhostService): Stats is not told.
MarkDisconnectedSkipped(s) ==
    /\ pc[s] = "unmark"
    /\ Goto(s, "done")
    /\ UNCHANGED <<mapVars, shown, svc, old, ch, muxVars, reqVars, closedCh, srv,
                   doomed>>

\* Unregister, after the mutex: Stats.MarkDisconnected.
MarkDisconnected(s) ==
    /\ pc[s] = "unmark"
    /\ shown' = [shown EXCEPT ![svc[s]] = None]
    /\ Goto(s, "done")
    /\ UNCHANGED <<mapVars, svc, old, ch, muxVars, reqVars, closedCh, srv,
                   doomed>>

(***************************************************************************)
(* The yamux connection and Session.watch.                                 *)
(***************************************************************************)

\* The connection breaks, the client leaves, or a keepalive is not answered.
\* Only a connection whose handshake succeeded (svc set) has a yamux session.
MuxDies(s) ==
    /\ svc[s] # None
    /\ s \notin dead
    /\ dead' = dead \cup {s}
    /\ UNCHANGED <<mapVars, shown, connVars, closed, reqVars, closedCh, srv,
                   doomed>>

\* Slip (DeadSessionLeaves): nobody watches the connection.
Unwatched(s) == FALSE
Watched(s) == pc[s] = "serve"

\* Session.watch, started once Register has returned.
WatchFires(s) ==
    /\ Watched(s)
    /\ s \in dead
    /\ s \notin closed
    /\ closed' = closed \cup {s}
    /\ UNCHANGED <<mapVars, shown, connVars, dead, reqVars, closedCh, srv,
                   doomed>>

(***************************************************************************)
(* Registry.Lookup and what publicHandler does with its answer.            *)
(***************************************************************************)

RGoto(r, l) == rpc' = [rpc EXCEPT ![r] = l]

\* Slip (ImplementsSlot): lastSeen is looked at before the session.
EmptyOrOld(v) == sessions[v] = None \/ age[v] > Grace
Empty(v) == sessions[v] = None

InWindow(v) == v \in seen /\ age[v] <= Grace

Remaining(v) == Grace - age[v]

LookupHit(r, v) ==
    /\ rpc[r] = "idle"
    /\ ~Empty(v)
    /\ want' = [want EXCEPT ![r] = v]
    /\ got' = [got EXCEPT ![r] = sessions[v]]
    /\ RGoto(r, "dial")
    /\ UNCHANGED <<mapVars, shown, connVars, muxVars, waitOn, timer, closedCh,
                   srv, doomed>>

\* Never seen, or last seen longer than the grace window ago.
LookupMiss(r, v) ==
    /\ rpc[r] = "idle"
    /\ Empty(v)
    /\ ~InWindow(v)
    /\ want' = [want EXCEPT ![r] = v]
    /\ RGoto(r, "bad")
    /\ UNCHANGED <<mapVars, shown, connVars, muxVars, waitOn, timer, got,
                   closedCh, srv, doomed>>

Channel(r, v) == IF notifiers[v] = None THEN r ELSE notifiers[v]

\* Inside the window: join the service's channel, or make one and leave it in
\* the map even when `remaining` turns out to be 0 and the lookup fails.
LookupWait(r, v) ==
    /\ rpc[r] = "idle"
    /\ Empty(v)
    /\ InWindow(v)
    /\ want' = [want EXCEPT ![r] = v]
    /\ notifiers' = [notifiers EXCEPT ![v] = Channel(r, v)]
    /\ \/ /\ Remaining(v) > 0
          /\ waitOn' = [waitOn EXCEPT ![r] = Channel(r, v)]
          /\ timer' = [timer EXCEPT ![r] = Remaining(v)]
          /\ RGoto(r, "wait")
       \/ /\ Remaining(v) = 0
          /\ RGoto(r, "bad")
          /\ UNCHANGED <<waitOn, timer>>
    /\ UNCHANGED <<sessions, seen, age, shown, connVars, muxVars, got, closedCh,
                   srv, doomed>>

\* Lookup returns: its timer is stopped and its channel forgotten.
StopWaiting(r) ==
    /\ waitOn' = [waitOn EXCEPT ![r] = None]
    /\ timer' = [timer EXCEPT ![r] = 0]

\* The channel is closed; the slot is read again, at whatever later moment the
\* mutex is free, and may be empty again by then.
Woken(r) ==
    /\ rpc[r] = "wait"
    /\ waitOn[r] \in closedCh
    /\ got' = [got EXCEPT ![r] = sessions[want[r]]]
    /\ RGoto(r, IF sessions[want[r]] = None THEN "bad" ELSE "dial")
    /\ StopWaiting(r)
    /\ UNCHANGED <<mapVars, shown, connVars, muxVars, want, closedCh, srv, doomed>>

\* Slip (LookupReturns): select has no timer case.
NeverExpires(r) == FALSE
Expired(r) == timer[r] = 0

\* `select` takes the timer even when the channel is ready too.
TimerFires(r) ==
    /\ rpc[r] = "wait"
    /\ Expired(r)
    /\ RGoto(r, "bad")
    /\ StopWaiting(r)
    /\ UNCHANGED <<mapVars, shown, connVars, muxVars, want, got, closedCh, srv, doomed>>

\* ctx is done: the caller of the public endpoint left.
Cancel(r) ==
    /\ rpc[r] = "wait"
    /\ RGoto(r, "gone")
    /\ StopWaiting(r)
    /\ UNCHANGED <<mapVars, shown, connVars, muxVars, want, got, closedCh, srv, doomed>>

\* OpenStream: forwarded, or 502 when the session has died since the lookup
\* (or had died before it).
Dial(r) ==
    /\ rpc[r] = "dial"
    /\ RGoto(r, IF got[r] \in dead THEN "bad" ELSE "fwd")
    /\ UNCHANGED <<mapVars, shown, connVars, muxVars, want, waitOn, timer, got,
                   closedCh, srv, doomed>>

(***************************************************************************)
(* Shutdown, and time.                                                     *)
(***************************************************************************)

\* shutdown has closed every listener; CloseAll copies and replaces the map.
CloseAll ==
    /\ srv = "up"
    /\ srv' = "closed"
    /\ doomed' = {sessions[v] : v \in Service} \ {None}
    /\ sessions' = [v \in Service |-> None]
    /\ UNCHANGED <<notifiers, seen, age, shown, connVars, muxVars, reqVars,
                   closedCh>>

\* One turn of CloseAll's last loop.
CloseDoomed(s) ==
    /\ s \in doomed
    /\ doomed' = doomed \ {s}
    /\ dead' = dead \cup {s}
    /\ closed' = closed \cup {s}
    /\ UNCHANGED <<mapVars, shown, connVars, reqVars, closedCh, srv>>

Running(r) == rpc[r] = "wait" /\ timer[r] > 0

Tick ==
    /\ \/ \E v \in Service : InWindow(v)
       \/ \E r \in Request : Running(r)
    /\ age' = [v \in Service |-> IF InWindow(v) THEN age[v] + 1 ELSE age[v]]
    /\ timer' = [r \in Request |-> IF Running(r) THEN timer[r] - 1 ELSE timer[r]]
    /\ UNCHANGED <<sessions, notifiers, seen, shown, connVars, muxVars, rpc,
                   want, waitOn, got, closedCh, srv, doomed>>

-------------------------------------------------------------------------------

Handshake(s) == HandshakeFail(s) \/ \E v \in Service : HandshakeOK(s, v)

\* The steps of handleControl once the handshake is over.
Handler(s) ==
    \/ MarkConnected(s) \/ Insert(s) \/ Evict(s) \/ Wake(s)
    \/ Unregister(s) \/ MarkDisconnected(s)

Lookup(r) == \E v \in Service : LookupHit(r, v) \/ LookupMiss(r, v) \/ LookupWait(r, v)

Next ==
    \/ \E s \in Session : \/ Accept(s) \/ Handshake(s) \/ Handler(s)
                          \/ MuxDies(s) \/ WatchFires(s) \/ CloseDoomed(s)
    \/ \E r \in Request : \/ Lookup(r) \/ Woken(r) \/ TimerFires(r)
                          \/ Cancel(r) \/ Dial(r)
    \/ CloseAll \/ Tick

Spec == Init /\ [][Next]_vars

\* The scheduler runs every goroutine that can run, the handshake deadline and
\* the timers expire, and time passes.  Nothing is assumed of clients, callers
\* or the network, nor that anybody shuts the server down.
Fairness ==
    /\ \A s \in Session : /\ WF_vars(Handshake(s))
                          /\ WF_vars(Handler(s))
                          /\ WF_vars(WatchFires(s))
                          /\ WF_vars(CloseDoomed(s))
    /\ \A r \in Request : /\ WF_vars(Woken(r) \/ TimerFires(r))
                          /\ WF_vars(Dial(r))
    /\ WF_vars(Tick)

FairSpec == Spec /\ Fairness

-------------------------------------------------------------------------------
(***************************************************************************)
(* Safety.                                                                 *)
(***************************************************************************)

\* Sessions Register has put in the map and their handler has not given up.
Inserted(s) == pc[s] \in {"evict", "wake", "serve"}

\* The map never holds a session of another service, or one whose handler is
\* gone and would never unregister it (Register against Unregister's "still the
\* current one" test).
NoZombieEntry ==
    \A v \in Service : sessions[v] # None =>
        svc[sessions[v]] = v /\ Inserted(sessions[v])

\* A registered session that no longer holds its slot is closed, or somebody
\* still in Register or CloseAll is about to close it: no client stays
\* connected that no request can reach.
NoOrphanSession ==
    \A s \in Session : Inserted(s) =>
        \/ sessions[svc[s]] = s
        \/ s \in closed \cup doomed
        \/ \E n \in Session : pc[n] = "evict" /\ old[n] = s

\* The handler holding channel c has yet to close it.
Holds(n, c) == pc[n] \in {"evict", "wake"} /\ ch[n] = c

\* A lookup blocks only on a channel that the next Register of its service will
\* close, or that one is on its way to closing: Register moves the channel out
\* of the map and fills the slot in one critical section, so no lookup can join
\* a channel after its only wake-up has been taken.
NoLostWakeup ==
    \A r \in Request : rpc[r] = "wait" /\ waitOn[r] \notin closedCh =>
        \/ sessions[want[r]] = None /\ notifiers[want[r]] = waitOn[r]
        \/ \E n \in Session : Holds(n, waitOn[r]) /\ svc[n] = want[r]

\* No channel is closed twice (which panics): a channel still in the map or
\* held by a Register is open, and two Registers never hold the same one.
NoDoubleClose ==
    /\ \A v \in Service : notifiers[v] \notin closedCh
    /\ \A n \in Session : ch[n] \notin closedCh
    /\ \A m, n \in Session : \A c \in Request :
           Holds(m, c) /\ Holds(n, c) => m = n

\* While the server runs, the dashboard shows a service connected only if a
\* session holds its slot, or a handler is between the map and Stats.  (Only
\* this direction holds: see ShownIsCurrent.)
NoGhostService ==
    \A v \in Service : srv = "up" /\ shown[v] # None =>
        \/ sessions[v] # None
        \/ \E s \in Session : svc[s] = v /\ pc[s] \in {"insert", "unmark"}

\* The next step takes a session's slot for a newer Register, or for the
\* session's own handler after it was closed.
TakenFairly ==
    \A v \in Service : sessions[v] # None /\ sessions'[v] # sessions[v] =>
        \/ /\ sessions'[v] = None
           /\ sessions[v] \in closed
           /\ pc'[sessions[v]] = "unmark"
        \/ \E s \in Session : /\ sessions'[v] = s
                               /\ pc[s] = "insert"
                               /\ old'[s] = sessions[v]

\* While the server runs a session loses its slot in those two ways only: a
\* stale Unregister takes nothing from its successor.
NeverDroppedAlive == [][srv' = srv => TakenFairly]_vars

(***************************************************************************)
(* Liveness, under FairSpec.                                               *)
(***************************************************************************)

\* Every lookup that blocks is answered: by Register's close or by its timer.
LookupReturns == \A r \in Request : rpc[r] = "wait" ~> rpc[r] \notin {"wait", "dial"}

\* A session whose connection died, or that was displaced or closed by
\* CloseAll, leaves: its handler unregisters and ends.
DeadSessionLeaves ==
    \A s \in Session : Inserted(s) /\ (s \in dead \/ sessions[svc[s]] # s)
                          ~> pc[s] = "done"

(***************************************************************************)
(* What the documentation says and the code does not do.                   *)
(***************************************************************************)

\* No handler of v is between a change of the map and the matching Stats call.
Settled(v) ==
    \A s \in Session : svc[s] = v => pc[s] \notin {"mark", "insert", "evict",
                                                   "wake", "unmark"}

\* stats.go:15-17: Stats outlives sessions "with Connected toggled", so that a
\* service is shown connected just while a session holds its slot.  Stats is
\* toggled outside Registry.mu, and the last call need not match the map.
ShownIsCurrent ==
    srv = "up" =>
        \A v \in Service : Settled(v) => (shown[v] # None <=> sessions[v] # None)

(***************************************************************************)
(* What the registry promises, whatever its internal steps: see            *)
(* ServiceSlot.                                                            *)
(***************************************************************************)

\* s has been through Register; "done" without a service is a failed handshake.
HasOwned(s) == svc[s] # None /\ pc[s] \notin {"mark", "insert"}

Past == {s \in Session : HasOwned(s) /\ \A v \in Service : sessions[v] # s}

Answer(r) ==
    IF rpc[r] = "idle" THEN "none"
    ELSE IF rpc[r] = "wait" THEN "held"
    ELSE IF got[r] # None THEN "hit" ELSE "miss"

Slot == INSTANCE ServiceSlot WITH
    owner  <- sessions,
    past   <- Past,
    answer <- [r \in Request |-> Answer(r)],
    target <- got,
    of     <- want

\* Registry, steps and all, behaves as a table with atomic lookups.
ImplementsSlot == Slot!Spec
===============================================================================
