---------------------------- MODULE RegistryProofs ----------------------------
(***************************************************************************)
(* The safety properties of Registry, for any sets of services, sessions   *)
(* and requests and any grace window.                                      *)
(*                                                                         *)
(* None of the properties is inductive alone: which locals a handler still *)
(* holds (Locals) and who may know a notifier channel (Channels) are what  *)
(* the steps preserve together with them.                                  *)
(***************************************************************************)
EXTENDS Registry, TLAPS

Before == {"idle", "handshake"}

\* A handler has a service from the end of its handshake on, and the locals of
\* its Register call only while that call needs them; CloseAll has nothing to
\* close before it runs.
Locals ==
    /\ \A s \in Session :
        /\ pc[s] \in Before => svc[s] = None
        /\ pc[s] \notin Before \cup {"done"} => svc[s] \in Service
        /\ pc[s] # "evict" => old[s] = None
        /\ pc[s] \notin {"evict", "wake"} => ch[s] = None
    /\ srv = "up" => doomed = {}

\* A request that has asked has a service, one that blocks has a channel, and
\* none has a session before it is answered.
Askers ==
    \A r \in Request :
        /\ rpc[r] # "idle" => want[r] \in Service
        /\ rpc[r] = "wait" => waitOn[r] \in Request
        /\ rpc[r] \in {"idle", "wait"} => got[r] = None

\* A channel serves one service, the one its maker asked for; it is in the map
\* only while the slot is empty, and then nobody holds it.
MadeFor(c, v) == rpc[c] # "idle" /\ want[c] = v

Channels ==
    /\ \A v \in Service : notifiers[v] # None =>
          MadeFor(notifiers[v], v) /\ sessions[v] = None
    /\ \A n \in Session : ch[n] # None =>
          /\ MadeFor(ch[n], svc[n])
          /\ \A v \in Service : notifiers[v] # ch[n]
    /\ \A c \in closedCh : rpc[c] # "idle"

IInv ==
    /\ TypeOK
    /\ Locals
    /\ Askers
    /\ NoZombieEntry
    /\ NoOrphanSession
    /\ Channels
    /\ NoDoubleClose
    /\ NoLostWakeup
    /\ NoGhostService

USE GraceAssumption, NoneAssumption
USE DEF Notifier, WithoutChannel, Goto, RGoto, StopWaiting, mapVars, connVars, muxVars, reqVars

-------------------------------------------------------------------------------
\* The initial state satisfies the invariant.
LEMMA InitIInv == Init => IInv
  BY DEF Init, IInv, TypeOK, Locals, Askers, NoZombieEntry, NoOrphanSession,
         Inserted, Channels, MadeFor, NoDoubleClose, Holds, NoLostWakeup,
         NoGhostService, Before

\* Every step keeps the variables in their types.
LEMMA TypeStep == TypeOK /\ Locals /\ Askers /\ [Next]_vars => TypeOK'
  <1> SUFFICES ASSUME TypeOK, Locals, Askers, [Next]_vars  PROVE TypeOK'
    OBVIOUS
  <1> USE DEF TypeOK, Locals, Askers, Before
  <1>1. ASSUME NEW s \in Session, Accept(s) \/ Handshake(s)  PROVE TypeOK'
    BY <1>1 DEF Accept, Handshake, HandshakeOK, HandshakeFail
  <1>2. ASSUME NEW s \in Session, MarkConnected(s)  PROVE TypeOK'
    BY <1>2 DEF MarkConnected
  <1>3. ASSUME NEW s \in Session, Insert(s)  PROVE TypeOK'
    BY <1>3 DEF Insert, Displaced
  <1>4. ASSUME NEW s \in Session, Evict(s)  PROVE TypeOK'
    BY <1>4 DEF Evict
  <1>5. ASSUME NEW s \in Session, Wake(s)  PROVE TypeOK'
    BY <1>5 DEF Wake
  <1>6. ASSUME NEW s \in Session, Unregister(s)  PROVE TypeOK'
    BY <1>6 DEF Unregister
  <1>7. ASSUME NEW s \in Session, MarkDisconnected(s)  PROVE TypeOK'
    BY <1>7 DEF MarkDisconnected
  <1>8. ASSUME NEW s \in Session, MuxDies(s) \/ WatchFires(s) \/ CloseDoomed(s)
        PROVE TypeOK'
    BY <1>8 DEF MuxDies, WatchFires, CloseDoomed
  <1>9. ASSUME NEW r \in Request, Lookup(r)  PROVE TypeOK'
    BY <1>9 DEF Lookup, LookupHit, LookupMiss, LookupWait, Empty, InWindow,
               Remaining, Channel
  <1>10. ASSUME NEW r \in Request, Woken(r) \/ TimerFires(r) \/ Cancel(r) \/ Dial(r)
         PROVE TypeOK'
    BY <1>10 DEF Woken, TimerFires, Cancel, Dial
  <1>11. CASE CloseAll
    BY <1>11 DEF CloseAll
  <1>12. CASE Tick
    BY <1>12 DEF Tick, InWindow, Running
  <1>13. CASE UNCHANGED vars
    BY <1>13 DEF vars
  <1> QED
    BY <1>1, <1>2, <1>3, <1>4, <1>5, <1>6, <1>7, <1>8, <1>9, <1>10, <1>11, <1>12,
       <1>13 DEF Next, Handler

\* Every step keeps the handlers' locals in their shape.
LEMMA LocalsStep == TypeOK /\ Locals /\ [Next]_vars => Locals'
  <1> SUFFICES ASSUME TypeOK, Locals, [Next]_vars  PROVE Locals'
    OBVIOUS
  <1> USE DEF TypeOK, Locals, Before
  <1>1. ASSUME NEW s \in Session, Accept(s) \/ Handshake(s)  PROVE Locals'
    BY <1>1 DEF Accept, Handshake, HandshakeOK, HandshakeFail
  <1>2. ASSUME NEW s \in Session, MarkConnected(s)  PROVE Locals'
    BY <1>2 DEF MarkConnected
  <1>3. ASSUME NEW s \in Session, Insert(s)  PROVE Locals'
    BY <1>3 DEF Insert, Displaced
  <1>4. ASSUME NEW s \in Session, Evict(s)  PROVE Locals'
    BY <1>4 DEF Evict
  <1>5. ASSUME NEW s \in Session, Wake(s)  PROVE Locals'
    BY <1>5 DEF Wake
  <1>6. ASSUME NEW s \in Session, Unregister(s)  PROVE Locals'
    BY <1>6 DEF Unregister, IsCurrent
  <1>7. ASSUME NEW s \in Session, MarkDisconnected(s)  PROVE Locals'
    BY <1>7 DEF MarkDisconnected
  <1>8. ASSUME NEW s \in Session, MuxDies(s) \/ WatchFires(s) \/ CloseDoomed(s)
        PROVE  Locals'
    BY <1>8 DEF MuxDies, WatchFires, CloseDoomed
  <1>9. ASSUME NEW r \in Request, Lookup(r)  PROVE Locals'
    BY <1>9 DEF Lookup, LookupHit, LookupMiss, LookupWait,
               Empty, Channel
  <1>10. ASSUME NEW r \in Request, Woken(r) \/ TimerFires(r) \/ Cancel(r) \/ Dial(r)
         PROVE  Locals'
    BY <1>10 DEF Woken, TimerFires, Cancel, Dial
  <1>11. CASE CloseAll
    BY <1>11 DEF CloseAll
  <1>12. CASE Tick
    BY <1>12 DEF Tick
  <1>13. CASE UNCHANGED vars
    BY <1>13 DEF vars
  <1> QED
    BY <1>1, <1>2, <1>3, <1>4, <1>5, <1>6, <1>7, <1>8, <1>9,
       <1>10, <1>11, <1>12, <1>13 DEF Next, Handler

\* Every step keeps the requests in theirs.
LEMMA AskersStep == TypeOK /\ Askers /\ [Next]_vars => Askers'
  <1> SUFFICES ASSUME TypeOK, Askers, [Next]_vars  PROVE Askers'
    OBVIOUS
  <1> USE DEF TypeOK, Askers
  <1>1. ASSUME NEW s \in Session, Accept(s) \/ Handshake(s)  PROVE Askers'
    BY <1>1 DEF Accept, Handshake, HandshakeOK, HandshakeFail
  <1>2. ASSUME NEW s \in Session, MarkConnected(s)  PROVE Askers'
    BY <1>2 DEF MarkConnected
  <1>3. ASSUME NEW s \in Session, Insert(s)  PROVE Askers'
    BY <1>3 DEF Insert, Displaced
  <1>4. ASSUME NEW s \in Session, Evict(s)  PROVE Askers'
    BY <1>4 DEF Evict
  <1>5. ASSUME NEW s \in Session, Wake(s)  PROVE Askers'
    BY <1>5 DEF Wake
  <1>6. ASSUME NEW s \in Session, Unregister(s)  PROVE Askers'
    BY <1>6 DEF Unregister, IsCurrent
  <1>7. ASSUME NEW s \in Session, MarkDisconnected(s)  PROVE Askers'
    BY <1>7 DEF MarkDisconnected
  <1>8. ASSUME NEW s \in Session, MuxDies(s) \/ WatchFires(s) \/ CloseDoomed(s)
        PROVE  Askers'
    BY <1>8 DEF MuxDies, WatchFires, CloseDoomed
  <1>9. ASSUME NEW r \in Request, Lookup(r)  PROVE Askers'
    BY <1>9 DEF Lookup, LookupHit, LookupMiss, LookupWait,
               Empty, Channel
  <1>10. ASSUME NEW r \in Request, Woken(r) \/ TimerFires(r) \/ Cancel(r) \/ Dial(r)
         PROVE  Askers'
    BY <1>10 DEF Woken, TimerFires, Cancel, Dial
  <1>11. CASE CloseAll
    BY <1>11 DEF CloseAll
  <1>12. CASE Tick
    BY <1>12 DEF Tick
  <1>13. CASE UNCHANGED vars
    BY <1>13 DEF vars
  <1> QED
    BY <1>1, <1>2, <1>3, <1>4, <1>5, <1>6, <1>7, <1>8, <1>9,
       <1>10, <1>11, <1>12, <1>13 DEF Next, Handler

\* Only Insert puts a session in the map, and a handler leaves Inserted only by
\* Unregister, which takes its own session out.
LEMMA NoZombieStep == TypeOK /\ Locals /\ NoZombieEntry /\ [Next]_vars => NoZombieEntry'
  <1> SUFFICES ASSUME TypeOK, Locals, NoZombieEntry, [Next]_vars  PROVE NoZombieEntry'
    OBVIOUS
  <1> USE DEF TypeOK, Locals, Before, NoZombieEntry, Inserted
  <1>1. ASSUME NEW s \in Session, Accept(s) \/ Handshake(s)  PROVE NoZombieEntry'
    BY <1>1 DEF Accept, Handshake, HandshakeOK, HandshakeFail
  <1>2. ASSUME NEW s \in Session, MarkConnected(s)  PROVE NoZombieEntry'
    BY <1>2 DEF MarkConnected
  <1>3. ASSUME NEW s \in Session, Insert(s)  PROVE NoZombieEntry'
    BY <1>3 DEF Insert, Displaced
  <1>4. ASSUME NEW s \in Session, Evict(s)  PROVE NoZombieEntry'
    BY <1>4 DEF Evict
  <1>5. ASSUME NEW s \in Session, Wake(s)  PROVE NoZombieEntry'
    BY <1>5 DEF Wake
  <1>6. ASSUME NEW s \in Session, Unregister(s)  PROVE NoZombieEntry'
    BY <1>6 DEF Unregister, IsCurrent
  <1>7. ASSUME NEW s \in Session, MarkDisconnected(s)  PROVE NoZombieEntry'
    BY <1>7 DEF MarkDisconnected
  <1>8. ASSUME NEW s \in Session, MuxDies(s) \/ WatchFires(s) \/ CloseDoomed(s)
        PROVE  NoZombieEntry'
    BY <1>8 DEF MuxDies, WatchFires, CloseDoomed
  <1>9. ASSUME NEW r \in Request, Lookup(r)  PROVE NoZombieEntry'
    BY <1>9 DEF Lookup, LookupHit, LookupMiss, LookupWait,
               Empty, Channel
  <1>10. ASSUME NEW r \in Request, Woken(r) \/ TimerFires(r) \/ Cancel(r) \/ Dial(r)
         PROVE  NoZombieEntry'
    BY <1>10 DEF Woken, TimerFires, Cancel, Dial
  <1>11. CASE CloseAll
    BY <1>11 DEF CloseAll
  <1>12. CASE Tick
    BY <1>12 DEF Tick
  <1>13. CASE UNCHANGED vars
    BY <1>13 DEF vars
  <1> QED
    BY <1>1, <1>2, <1>3, <1>4, <1>5, <1>6, <1>7, <1>8, <1>9,
       <1>10, <1>11, <1>12, <1>13 DEF Next, Handler

\* Insert displaces at most one session and remembers it in `old`; CloseAll
\* remembers all of them in `doomed`.
LEMMA NoOrphanStep ==
    TypeOK /\ Locals /\ NoZombieEntry /\ NoOrphanSession /\ [Next]_vars => NoOrphanSession'
  <1> SUFFICES ASSUME TypeOK, Locals, NoZombieEntry, NoOrphanSession, [Next]_vars
               PROVE  NoOrphanSession'
    OBVIOUS
  <1> USE DEF TypeOK, Locals, Before, NoZombieEntry, NoOrphanSession, Inserted
  <1>1. ASSUME NEW s \in Session, Accept(s) \/ Handshake(s)  PROVE NoOrphanSession'
    BY <1>1 DEF Accept, Handshake, HandshakeOK, HandshakeFail
  <1>2. ASSUME NEW s \in Session, MarkConnected(s)  PROVE NoOrphanSession'
    BY <1>2 DEF MarkConnected
  <1>3. ASSUME NEW s \in Session, Insert(s)  PROVE NoOrphanSession'
    BY <1>3 DEF Insert, Displaced
  <1>4. ASSUME NEW s \in Session, Evict(s)  PROVE NoOrphanSession'
    BY <1>4 DEF Evict
  <1>5. ASSUME NEW s \in Session, Wake(s)  PROVE NoOrphanSession'
    BY <1>5 DEF Wake
  <1>6. ASSUME NEW s \in Session, Unregister(s)  PROVE NoOrphanSession'
    BY <1>6 DEF Unregister, IsCurrent
  <1>7. ASSUME NEW s \in Session, MarkDisconnected(s)  PROVE NoOrphanSession'
    BY <1>7 DEF MarkDisconnected
  <1>8. ASSUME NEW s \in Session, MuxDies(s) \/ WatchFires(s) \/ CloseDoomed(s)
        PROVE  NoOrphanSession'
    BY <1>8 DEF MuxDies, WatchFires, CloseDoomed
  <1>9. ASSUME NEW r \in Request, Lookup(r)  PROVE NoOrphanSession'
    BY <1>9 DEF Lookup, LookupHit, LookupMiss, LookupWait,
               Empty, Channel
  <1>10. ASSUME NEW r \in Request, Woken(r) \/ TimerFires(r) \/ Cancel(r) \/ Dial(r)
         PROVE  NoOrphanSession'
    BY <1>10 DEF Woken, TimerFires, Cancel, Dial
  <1>11. CASE CloseAll
    <2>1. \A s \in Session : Inserted(s) /\ sessions[svc[s]] = s => s \in doomed'
      BY <1>11 DEF CloseAll
    <2> QED
      BY <1>11, <2>1 DEF CloseAll
  <1>12. CASE Tick
    BY <1>12 DEF Tick
  <1>13. CASE UNCHANGED vars
    BY <1>13 DEF vars
  <1> QED
    BY <1>1, <1>2, <1>3, <1>4, <1>5, <1>6, <1>7, <1>8, <1>9,
       <1>10, <1>11, <1>12, <1>13 DEF Next, Handler

\* A new channel is known to the map only; Insert moves it from the map to one
\* handler; Wake forgets it.
LEMMA ChannelsStep == TypeOK /\ Locals /\ Askers /\ Channels /\ [Next]_vars => Channels'
  <1> SUFFICES ASSUME TypeOK, Locals, Askers, Channels, [Next]_vars  PROVE Channels'
    OBVIOUS
  <1> USE DEF TypeOK, Locals, Before, Askers, Channels, MadeFor
  <1>1. ASSUME NEW s \in Session, Accept(s) \/ Handshake(s)  PROVE Channels'
    BY <1>1 DEF Accept, Handshake, HandshakeOK, HandshakeFail
  <1>2. ASSUME NEW s \in Session, MarkConnected(s)  PROVE Channels'
    BY <1>2 DEF MarkConnected
  <1>3. ASSUME NEW s \in Session, Insert(s)  PROVE Channels'
    BY <1>3 DEF Insert, Displaced
  <1>4. ASSUME NEW s \in Session, Evict(s)  PROVE Channels'
    BY <1>4 DEF Evict
  <1>5. ASSUME NEW s \in Session, Wake(s)  PROVE Channels'
    BY <1>5 DEF Wake
  <1>6. ASSUME NEW s \in Session, Unregister(s)  PROVE Channels'
    BY <1>6 DEF Unregister, IsCurrent
  <1>7. ASSUME NEW s \in Session, MarkDisconnected(s)  PROVE Channels'
    BY <1>7 DEF MarkDisconnected
  <1>8. ASSUME NEW s \in Session, MuxDies(s) \/ WatchFires(s) \/ CloseDoomed(s)
        PROVE  Channels'
    BY <1>8 DEF MuxDies, WatchFires, CloseDoomed
  <1>9. ASSUME NEW r \in Request, Lookup(r)  PROVE Channels'
    BY <1>9 DEF Lookup, LookupHit, LookupMiss, LookupWait,
               Empty, Channel
  <1>10. ASSUME NEW r \in Request, Woken(r) \/ TimerFires(r) \/ Cancel(r) \/ Dial(r)
         PROVE  Channels'
    BY <1>10 DEF Woken, TimerFires, Cancel, Dial
  <1>11. CASE CloseAll
    BY <1>11 DEF CloseAll
  <1>12. CASE Tick
    BY <1>12 DEF Tick
  <1>13. CASE UNCHANGED vars
    BY <1>13 DEF vars
  <1> QED
    BY <1>1, <1>2, <1>3, <1>4, <1>5, <1>6, <1>7, <1>8, <1>9,
       <1>10, <1>11, <1>12, <1>13 DEF Next, Handler

\* So nobody else holds the channel Wake closes.
LEMMA NoDoubleCloseStep ==
    TypeOK /\ Locals /\ Channels /\ NoDoubleClose /\ [Next]_vars => NoDoubleClose'
  <1> SUFFICES ASSUME TypeOK, Locals, Channels, NoDoubleClose, [Next]_vars
               PROVE  NoDoubleClose'
    OBVIOUS
  <1> USE DEF TypeOK, Locals, Before, Channels, MadeFor, NoDoubleClose, Holds
  <1>1. ASSUME NEW s \in Session, Accept(s) \/ Handshake(s)  PROVE NoDoubleClose'
    BY <1>1 DEF Accept, Handshake, HandshakeOK, HandshakeFail
  <1>2. ASSUME NEW s \in Session, MarkConnected(s)  PROVE NoDoubleClose'
    BY <1>2 DEF MarkConnected
  <1>3. ASSUME NEW s \in Session, Insert(s)  PROVE NoDoubleClose'
    BY <1>3 DEF Insert, Displaced
  <1>4. ASSUME NEW s \in Session, Evict(s)  PROVE NoDoubleClose'
    BY <1>4 DEF Evict
  <1>5. ASSUME NEW s \in Session, Wake(s)  PROVE NoDoubleClose'
    BY <1>5 DEF Wake
  <1>6. ASSUME NEW s \in Session, Unregister(s)  PROVE NoDoubleClose'
    BY <1>6 DEF Unregister, IsCurrent
  <1>7. ASSUME NEW s \in Session, MarkDisconnected(s)  PROVE NoDoubleClose'
    BY <1>7 DEF MarkDisconnected
  <1>8. ASSUME NEW s \in Session, MuxDies(s) \/ WatchFires(s) \/ CloseDoomed(s)
        PROVE  NoDoubleClose'
    BY <1>8 DEF MuxDies, WatchFires, CloseDoomed
  <1>9. ASSUME NEW r \in Request, Lookup(r)  PROVE NoDoubleClose'
    BY <1>9 DEF Lookup, LookupHit, LookupMiss, LookupWait,
               Empty, Channel
  <1>10. ASSUME NEW r \in Request, Woken(r) \/ TimerFires(r) \/ Cancel(r) \/ Dial(r)
         PROVE  NoDoubleClose'
    BY <1>10 DEF Woken, TimerFires, Cancel, Dial
  <1>11. CASE CloseAll
    BY <1>11 DEF CloseAll
  <1>12. CASE Tick
    BY <1>12 DEF Tick
  <1>13. CASE UNCHANGED vars
    BY <1>13 DEF vars
  <1> QED
    BY <1>1, <1>2, <1>3, <1>4, <1>5, <1>6, <1>7, <1>8, <1>9,
       <1>10, <1>11, <1>12, <1>13 DEF Next, Handler

\* The step that fills the slot takes its waiters' channel along.
LEMMA NoLostWakeupStep ==
    TypeOK /\ Locals /\ Askers /\ Channels /\ NoLostWakeup /\ [Next]_vars => NoLostWakeup'
  <1> SUFFICES ASSUME TypeOK, Locals, Askers, Channels, NoLostWakeup, [Next]_vars
               PROVE  NoLostWakeup'
    OBVIOUS
  <1> USE DEF TypeOK, Locals, Before, Askers, NoLostWakeup, Holds
  <1>1. ASSUME NEW s \in Session, Accept(s) \/ Handshake(s)  PROVE NoLostWakeup'
    BY <1>1 DEF Accept, Handshake, HandshakeOK, HandshakeFail
  <1>2. ASSUME NEW s \in Session, MarkConnected(s)  PROVE NoLostWakeup'
    BY <1>2 DEF MarkConnected
  <1>3. ASSUME NEW s \in Session, Insert(s)  PROVE NoLostWakeup'
    BY <1>3 DEF Insert, Displaced
  <1>4. ASSUME NEW s \in Session, Evict(s)  PROVE NoLostWakeup'
    BY <1>4 DEF Evict
  <1>5. ASSUME NEW s \in Session, Wake(s)  PROVE NoLostWakeup'
    BY <1>5 DEF Wake
  <1>6. ASSUME NEW s \in Session, Unregister(s)  PROVE NoLostWakeup'
    BY <1>6 DEF Unregister, IsCurrent
  <1>7. ASSUME NEW s \in Session, MarkDisconnected(s)  PROVE NoLostWakeup'
    BY <1>7 DEF MarkDisconnected
  <1>8. ASSUME NEW s \in Session, MuxDies(s) \/ WatchFires(s) \/ CloseDoomed(s)
        PROVE  NoLostWakeup'
    BY <1>8 DEF MuxDies, WatchFires, CloseDoomed
  <1>9. ASSUME NEW r \in Request, Lookup(r)  PROVE NoLostWakeup'
    BY <1>9 DEF Lookup, LookupHit, LookupMiss, LookupWait,
               Empty, Channel
  <1>10. ASSUME NEW r \in Request, Woken(r) \/ TimerFires(r) \/ Cancel(r) \/ Dial(r)
         PROVE  NoLostWakeup'
    BY <1>10 DEF Woken, TimerFires, Cancel, Dial
  <1>11. CASE CloseAll
    BY <1>11 DEF CloseAll
  <1>12. CASE Tick
    BY <1>12 DEF Tick
  <1>13. CASE UNCHANGED vars
    BY <1>13 DEF vars
  <1> QED
    BY <1>1, <1>2, <1>3, <1>4, <1>5, <1>6, <1>7, <1>8, <1>9,
       <1>10, <1>11, <1>12, <1>13 DEF Next, Handler

\* MarkConnected comes before Insert and MarkDisconnected after Unregister.
LEMMA NoGhostStep == TypeOK /\ Locals /\ NoGhostService /\ [Next]_vars => NoGhostService'
  <1> SUFFICES ASSUME TypeOK, Locals, NoGhostService, [Next]_vars  PROVE NoGhostService'
    OBVIOUS
  <1> USE DEF TypeOK, Locals, Before, NoGhostService
  <1>1. ASSUME NEW s \in Session, Accept(s) \/ Handshake(s)  PROVE NoGhostService'
    BY <1>1 DEF Accept, Handshake, HandshakeOK, HandshakeFail
  <1>2. ASSUME NEW s \in Session, MarkConnected(s)  PROVE NoGhostService'
    BY <1>2 DEF MarkConnected
  <1>3. ASSUME NEW s \in Session, Insert(s)  PROVE NoGhostService'
    BY <1>3 DEF Insert, Displaced
  <1>4. ASSUME NEW s \in Session, Evict(s)  PROVE NoGhostService'
    BY <1>4 DEF Evict
  <1>5. ASSUME NEW s \in Session, Wake(s)  PROVE NoGhostService'
    BY <1>5 DEF Wake
  <1>6. ASSUME NEW s \in Session, Unregister(s)  PROVE NoGhostService'
    BY <1>6 DEF Unregister, IsCurrent
  <1>7. ASSUME NEW s \in Session, MarkDisconnected(s)  PROVE NoGhostService'
    BY <1>7 DEF MarkDisconnected
  <1>8. ASSUME NEW s \in Session, MuxDies(s) \/ WatchFires(s) \/ CloseDoomed(s)
        PROVE  NoGhostService'
    BY <1>8 DEF MuxDies, WatchFires, CloseDoomed
  <1>9. ASSUME NEW r \in Request, Lookup(r)  PROVE NoGhostService'
    BY <1>9 DEF Lookup, LookupHit, LookupMiss, LookupWait,
               Empty, Channel
  <1>10. ASSUME NEW r \in Request, Woken(r) \/ TimerFires(r) \/ Cancel(r) \/ Dial(r)
         PROVE  NoGhostService'
    BY <1>10 DEF Woken, TimerFires, Cancel, Dial
  <1>11. CASE CloseAll
    BY <1>11 DEF CloseAll
  <1>12. CASE Tick
    BY <1>12 DEF Tick
  <1>13. CASE UNCHANGED vars
    BY <1>13 DEF vars
  <1> QED
    BY <1>1, <1>2, <1>3, <1>4, <1>5, <1>6, <1>7, <1>8, <1>9,
       <1>10, <1>11, <1>12, <1>13 DEF Next, Handler

LEMMA IInvStep == IInv /\ [Next]_vars => IInv'
  BY TypeStep, LocalsStep, AskersStep, NoZombieStep, NoOrphanStep, ChannelsStep,
     NoDoubleCloseStep, NoLostWakeupStep, NoGhostStep DEF IInv

\* The inductive invariant holds in every state the registry can reach.
THEOREM Invariance == Spec => []IInv
  BY InitIInv, IInvStep, PTL DEF Spec

-------------------------------------------------------------------------------
\* Every variable stays in its type: in particular no timer is started with a
\* negative or too long rest of the grace window (Lookup's `remaining`).
THEOREM TypeCorrect == Spec => []TypeOK
  <1>1. IInv => TypeOK
    BY DEF IInv
  <1> QED
    BY Invariance, <1>1, PTL

\* The map only holds sessions of the right service whose handler will
\* unregister them (Register, Unregister).
THEOREM EntriesAlive == Spec => []NoZombieEntry
  <1>1. IInv => NoZombieEntry
    BY DEF IInv
  <1> QED
    BY Invariance, <1>1, PTL

\* A session that was displaced or cleared from the map is closed or about to
\* be (Register's old.Close, CloseAll's loop).
THEOREM DisplacedClosed == Spec => []NoOrphanSession
  <1>1. IInv => NoOrphanSession
    BY DEF IInv
  <1> QED
    BY Invariance, <1>1, PTL

\* A lookup never blocks on a channel whose wake-up has already gone
\* (Lookup and Register share one critical section each).
THEOREM WakeupsKept == Spec => []NoLostWakeup
  <1>1. IInv => NoLostWakeup
    BY DEF IInv
  <1> QED
    BY Invariance, <1>1, PTL

\* Register never closes a notifier channel twice, which would panic.
THEOREM ClosedOnce == Spec => []NoDoubleClose
  <1>1. IInv => NoDoubleClose
    BY DEF IInv
  <1> QED
    BY Invariance, <1>1, PTL

\* The dashboard shows no service connected that nobody holds or is about to
\* take or release (MarkConnected, MarkDisconnected).
THEOREM NoGhosts == Spec => []NoGhostService
  <1>1. IInv => NoGhostService
    BY DEF IInv
  <1> QED
    BY Invariance, <1>1, PTL

-------------------------------------------------------------------------------
LEMMA TakenFairlyStep == IInv /\ [Next]_vars => [srv' = srv => TakenFairly]_vars
  <1> SUFFICES ASSUME IInv, [Next]_vars, srv' = srv, UNCHANGED vars => FALSE
               PROVE  TakenFairly
    BY DEF vars
  <1> USE DEF IInv, TypeOK, Locals, Before, NoZombieEntry, Inserted, TakenFairly
  <1>1. ASSUME NEW s \in Session, Insert(s)  PROVE TakenFairly
    BY <1>1 DEF Insert, Displaced
  <1>2. ASSUME NEW s \in Session, Unregister(s)  PROVE TakenFairly
    BY <1>2 DEF Unregister, IsCurrent
  <1>3. CASE CloseAll
    BY <1>3 DEF CloseAll
  <1>4. ASSUME NEW s \in Session,
               \/ Accept(s) \/ Handshake(s) \/ MarkConnected(s) \/ Evict(s)
               \/ Wake(s) \/ MarkDisconnected(s) \/ MuxDies(s)
               \/ WatchFires(s) \/ CloseDoomed(s)
        PROVE  UNCHANGED sessions
    BY <1>4 DEF Accept, Handshake, HandshakeOK, HandshakeFail, MarkConnected,
                Evict, Wake, MarkDisconnected, MuxDies, WatchFires, CloseDoomed
  <1>5. ASSUME NEW r \in Request,
               Lookup(r) \/ Woken(r) \/ TimerFires(r) \/ Cancel(r) \/ Dial(r)
        PROVE  UNCHANGED sessions
    BY <1>5 DEF Lookup, LookupHit, LookupMiss, LookupWait, Woken, TimerFires,
                Cancel, Dial
  <1>6. CASE Tick
    BY <1>6 DEF Tick
  <1> QED
    BY <1>1, <1>2, <1>3, <1>4, <1>5, <1>6 DEF Next, Handler

\* While the server runs, no session loses its slot but to a newer Register or
\* to its own Unregister after it was closed.
THEOREM SlotsTakenFairly == Spec => NeverDroppedAlive
  BY Invariance, TakenFairlyStep, PTL DEF Spec, NeverDroppedAlive

-------------------------------------------------------------------------------
(***************************************************************************)
(* Registry implements ServiceSlot.                                        *)
(***************************************************************************)

LEMMA SlotInit == Init => Slot!Init
  BY DEF Init, Slot!Init, Past, HasOwned, Answer

\* Each step is the abstract step its comment names, or none at all: Insert
\* takes the slot, Unregister leaves it, CloseAll clears the table, and Lookup
\* answers in the critical section that reads the map.
LEMMA SlotStep == IInv /\ [Next]_vars => [Slot!Next]_(Slot!vars)
  <1> SUFFICES ASSUME IInv, [Next]_vars  PROVE [Slot!Next]_(Slot!vars)
    OBVIOUS
  <1> USE DEF IInv, TypeOK
  <1> DEFINE Same == UNCHANGED <<sessions, Past, [r \in Request |-> Answer(r)], got, want>>
  <1>0. Same => [Slot!Next]_(Slot!vars)
    BY DEF Slot!vars
  <1>1. ASSUME NEW s \in Session,
               \/ Accept(s) \/ Handshake(s) \/ MarkConnected(s) \/ Evict(s)
               \/ Wake(s) \/ MarkDisconnected(s) \/ MuxDies(s)
               \/ WatchFires(s) \/ CloseDoomed(s)
        PROVE  Same
    <2>1. UNCHANGED <<sessions, reqVars>> /\ UNCHANGED Past
      BY <1>1 DEF Accept, Handshake, HandshakeOK, HandshakeFail, MarkConnected,
                  Evict, Wake, MarkDisconnected, MuxDies, WatchFires,
                  CloseDoomed, Past, HasOwned, Locals, Before
    <2> QED
      BY <2>1 DEF Answer
  <1>2. ASSUME NEW s \in Session, Insert(s)
        PROVE  Slot!Take(s, svc[s]) /\ svc[s] \in Service
    <2>1. svc[s] \in Service /\ ~HasOwned(s)
      BY <1>2 DEF Insert, Locals, Before, HasOwned
    <2>2. s \notin Past \cup Slot!Owners
      BY <1>2, <2>1 DEF Insert, Past, Slot!Owners, NoZombieEntry, Inserted
    <2>3. Past' = Past \cup ({sessions[svc[s]]} \ {None})
      BY <1>2, <2>1 DEF Insert, Past, HasOwned, NoZombieEntry, Inserted
    <2>4. UNCHANGED <<[r \in Request |-> Answer(r)], got, want>>
      BY <1>2 DEF Insert, Answer
    <2> QED
      BY <1>2, <2>1, <2>2, <2>3, <2>4 DEF Insert, Slot!Take
  <1>3. ASSUME NEW s \in Session, Unregister(s)
        PROVE  Same \/ (Slot!Leave(svc[s]) /\ svc[s] \in Service)
    <2>1. svc[s] \in Service /\ UNCHANGED <<[r \in Request |-> Answer(r)], got, want>>
      BY <1>3 DEF Unregister, Locals, Before, Answer
    <2>2. CASE IsCurrent(s)
      <3>1. Past' = Past \cup {s}
        BY <1>3, <2>1, <2>2 DEF Unregister, IsCurrent, Past, HasOwned, NoZombieEntry
      <3> QED
        BY <1>3, <2>1, <2>2, <3>1 DEF Unregister, IsCurrent, Slot!Leave
    <2>3. CASE ~IsCurrent(s)
      <3>1. UNCHANGED <<sessions, Past>>
        BY <1>3, <2>1, <2>3 DEF Unregister, IsCurrent, Past, HasOwned
      <3> QED
        BY <2>1, <3>1
    <2> QED
      BY <2>2, <2>3
  <1>4. ASSUME NEW r \in Request, Lookup(r) \/ Woken(r) \/ TimerFires(r) \/ Cancel(r)
        PROVE  \E v \in Service : Slot!Hit(r, v) \/ Slot!Hold(r, v) \/ Slot!Miss(r, v)
    <2>1. UNCHANGED <<sessions, Past>>
      BY <1>4 DEF Lookup, LookupHit, LookupMiss, LookupWait, Woken, TimerFires,
                  Cancel, Past, HasOwned
    <2>2. ASSUME NEW v \in Service, LookupHit(r, v)  PROVE Slot!Hit(r, v)
      BY <2>1, <2>2 DEF LookupHit, Empty, Slot!Hit, Slot!Asks, Answer
    <2>3. ASSUME NEW v \in Service, LookupMiss(r, v)  PROVE Slot!Miss(r, v)
      BY <2>1, <2>3 DEF LookupMiss, Empty, Slot!Miss, Slot!Asks, Answer, Askers
    <2>4. ASSUME NEW v \in Service, LookupWait(r, v)
          PROVE  Slot!Hold(r, v) \/ Slot!Miss(r, v)
      <3>1. /\ rpc[r] = "idle" /\ got[r] = None /\ sessions[v] = None
            /\ want' = [want EXCEPT ![r] = v] /\ got' = got
        BY <2>4 DEF LookupWait, Empty, Askers
      <3>2. CASE rpc' = [rpc EXCEPT ![r] = "wait"]
        BY <2>1, <3>1, <3>2 DEF Slot!Hold, Answer
      <3>3. CASE rpc' = [rpc EXCEPT ![r] = "bad"]
        BY <2>1, <3>1, <3>3 DEF Slot!Miss, Slot!Asks, Answer
      <3> QED
        BY <2>4, <3>2, <3>3 DEF LookupWait
    <2>5. ASSUME Woken(r)
          PROVE  Slot!Hit(r, want[r]) \/ Slot!Miss(r, want[r])
      BY <2>1, <2>5 DEF Woken, Slot!Hit, Slot!Miss, Slot!Asks, Answer, Askers
    <2>6. ASSUME TimerFires(r) \/ Cancel(r)  PROVE Slot!Miss(r, want[r])
      <3>1. rpc[r] = "wait" /\ got[r] = None /\ got' = got /\ want' = want
        BY <2>6 DEF TimerFires, Cancel, Askers
      <3>2. PICK l \in {"bad", "gone"} : rpc' = [rpc EXCEPT ![r] = l]
        BY <2>6 DEF TimerFires, Cancel
      <3>3. \A q \in Request : Answer(q)' = IF q = r THEN "miss" ELSE Answer(q)
        BY <3>1, <3>2 DEF Answer
      <3>4. Answer(r) = "held"
        BY <3>1 DEF Answer
      <3>5. [q \in Request |-> Answer(q)]' = [[q \in Request |-> Answer(q)] EXCEPT ![r] = "miss"]
        BY <3>3
      <3> QED
        BY <2>1, <3>1, <3>4, <3>5 DEF Slot!Miss, Slot!Asks
    <2>7. rpc[r] = "wait" => want[r] \in Service
      BY DEF Askers
    <2> QED
      BY <1>4, <2>2, <2>3, <2>4, <2>5, <2>6, <2>7 DEF Lookup, Woken, TimerFires, Cancel
  <1>5. ASSUME NEW r \in Request, Dial(r)  PROVE Same
    BY <1>5 DEF Dial, Past, HasOwned, Answer
  <1>6. CASE CloseAll
    <2>1. UNCHANGED <<[r \in Request |-> Answer(r)], got, want>>
      BY <1>6 DEF CloseAll, Answer
    <2>2. Past' = Past \cup Slot!Owners
      BY <1>6 DEF CloseAll, Past, HasOwned, Slot!Owners, NoZombieEntry, Inserted
    <2> QED
      BY <1>6, <2>1, <2>2 DEF CloseAll, Slot!Clear, Slot!Next
  <1>7. ASSUME Tick \/ UNCHANGED vars  PROVE Same
    BY <1>7 DEF Tick, vars, Past, HasOwned, Answer
  <1> QED
    BY <1>0, <1>1, <1>2, <1>3, <1>4, <1>5, <1>6, <1>7 DEF Next, Handler, Slot!Next

\* The registry with its locks, channels and timers implements a table whose
\* lookups are atomic and whose slots are never regained once lost.
THEOREM Implements == Spec => ImplementsSlot
  BY SlotInit, SlotStep, Invariance, PTL DEF Spec, ImplementsSlot, Slot!Spec
===============================================================================
