------------------------------ MODULE ServerProofs ------------------------------
(***************************************************************************)
(* The server's own goroutines: first Run with its listeners and shutdown, *)
(* then the four of an upgraded exchange.  For any number of requests,     *)
(* services and sessions, and for any amount of traffic.                   *)
(*                                                                         *)
(* Server.  A door whose server was told to shut down accepts nobody any   *)
(* more, so once it is empty it stays empty; and until Run comes to its    *)
(* select nothing but a cancelled context closes a listener under a        *)
(* goroutine that serves on it.                                            *)
(*                                                                         *)
(* Upgrade.  The argument for the channel is counting: every value a pump  *)
(* sent is in the buffer or was taken by exactly one receiver, and the     *)
(* handler only closes the channel once it took two itself.  The one for   *)
(* the byte counts follows a sample through the ticker's load, add and     *)
(* reset.                                                                  *)
(***************************************************************************)
EXTENDS Server, Upgrade, TLAPS

USE DEF Door, Listener, slotVars, runVars, serveVars, clientVars

(***************************************************************************)
(* Server.                                                                 *)
(***************************************************************************)

\* Run has not come to the select yet, or is at it.
Before == Listener \cup {"select"}

\* Where Run stands when it is done with the server of door d.
After(d) == {"close", "clear", "returned"} \cup IF d = "http" THEN {"drain tls"} ELSE {}

\* Without TLS nobody comes to that door.
NoTLS == ~tls => /\ run \notin {"tls", "drain tls"}
                 /\ serve["tls"] = "none"
                 /\ \A r \in Request : at[r] # "tls"

\* A server that was told to shut down accepts nobody, now or later.
NoneAccepted ==
    /\ run \in Before \cup {"failed"} => down = {}
    /\ \A d \in down : lis[d] = "closed" \/ serve[d] # "serving"

\* Nor has it anybody left, once Run is done with it in time.
DoorsEmpty ==
    \A d \in Door : run \in After(d) =>
        /\ d = "http" \/ tls => d \in down
        /\ late \/ \A r \in Request : at[r] # d

\* Before shutdown only a cancelled server ends without a failure.
FailuresOnly ==
    run \in Before /\ ~cancelled =>
        /\ errc \in Seq({"failed"})
        /\ \A l \in Listener : lis[l] = "closed" => serve[l] = "ended"

ServerInv == /\ ServerTypeOK /\ NoTLS /\ NoneAccepted /\ DoorsEmpty /\ FailuresOnly
             /\ OkMeansCancelled

-------------------------------------------------------------------------------
\* What one request, and what the control connections, may do.
OfRequest(r) == Forward(r) \/ (\E d \in Door : Arrive(r, d)) \/ \E v \in Service : LookUp(r, v)

OfClients == \/ \E s \in Session : Connect(s) \/ HandshakeEnds(s)
             \/ \E v \in Service : SessionEnds(v)

\* What requests and clients do leaves Run and its goroutines where they are.
LEMMA OutsideFrame ==
    ASSUME (\E r \in Request : OfRequest(r)) \/ OfClients \/ UNCHANGED lifeVars
    PROVE  UNCHANGED <<tls, cancelled, run, result, late, down, lis, serve, errc>>
  BY DEF OfRequest, OfClients, Forward, Arrive, LookUp, Connect, HandshakeEnds, SessionEnds, lifeVars

\* And what the goroutines do, Run and the requests.
LEMMA ServeFrame ==
    ASSUME NEW l \in Listener, Serve(l) \/ AcceptFails(l) \/ Closer
    PROVE  UNCHANGED <<tls, cancelled, run, result, late, down, at, shaking>>
  BY DEF Serve, Starts, Stops, AcceptFails, Closer

\* A request comes to a door only where that is accepting, and only Arrive brings it.
LEMMA RequestMoves ==
    ASSUME ServerTypeOK, (\E r \in Request : OfRequest(r)) \/ OfClients \/ UNCHANGED lifeVars
    PROVE  /\ at' \in [Request -> Door \cup {"none", "hijacked", "done"}]
           /\ \A r \in Request : at'[r] \in Door => at'[r] = at[r] \/ Accepting(at'[r])
  <1>1. ASSUME NEW r \in Request, Forward(r)
        PROVE  \E w \in {"hijacked", "done"} : at' = [at EXCEPT ![r] = w]
    BY <1>1 DEF Forward
  <1>2. ASSUME NEW r \in Request, NEW d \in Door, Arrive(r, d)
        PROVE  at' = [at EXCEPT ![r] = d] /\ Accepting(d)
    BY <1>2 DEF Arrive
  <1>3. ASSUME NEW r \in Request, NEW v \in Service, LookUp(r, v)
        PROVE  at' = at \/ at' = [at EXCEPT ![r] = "done"]
    BY <1>3 DEF LookUp
  <1>4. OfClients \/ UNCHANGED lifeVars => at' = at
    BY DEF OfClients, Connect, HandshakeEnds, SessionEnds, lifeVars
  <1>5. \/ at' = at
        \/ \E r \in Request, w \in {"hijacked", "done"} : at' = [at EXCEPT ![r] = w]
        \/ \E r \in Request, d \in Door : at' = [at EXCEPT ![r] = d] /\ Accepting(d)
    BY <1>1, <1>2, <1>3, <1>4 DEF OfRequest
  <1> QED
    BY <1>5 DEF ServerTypeOK

-------------------------------------------------------------------------------
LEMMA InitServerInv == ServerInit => ServerInv
  <1> SUFFICES ASSUME ServerInit  PROVE ServerInv
    OBVIOUS
  <1> USE DEF ServerInit, Before
  <1>1. ServerTypeOK
    <2>1. cancelled \in BOOLEAN /\ late \in BOOLEAN /\ tls \in BOOLEAN
      OBVIOUS
    <2>2. errc \in Seq({"closed", "failed"})
      OBVIOUS
    <2> QED
      BY <2>1, <2>2 DEF ServerTypeOK
  <1>2. NoTLS /\ NoneAccepted
    BY DEF NoTLS, NoneAccepted
  <1>3. DoorsEmpty
    BY DEF DoorsEmpty, After
  <1>4. FailuresOnly /\ OkMeansCancelled
    BY DEF FailuresOnly, OkMeansCancelled
  <1> QED
    BY <1>1, <1>2, <1>3, <1>4 DEF ServerInv

LEMMA Reports ==
    ASSUME NEW S, NEW s \in Seq(S)
    PROVE  /\ \A why \in S : Append(s, why) \in Seq(S)
           /\ s # << >> => Head(s) \in S /\ Tail(s) \in Seq(S)
  OBVIOUS

LEMMA ServerTypeStep == ASSUME ServerInv, [ServerNext]_lifeVars  PROVE ServerTypeOK'
  <1>0. ServerTypeOK /\ errc \in Seq({"closed", "failed"})
    BY DEF ServerInv, ServerTypeOK
  <1> USE DEF Before
  <1>1. CASE ListenFails
    BY <1>0, <1>1 DEF ListenFails, ServerTypeOK
  <1>2. ASSUME NEW l \in Listener, Listen(l)  PROVE ServerTypeOK'
    BY <1>0, <1>2 DEF Listen, Opened, ServerTypeOK
  <1>3. CASE Select
    <2>1. errc' = errc \/ (errc # << >> /\ errc' = Tail(errc))
      BY <1>3 DEF Select
    <2>2. errc' \in Seq({"closed", "failed"})
      BY <1>0, <2>1, Reports
    <2>3. result' \in {"ok", "error"}
      BY <1>3 DEF Select
    <2> QED
      BY <1>0, <1>3, <2>2, <2>3 DEF Select, ServerTypeOK
  <1>4. ASSUME NEW d \in Door, Shutdown(d)  PROVE ServerTypeOK'
    BY <1>0, <1>4 DEF Shutdown, ServerTypeOK
  <1>5. ASSUME NEW d \in Door, ShutdownReturns(d)  PROVE ServerTypeOK'
    BY <1>0, <1>5 DEF ShutdownReturns, Drained, ServerTypeOK
  <1>6. CASE CloseListeners \/ CloseAll
    BY <1>0, <1>6 DEF CloseListeners, CloseAll, ServerTypeOK
  <1>7. ASSUME NEW l \in Listener, Serve(l) \/ AcceptFails(l) \/ Closer  PROVE ServerTypeOK'
    <2>1. errc' \in Seq({"closed", "failed"})
      <3>1. errc' = errc \/ \E why \in {"closed", "failed"} : errc' = Append(errc, why)
        BY <1>7 DEF Serve, Starts, Stops, AcceptFails, Closer, Ends, Reason
      <3> QED
        BY <1>0, <3>1, Reports
    <2>2. serve' \in [Listener -> {"none", "starting", "serving", "ended"}]
      BY <1>0, <1>7 DEF Serve, Starts, Stops, AcceptFails, Closer, Ends, ServerTypeOK
    <2>3. lis' \in [Listener -> {"none", "open", "closed"}]
      BY <1>0, <1>7 DEF Serve, Starts, Stops, AcceptFails, Closer, Ends, ServerTypeOK
    <2> QED
      BY <1>0, <1>7, <2>1, <2>2, <2>3, ServeFrame DEF ServerTypeOK
  <1>8. CASE Cancel \/ DeadlinePasses
    BY <1>0, <1>8 DEF Cancel, DeadlinePasses, ServerTypeOK
  <1>9. CASE (\E r \in Request : OfRequest(r)) \/ OfClients \/ UNCHANGED lifeVars
    <2>1. shaking' \subseteq Session
      BY <1>0, <1>9 DEF OfRequest, Forward, Arrive, LookUp, OfClients, Connect, HandshakeEnds,
                  SessionEnds, lifeVars, ServerTypeOK
    <2> QED
      BY <1>0, <1>9, <2>1, OutsideFrame, RequestMoves DEF ServerTypeOK
  <1> QED
    BY <1>1, <1>2, <1>3, <1>4, <1>5, <1>6, <1>7, <1>8, <1>9 DEF ServerNext, Run, OfRequest, OfClients

\* Opened and Drained pass the TLS door by, and nobody serves there.
LEMMA NoTLSStep == ASSUME ServerInv, [ServerNext]_lifeVars  PROVE NoTLS'
  <1>0. ServerTypeOK /\ NoTLS
    BY DEF ServerInv
  <1> USE <1>0 DEF NoTLS, ServerTypeOK
  <1>1. CASE ListenFails \/ Select \/ CloseListeners \/ CloseAll \/ Cancel \/ DeadlinePasses
    BY <1>1 DEF ListenFails, Select, CloseListeners, CloseAll, Cancel, DeadlinePasses
  <1>2. ASSUME NEW l \in Listener, Listen(l)  PROVE NoTLS'
    BY <1>2 DEF Listen, Opened
  <1>3. ASSUME NEW d \in Door, Shutdown(d) \/ ShutdownReturns(d)  PROVE NoTLS'
    BY <1>3 DEF Shutdown, ShutdownReturns, Drained
  <1>4. ASSUME NEW l \in Listener, Serve(l) \/ AcceptFails(l) \/ Closer  PROVE NoTLS'
    <2>1. serve["tls"] = "none" => serve'["tls"] = "none"
      BY <1>4 DEF Serve, Starts, Stops, AcceptFails, Closer, Ends
    <2> QED
      BY <1>4, <2>1, ServeFrame
  <1>5. CASE (\E r \in Request : OfRequest(r)) \/ OfClients \/ UNCHANGED lifeVars
    BY <1>5, OutsideFrame, RequestMoves DEF Accepting
  <1> QED
    BY <1>1, <1>2, <1>3, <1>4, <1>5 DEF ServerNext, Run, OfRequest, OfClients

LEMMA NoneAcceptedStep == ASSUME ServerInv, [ServerNext]_lifeVars  PROVE NoneAccepted'
  <1>0. ServerTypeOK /\ NoneAccepted
    BY DEF ServerInv
  <1> USE <1>0 DEF NoneAccepted, ServerTypeOK, Before
  <1>1. CASE ListenFails \/ Select \/ CloseListeners \/ CloseAll \/ Cancel \/ DeadlinePasses
    BY <1>1 DEF ListenFails, Select, CloseListeners, CloseAll, Cancel, DeadlinePasses
  <1>2. ASSUME NEW l \in Listener, Listen(l)  PROVE NoneAccepted'
    BY <1>2 DEF Listen, Opened
  <1>3. ASSUME NEW d \in Door, Shutdown(d)  PROVE NoneAccepted'
    BY <1>3 DEF Shutdown, Draining
  <1>4. ASSUME NEW d \in Door, ShutdownReturns(d)  PROVE NoneAccepted'
    BY <1>4 DEF ShutdownReturns, Drained, Draining
  <1>5. ASSUME NEW l \in Listener, Serve(l) \/ AcceptFails(l) \/ Closer  PROVE NoneAccepted'
    <2>1. \A d \in down : lis'[d] = "closed" \/ serve'[d] # "serving"
      BY <1>5 DEF Serve, Starts, Stops, AcceptFails, Closer, Ends
    <2> QED
      BY <1>5, <2>1, ServeFrame
  <1>6. CASE (\E r \in Request : OfRequest(r)) \/ OfClients \/ UNCHANGED lifeVars
    BY <1>6, OutsideFrame
  <1> QED
    BY <1>1, <1>2, <1>3, <1>4, <1>5, <1>6 DEF ServerNext, Run, OfRequest, OfClients

\* Shutdown has returned for an empty door, and nobody comes to it any more.
LEMMA DoorsEmptyStep == ASSUME ServerInv, [ServerNext]_lifeVars  PROVE DoorsEmpty'
  <1>0. ServerTypeOK /\ NoTLS /\ NoneAccepted /\ DoorsEmpty
    BY DEF ServerInv
  <1> USE DEF After
  <1>1. CASE ListenFails \/ Select \/ CloseListeners \/ CloseAll \/ Cancel
    <2>1. UNCHANGED <<tls, late, down, at>>
      BY <1>1 DEF ListenFails, Select, CloseListeners, CloseAll, Cancel
    <2>2. \A d \in Door : run' \in After(d) => run \in After(d)
      BY <1>1 DEF ListenFails, Select, CloseListeners, CloseAll, Cancel
    <2> QED
      BY <1>0, <2>1, <2>2 DEF DoorsEmpty
  <1>2. ASSUME NEW l \in Listener, Listen(l)  PROVE DoorsEmpty'
    BY <1>0, <1>2 DEF Listen, Opened, DoorsEmpty
  <1>3. ASSUME NEW d \in Door, Shutdown(d)  PROVE DoorsEmpty'
    BY <1>0, <1>3 DEF Shutdown, DoorsEmpty
  <1>4. ASSUME NEW d \in Door, ShutdownReturns(d)  PROVE DoorsEmpty'
    BY <1>0, <1>4 DEF ShutdownReturns, Drained, Draining, DoorsEmpty, NoTLS
  <1>5. ASSUME NEW l \in Listener, Serve(l) \/ AcceptFails(l) \/ Closer  PROVE DoorsEmpty'
    BY <1>0, <1>5, ServeFrame DEF DoorsEmpty, ServerTypeOK
  <1>6. CASE (\E r \in Request : OfRequest(r)) \/ OfClients \/ UNCHANGED lifeVars
    <2>1. ASSUME NEW d \in Door, run \in After(d), NEW r \in Request, at'[r] = d
          PROVE  at[r] = d
      <3> SUFFICES ASSUME at[r] # d  PROVE FALSE
        OBVIOUS
      <3>1. Accepting(d)
        BY <1>0, <1>6, <2>1, RequestMoves
      <3>2. d \in down
        BY <1>0, <2>1, <3>1 DEF DoorsEmpty, NoTLS, Accepting
      <3> QED
        BY <1>0, <3>1, <3>2 DEF NoneAccepted, Accepting
    <2>2. UNCHANGED <<tls, run, late, down>>
      BY <1>6, OutsideFrame
    <2> QED
      BY <1>0, <2>1, <2>2 DEF DoorsEmpty
  <1>7. CASE DeadlinePasses
    <2>1. late' /\ UNCHANGED <<tls, run, down>>
      BY <1>7 DEF DeadlinePasses
    <2> QED
      BY <1>0, <2>1 DEF DoorsEmpty
  <1> QED
    BY <1>1, <1>2, <1>3, <1>4, <1>5, <1>6, <1>7 DEF ServerNext, Run, OfRequest, OfClients

\* Until the select, whoever ends without a failure was told to by the context.
LEMMA FailuresOnlyStep == ASSUME ServerInv, [ServerNext]_lifeVars  PROVE FailuresOnly'
  <1> SUFFICES ASSUME (run \in Before)', ~cancelled'
               PROVE  /\ errc' \in Seq({"failed"})
                      /\ \A l \in Listener : lis'[l] = "closed" => serve'[l] = "ended"
    BY DEF FailuresOnly
  <1>0. ServerTypeOK /\ NoneAccepted /\ FailuresOnly
    BY DEF ServerInv
  <1> USE DEF Before
  <1>1. run \in Before /\ ~cancelled /\ down = {} /\ ~CtxDone
    <2>1. run \in Before
      BY <1>0 DEF ServerTypeOK, ServerNext, Run, ListenFails, Listen, Select, Shutdown,
                  ShutdownReturns, Drained, Draining, CloseListeners, CloseAll, Serve, Starts, Stops,
                  AcceptFails, Closer, Cancel, DeadlinePasses, Arrive, LookUp, Forward,
                  Connect, HandshakeEnds, SessionEnds, lifeVars
    <2>2. ~cancelled
      BY DEF ServerNext, Run, ListenFails, Listen, Select, Shutdown,
             ShutdownReturns, CloseListeners, CloseAll, Serve, Starts, Stops,
             AcceptFails, Closer, Cancel, DeadlinePasses, Arrive, LookUp, Forward,
             Connect, HandshakeEnds, SessionEnds, lifeVars
    <2> QED
      BY <1>0, <2>1, <2>2 DEF NoneAccepted, CtxDone
  <1>2. /\ errc \in Seq({"failed"})
        /\ \A l \in Listener : lis[l] = "closed" => serve[l] = "ended"
    BY <1>0, <1>1 DEF FailuresOnly
  <1>3. CASE Run
    <2>1. PICK l \in Listener : Listen(l)
      BY <1>1, <1>3 DEF Run, ListenFails, Select, Shutdown, ShutdownReturns, Draining,
                        CloseListeners, CloseAll
    <2> QED
      BY <1>0, <1>2, <2>1 DEF Listen, ServerTypeOK
  <1>4. ASSUME NEW l \in Listener, Serve(l) \/ AcceptFails(l)
        PROVE  /\ errc' \in Seq({"failed"})
               /\ \A m \in Listener : lis'[m] = "closed" => serve'[m] = "ended"
    <2>1. errc' = errc \/ errc' = Append(errc, "failed")
      BY <1>1, <1>2, <1>4 DEF Serve, Starts, Stops, AcceptFails, Ends, Reason
    <2>2. \A m \in Listener : lis'[m] = "closed" => serve'[m] = "ended"
      BY <1>0, <1>1, <1>2, <1>4 DEF Serve, Starts, Stops, AcceptFails, Ends, ServerTypeOK
    <2> QED
      BY <1>2, <2>1, <2>2, Reports
  <1>5. CASE Cancel \/ DeadlinePasses \/ Closer
    BY <1>1, <1>2, <1>5 DEF Cancel, DeadlinePasses, Closer
  <1>6. CASE (\E r \in Request : OfRequest(r)) \/ OfClients \/ UNCHANGED lifeVars
    BY <1>2, <1>6, OutsideFrame
  <1> QED
    BY <1>3, <1>4, <1>5, <1>6 DEF ServerNext, OfRequest, OfClients

LEMMA OkStep == ASSUME ServerInv, [ServerNext]_lifeVars  PROVE OkMeansCancelled'
  <1>0. OkMeansCancelled /\ FailuresOnly /\ ServerTypeOK
    BY DEF ServerInv
  <1>1. CASE Select
    <2>1. ASSUME errc # << >>, ~cancelled  PROVE Head(errc) = "failed"
      <3>1. errc \in Seq({"failed"})
        BY <1>0, <1>1, <2>1 DEF Select, FailuresOnly, Before
      <3> QED
        BY <2>1, <3>1, Reports
    <2> QED
      BY <1>1, <2>1 DEF Select, OkMeansCancelled
  <1>2. CASE ListenFails \/ (\E d \in Door : Shutdown(d) \/ ShutdownReturns(d)) \/ CloseListeners
             \/ CloseAll \/ (\E l \in Listener : Listen(l)) \/ Cancel \/ DeadlinePasses
    BY <1>0, <1>2 DEF ListenFails, Shutdown, ShutdownReturns, CloseListeners, CloseAll, Listen,
                      Cancel, DeadlinePasses, OkMeansCancelled
  <1>3. ASSUME NEW l \in Listener, Serve(l) \/ AcceptFails(l) \/ Closer  PROVE OkMeansCancelled'
    BY <1>0, <1>3, ServeFrame DEF OkMeansCancelled
  <1>4. CASE (\E r \in Request : OfRequest(r)) \/ OfClients \/ UNCHANGED lifeVars
    BY <1>0, <1>4, OutsideFrame DEF OkMeansCancelled
  <1> QED
    BY <1>1, <1>2, <1>3, <1>4 DEF ServerNext, Run, OfRequest, OfClients

\* The server's inductive invariant.
THEOREM ServerInvariance == ServerSpec => []ServerInv
  <1>1. ServerInv /\ [ServerNext]_lifeVars => ServerInv'
    BY ServerTypeStep, NoTLSStep, NoneAcceptedStep, DoorsEmptyStep, FailuresOnlyStep, OkStep
       DEF ServerInv
  <1> QED
    BY InitServerInv, <1>1, PTL DEF ServerSpec

\* Types.
THEOREM ServerTypeCorrect == ServerSpec => []ServerTypeOK
  <1>1. ServerInv => ServerTypeOK
    BY DEF ServerInv
  <1> QED
    BY ServerInvariance, <1>1, PTL

\* No session is closed under a request that an http.Server still has, at either
\* door, unless the five seconds of shutdown are over: for any number of them,
\* with or without TLS.
THEOREM Spared == ServerSpec => []InFlightSpared
  <1>1. ServerInv => InFlightSpared
    BY DEF ServerInv, ServerTypeOK, DoorsEmpty, InFlightSpared, After
  <1> QED
    BY ServerInvariance, <1>1, PTL

\* Run returns nil only to whoever has cancelled it.
THEOREM OkCancelled == ServerSpec => []OkMeansCancelled
  <1>1. ServerInv => OkMeansCancelled
    BY DEF ServerInv
  <1> QED
    BY ServerInvariance, <1>1, PTL

(***************************************************************************)
(* Upgrade.                                                                *)
(***************************************************************************)

Early == {"open", "write", "hijack", "start", "failed"}

\* The values d's pump has sent.
Sent(d) == IF pump[d] \in {"closeStream", "closePublic", "gone"} THEN 1 ELSE 0

TokensAccounted ==
    tokens + taken["main"] + taken["ticker"] = Sent("up") + Sent("down")

\* Who has started and who may have received what.
Stages ==
    /\ main \in Early => /\ taken["main"] = 0
                         /\ ticker = "off"
                         /\ \A d \in Dir : pump[d] = "off"
                         /\ wsActive = 0
    /\ main = "receive" => taken["main"] < 2
    /\ main = "sample" \/ Finalizing => taken["main"] = 2
    /\ main \in {"receive", "sample", "publish", "reset", "end"} => wsActive = 1
    /\ ticker # "gone" => taken["ticker"] = 0
    /\ doneClosed => main = "returned"

\* Before the final report the ticker alone resets the counters, so its sample
\* is still in them when it adds it.
Samples ==
    ~Finalizing => \A d \in Dir :
        /\ ticker # "reset" => stat[d] + cnt[d] <= moved[d]
        /\ ticker = "publish" => sample["ticker"][d] <= cnt[d]
        /\ ticker = "reset" => stat[d] <= moved[d]

IInv == TypeOK /\ TokensAccounted /\ Stages /\ Samples

USE DEF chanVars, byteVars, Dir, Reporter, Zero

LEMMA InitIInv == Init => IInv
  <1> SUFFICES ASSUME Init  PROVE IInv
    OBVIOUS
  <1>1. TypeOK
    <2>1. doneClosed \in BOOLEAN
      BY DEF Init
    <2>2. /\ cnt \in [Dir -> Nat] /\ moved \in [Dir -> Nat] /\ stat \in [Dir -> Nat]
          /\ sample \in [Reporter -> [Dir -> Nat]]
      BY DEF Init
    <2> QED
      BY <2>1, <2>2 DEF Init, TypeOK
  <1>2. TokensAccounted /\ Stages
    BY DEF Init, TokensAccounted, Sent, Stages, Early, Finalizing
  <1>3. Samples
    BY DEF Init, Samples
  <1> QED
    BY <1>1, <1>2, <1>3 DEF IInv

\* Every step keeps the variables in their types.
LEMMA TypeStep == IInv /\ [Next]_vars => TypeOK'
  <1> SUFFICES ASSUME IInv, [Next]_vars  PROVE TypeOK'
    OBVIOUS
  <1> USE DEF IInv, TypeOK
  <1>1. CASE OpenStream \/ WriteRequest \/ Hijack \/ Start
    <2>1. CASE WriteRequest
      <3>1. cnt' \in [Dir -> Nat] /\ moved' \in [Dir -> Nat]
        BY <2>1 DEF WriteRequest
      <3> QED
        BY <2>1, <3>1 DEF WriteRequest
    <2>2. CASE OpenStream \/ Hijack
      BY <2>2 DEF OpenStream, Hijack
    <2>3. CASE Start
      BY <2>3 DEF Start, Stages, Early
    <2> QED
      BY <1>1, <2>1, <2>2, <2>3
  <1>2. ASSUME NEW d \in Dir, Copy(d)  PROVE TypeOK'
    <2>1. cnt' \in [Dir -> Nat] /\ moved' \in [Dir -> Nat]
      BY <1>2 DEF Copy
    <2> QED
      BY <1>2, <2>1 DEF Copy
  <1>3. ASSUME NEW d \in Dir, CopyEnds(d) \/ PumpEnds(d)  PROVE TypeOK'
    <2>1. UNCHANGED <<main, ticker, doneClosed, taken, byteVars, wsActive>>
      BY <1>3 DEF CopyEnds, PumpEnds, SendDone, CloseStream, ClosePublic
    <2>2. /\ pump' \in [Dir -> {"off", "copy", "send", "closeStream", "closePublic", "gone"}]
          /\ tokens' \in 0 .. 2
          /\ conns' \subseteq {"public", "stream"}
      <3>1. CASE CopyEnds(d)
        BY <3>1 DEF CopyEnds
      <3>2. CASE SendDone(d)
        BY <3>2 DEF SendDone
      <3>3. CASE CloseStream(d)
        BY <3>3 DEF CloseStream
      <3>4. CASE ClosePublic(d)
        BY <3>4 DEF ClosePublic
      <3> QED
        BY <1>3, <3>1, <3>2, <3>3, <3>4 DEF PumpEnds
    <2>3. doneClosed' \in BOOLEAN
      BY <2>1
    <2>4. UNCHANGED cnt /\ UNCHANGED moved /\ UNCHANGED sample /\ UNCHANGED stat
      BY <2>1
    <2>5. UNCHANGED main /\ UNCHANGED ticker /\ UNCHANGED taken /\ UNCHANGED wsActive
      BY <2>1
    <2> QED
      BY <2>2, <2>3, <2>4, <2>5
  <1>4. CASE TickLoad
    BY <1>4 DEF TickLoad, Load
  <1>5. CASE TickAdd
    BY <1>5 DEF TickAdd, AddWSBytes
  <1>6. CASE TickReset
    BY <1>6 DEF TickReset, ResetCounters
  <1>7. CASE TickerStops
    BY <1>7 DEF TickerStops, Receive, TokensAccounted, Sent, Stages
  <1>8. CASE AwaitPump
    BY <1>8 DEF AwaitPump, Receive, AfterReceive, Stages
  <1>9. CASE FinalLoad
    BY <1>9 DEF FinalLoad, Load
  <1>10. CASE FinalAdd
    BY <1>10 DEF FinalAdd, AddWSBytes
  <1>11. CASE FinalReset
    BY <1>11 DEF FinalReset, ResetCounters
  <1>12. CASE WSEnd
    BY <1>12 DEF WSEnd, Stages
  <1>13. CASE CloseDone
    BY <1>13 DEF CloseDone
  <1>14. CASE UNCHANGED vars
    BY <1>14 DEF vars
  <1> QED
    BY <1>1, <1>2, <1>3, <1>4, <1>5, <1>6, <1>7, <1>8, <1>9, <1>10, <1>11, <1>12, <1>13, <1>14
    DEF Next, Main, Ticker

\* A send adds a value and a receive moves one.
LEMMA TokensStep == IInv /\ [Next]_vars => TokensAccounted'
  <1> SUFFICES ASSUME IInv, [Next]_vars  PROVE TokensAccounted'
    OBVIOUS
  <1> USE DEF IInv, TypeOK, TokensAccounted, Sent, Stages, Early, Finalizing
  <1>1. CASE OpenStream \/ WriteRequest \/ Hijack \/ Start
    BY <1>1 DEF OpenStream, WriteRequest, Hijack, Start
  <1>2. ASSUME NEW d \in Dir, Copy(d)  PROVE TokensAccounted'
    BY <1>2 DEF Copy
  <1>3. ASSUME NEW d \in Dir, CopyEnds(d) \/ PumpEnds(d)  PROVE TokensAccounted'
    BY <1>3 DEF CopyEnds, PumpEnds, SendDone, CloseStream, ClosePublic
  <1>4. CASE TickLoad
    BY <1>4 DEF TickLoad, Load
  <1>5. CASE TickAdd
    BY <1>5 DEF TickAdd, AddWSBytes
  <1>6. CASE TickReset
    BY <1>6 DEF TickReset, ResetCounters
  <1>7. CASE TickerStops
    BY <1>7 DEF TickerStops, Receive
  <1>8. CASE AwaitPump
    BY <1>8 DEF AwaitPump, Receive, AfterReceive
  <1>9. CASE FinalLoad
    BY <1>9 DEF FinalLoad, Load
  <1>10. CASE FinalAdd
    BY <1>10 DEF FinalAdd, AddWSBytes
  <1>11. CASE FinalReset
    BY <1>11 DEF FinalReset, ResetCounters
  <1>12. CASE WSEnd
    BY <1>12 DEF WSEnd
  <1>13. CASE CloseDone
    BY <1>13 DEF CloseDone
  <1>14. CASE UNCHANGED vars
    BY <1>14 DEF vars
  <1> QED
    BY <1>1, <1>2, <1>3, <1>4, <1>5, <1>6, <1>7, <1>8, <1>9, <1>10, <1>11, <1>12, <1>13, <1>14
    DEF Next, Main, Ticker

\* The handler's program counter bounds what it took.
LEMMA StagesStep == IInv /\ [Next]_vars => Stages'
  <1> SUFFICES ASSUME IInv, [Next]_vars  PROVE Stages'
    OBVIOUS
  <1> USE DEF IInv, TypeOK, Stages, Early, Finalizing
  <1>1. CASE OpenStream \/ WriteRequest \/ Hijack \/ Start
    BY <1>1 DEF OpenStream, WriteRequest, Hijack, Start
  <1>2. ASSUME NEW d \in Dir, Copy(d)  PROVE Stages'
    BY <1>2 DEF Copy
  <1>3. ASSUME NEW d \in Dir, CopyEnds(d) \/ PumpEnds(d)  PROVE Stages'
    BY <1>3 DEF CopyEnds, PumpEnds, SendDone, CloseStream, ClosePublic
  <1>4. CASE TickLoad
    BY <1>4 DEF TickLoad, Load
  <1>5. CASE TickAdd
    BY <1>5 DEF TickAdd, AddWSBytes
  <1>6. CASE TickReset
    BY <1>6 DEF TickReset, ResetCounters
  <1>7. CASE TickerStops
    BY <1>7 DEF TickerStops, Receive
  <1>8. CASE AwaitPump
    BY <1>8 DEF AwaitPump, Receive, AfterReceive
  <1>9. CASE FinalLoad
    BY <1>9 DEF FinalLoad, Load
  <1>10. CASE FinalAdd
    BY <1>10 DEF FinalAdd, AddWSBytes
  <1>11. CASE FinalReset
    BY <1>11 DEF FinalReset, ResetCounters
  <1>12. CASE WSEnd
    BY <1>12 DEF WSEnd
  <1>13. CASE CloseDone
    BY <1>13 DEF CloseDone
  <1>14. CASE UNCHANGED vars
    BY <1>14 DEF vars
  <1> QED
    BY <1>1, <1>2, <1>3, <1>4, <1>5, <1>6, <1>7, <1>8, <1>9, <1>10, <1>11, <1>12, <1>13, <1>14
    DEF Next, Main, Ticker

\* A sample is added once and reset away once.
LEMMA SamplesStep == IInv /\ [Next]_vars => Samples'
  <1> SUFFICES ASSUME IInv, [Next]_vars  PROVE Samples'
    OBVIOUS
  <1> USE DEF IInv, TypeOK, Stages, Early, Samples, Finalizing
  <1>1. CASE OpenStream \/ WriteRequest \/ Hijack \/ Start
    BY <1>1 DEF OpenStream, WriteRequest, Hijack, Start
  <1>2. ASSUME NEW d \in Dir, Copy(d)  PROVE Samples'
    BY <1>2 DEF Copy
  <1>3. ASSUME NEW d \in Dir, CopyEnds(d) \/ PumpEnds(d)  PROVE Samples'
    BY <1>3 DEF CopyEnds, PumpEnds, SendDone, CloseStream, ClosePublic
  <1>4. CASE TickLoad
    BY <1>4 DEF TickLoad, Load
  <1>5. CASE TickAdd
    BY <1>5 DEF TickAdd, AddWSBytes
  <1>6. CASE TickReset
    BY <1>6 DEF TickReset, ResetCounters
  <1>7. CASE TickerStops
    BY <1>7 DEF TickerStops, Receive
  <1>8. CASE AwaitPump
    BY <1>8 DEF AwaitPump, Receive, AfterReceive
  <1>9. CASE FinalLoad
    BY <1>9 DEF FinalLoad, Load
  <1>10. CASE FinalAdd
    BY <1>10 DEF FinalAdd, AddWSBytes
  <1>11. CASE FinalReset
    BY <1>11 DEF FinalReset, ResetCounters
  <1>12. CASE WSEnd
    BY <1>12 DEF WSEnd
  <1>13. CASE CloseDone
    BY <1>13 DEF CloseDone
  <1>14. CASE UNCHANGED vars
    BY <1>14 DEF vars
  <1> QED
    BY <1>1, <1>2, <1>3, <1>4, <1>5, <1>6, <1>7, <1>8, <1>9, <1>10, <1>11, <1>12, <1>13, <1>14
    DEF Next, Main, Ticker

LEMMA IInvStep == IInv /\ [Next]_vars => IInv'
  BY TypeStep, TokensStep, StagesStep, SamplesStep DEF IInv

\* The inductive invariant holds throughout the exchange.
THEOREM Invariance == Spec => []IInv
  BY InitIInv, IInvStep, PTL DEF Spec

-------------------------------------------------------------------------------
\* Types: the channel's buffer and wsActive stay within their bounds.
THEOREM TypeCorrect == Spec => []TypeOK
  <1>1. IInv => TypeOK
    BY DEF IInv
  <1> QED
    BY Invariance, <1>1, PTL

\* No pump ever sends on a full or closed `done` (its buffer of 2 is enough and
\* the final close comes after both sends).
THEOREM SafeSends == Spec => []SendsAreSafe
  <1>1. IInv => SendsAreSafe
    BY DEF IInv, TypeOK, TokensAccounted, Sent, Stages, Early, Finalizing, SendsAreSafe
  <1> QED
    BY Invariance, <1>1, PTL

\* Until the final report, the ticker never makes Stats show more bytes than
\* were carried.
THEOREM NotOverReported == Spec => []NeverOverReported
  <1>1. IInv => NeverOverReported
    BY DEF IInv, Samples, NeverOverReported
  <1> QED
    BY Invariance, <1>1, PTL
===============================================================================
