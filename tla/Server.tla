-------------------------------- MODULE Server --------------------------------
(***************************************************************************)
(* The life of Server.Run: listeners opened one after the other, a Serve   *)
(* goroutine for each, the select that waits, and shutdown, which drains   *)
(* the HTTP servers in turn within five seconds, closes the listeners and  *)
(* then the sessions.  Around it, public requests and control connections. *)
(*                                                                         *)
(* The registry is here as what it promises: its steps are ServiceSlot's   *)
(* (RegistryProofs shows that Registry implements it).  http.Server is a   *)
(* library; how it serves and shuts down is modelled from how Run uses it. *)
(*                                                                         *)
(* A definition marked "Slip" is not the code: it is the next one with a   *)
(* plausible mistake in it, which the named property must catch.           *)
(*                                                                         *)
(* The specification's own names begin with Server or life, so that        *)
(* ServerProofs can extend this module and Upgrade.                        *)
(***************************************************************************)
EXTENDS Naturals, Sequences

CONSTANTS Service, Session, Request, None

Door == {"http", "tls"}
Listener == Door \cup {"control"}

VARIABLES
    tls,        \* the configuration has a TLS listener
    run,        \* Run: the listener it opens next, "select", "drain http" or
                \* "drain tls", "close", "clear", "returned"; or "failed", when it
                \* returned before the select
    result,     \* what Run returns: "none" so far, "ok" (nil) or "error"
    cancelled,  \* the context given to Run is done
    late,       \* shutdown's five seconds have passed
    lis,        \* listener -> "none", "open" or "closed"
    serve,      \* listener -> its Serve or runControl goroutine: "none",
                \* "starting", "serving" or "ended"
    down,       \* the doors whose http.Server.Shutdown was called
    errc,       \* what the Serve goroutines have sent: "closed" (nil,
                \* ErrServerClosed or ErrClosed) or "failed"
    at,         \* request -> "none", the door of the server that handles it,
                \* "hijacked", or "done"
    shaking,    \* control connections in their handshake
    owner, past, answer, target, of   \* the registry: see ServiceSlot

Slot == INSTANCE ServiceSlot

ServerTypeOK ==
    /\ tls \in BOOLEAN /\ cancelled \in BOOLEAN /\ late \in BOOLEAN
    /\ run \in Listener \cup {"select", "drain http", "drain tls", "close", "clear",
                             "returned", "failed"}
    /\ result \in {"none", "ok", "error"}
    /\ lis \in [Listener -> {"none", "open", "closed"}]
    /\ serve \in [Listener -> {"none", "starting", "serving", "ended"}]
    /\ down \subseteq Door
    /\ errc \in Seq({"closed", "failed"})
    /\ at \in [Request -> Door \cup {"none", "hijacked", "done"}]
    /\ shaking \subseteq Session

slotVars   == <<owner, past, answer, target, of>>
runVars    == <<run, result, late, down>>
serveVars  == <<lis, serve, errc>>
clientVars == <<at, shaking, slotVars>>
lifeVars == <<tls, cancelled, runVars, serveVars, clientVars>>

ServerInit ==
    /\ tls \in BOOLEAN
    /\ run = "http" /\ result = "none" /\ cancelled = FALSE /\ late = FALSE
    /\ lis = [l \in Listener |-> "none"]
    /\ serve = [l \in Listener |-> "none"]
    /\ down = {} /\ errc = << >>
    /\ at = [r \in Request |-> "none"] /\ shaking = {}
    /\ Slot!Init

\* Run's own context: it ends with the caller's, and when Run returns.
CtxDone == cancelled \/ run \in {"returned", "failed"}

(***************************************************************************)
(* Run.                                                                    *)
(***************************************************************************)

Opened(l) == IF l = "http" /\ tls THEN "tls" ELSE IF l = "control" THEN "select" ELSE "control"

Listen(l) ==
    /\ run = l
    /\ lis' = [lis EXCEPT ![l] = "open"]
    /\ serve' = [serve EXCEPT ![l] = "starting"]
    /\ run' = Opened(l)
    /\ UNCHANGED <<tls, cancelled, result, late, down, errc, clientVars>>

\* An early return (DNS-01 or a listener fails): what is open stays open.
ListenFails ==
    /\ run \in Listener
    /\ run' = "failed" /\ result' = "error"
    /\ UNCHANGED <<tls, cancelled, late, down, serveVars, clientVars>>

\* The select; shutdown then takes the lists of servers and listeners.
Select ==
    /\ run = "select"
    /\ \/ cancelled /\ result' = "ok" /\ UNCHANGED errc
       \/ /\ errc # << >>
          /\ result' = IF Head(errc) = "failed" THEN "error" ELSE "ok"
          /\ errc' = Tail(errc)
    /\ run' = "drain http"
    /\ UNCHANGED <<tls, cancelled, late, lis, serve, down, clientVars>>

\* shutdown is at the server of door d.
Draining(d) == run = IF d = "http" THEN "drain http" ELSE "drain tls"

\* http.Server.Shutdown begins: it closes the listener, if Serve has it already.
Shutdown(d) ==
    /\ Draining(d) /\ d \notin down
    /\ down' = down \cup {d}
    /\ lis' = [lis EXCEPT ![d] = IF serve[d] = "starting" THEN @ ELSE "closed"]
    /\ UNCHANGED <<tls, cancelled, run, result, late, serve, errc, clientVars>>

\* Slip (InFlightSpared): the TLS listener's server was not tracked.
OnlyFirst(d) == "close"
Drained(d) == IF d = "http" /\ tls THEN "drain tls" ELSE "close"

\* Shutdown returns: nobody is being served, or the deadline has passed.
ShutdownReturns(d) ==
    /\ Draining(d) /\ d \in down
    /\ late \/ \A r \in Request : at[r] # d
    /\ run' = Drained(d)
    /\ UNCHANGED <<tls, cancelled, result, late, down, serveVars, clientVars>>

DeadlinePasses ==
    /\ ~late /\ \E d \in Door : Draining(d)
    /\ late' = TRUE
    /\ UNCHANGED <<tls, cancelled, run, result, down, serveVars, clientVars>>

CloseListeners ==
    /\ run = "close" /\ run' = "clear"
    /\ lis' = [l \in Listener |-> IF lis[l] = "open" THEN "closed" ELSE lis[l]]
    /\ UNCHANGED <<tls, cancelled, result, late, down, serve, errc, clientVars>>

CloseAll ==
    /\ run = "clear" /\ run' = "returned"
    /\ Slot!Clear
    /\ UNCHANGED <<tls, cancelled, result, late, down, serveVars, at, shaking>>

(***************************************************************************)
(* The goroutines that serve.                                              *)
(***************************************************************************)

\* Slip (RunReturns): errc has room for one value.
RoomForOne == Len(errc) < 1
Room == Len(errc) < 4

\* The goroutine of l ends and tells Run.
Ends(l, why) ==
    /\ Room
    /\ serve' = [serve EXCEPT ![l] = "ended"]
    /\ errc' = Append(errc, why)

\* Serve takes the listener, unless Shutdown came first.
Starts(l) ==
    /\ serve[l] = "starting"
    /\ \/ l \in down /\ Ends(l, "closed") /\ lis' = [lis EXCEPT ![l] = "closed"]
       \/ /\ l \notin down
          /\ serve' = [serve EXCEPT ![l] = "serving"]
          /\ UNCHANGED <<lis, errc>>
    /\ UNCHANGED <<tls, cancelled, runVars, clientVars>>

\* Accept finds the listener closed.
Stops(l) ==
    /\ serve[l] = "serving" /\ lis[l] = "closed"
    /\ Ends(l, "closed")
    /\ UNCHANGED <<tls, cancelled, runVars, lis, clientVars>>

\* Slip (OkMeansCancelled): runControl hides the error.
Hidden(l) == IF l = "control" THEN "closed" ELSE "failed"
Reason(l) == IF l = "control" /\ CtxDone THEN "closed" ELSE "failed"

\* Accept fails: in runControl for any reason, a passing shortage of file
\* descriptors included, which http.Server sits out.  Serve closes its listener.
AcceptFails(l) ==
    /\ serve[l] = "serving" /\ lis[l] = "open"
    /\ Ends(l, Reason(l))
    /\ lis' = [lis EXCEPT ![l] = IF l = "control" THEN @ ELSE "closed"]
    /\ UNCHANGED <<tls, cancelled, runVars, clientVars>>

\* runControl's own goroutine.
Closer ==
    /\ serve["control"] \in {"serving", "ended"} /\ CtxDone /\ lis["control"] = "open"
    /\ lis' = [lis EXCEPT !["control"] = "closed"]
    /\ UNCHANGED <<tls, cancelled, runVars, serve, errc, clientVars>>

(***************************************************************************)
(* The world outside.                                                      *)
(***************************************************************************)

Cancel ==
    /\ ~cancelled /\ cancelled' = TRUE
    /\ UNCHANGED <<tls, runVars, serveVars, clientVars>>

Accepting(l) == serve[l] = "serving" /\ lis[l] = "open"

Arrive(r, d) ==
    /\ Accepting(d) /\ at[r] = "none"
    /\ at' = [at EXCEPT ![r] = d]
    /\ UNCHANGED <<tls, cancelled, runVars, serveVars, shaking, slotVars>>

\* publicHandler's Lookup: answered, held, or 502.
LookUp(r, v) ==
    /\ at[r] \in Door
    /\ \/ (Slot!Hit(r, v) \/ Slot!Hold(r, v)) /\ UNCHANGED at
       \/ Slot!Miss(r, v) /\ at' = [at EXCEPT ![r] = "done"]
    /\ UNCHANGED <<tls, cancelled, runVars, serveVars, shaking>>

\* The exchange ends, or it is an upgrade and leaves its http.Server.
Forward(r) ==
    /\ at[r] \in Door \cup {"hijacked"} /\ answer[r] = "hit"
    /\ at' \in {[at EXCEPT ![r] = w] : w \in {"hijacked", "done"} \ {at[r]}}
    /\ UNCHANGED <<tls, cancelled, runVars, serveVars, shaking, slotVars>>

Connect(s) ==
    /\ Accepting("control") /\ s \notin shaking \cup past \cup Slot!Owners
    /\ shaking' = shaking \cup {s}
    /\ UNCHANGED <<tls, cancelled, runVars, serveVars, at, slotVars>>

\* The handshake ends, well or not, whatever has become of Run.
HandshakeEnds(s) ==
    /\ s \in shaking /\ shaking' = shaking \ {s}
    /\ (\E v \in Service : Slot!Take(s, v)) \/ UNCHANGED slotVars
    /\ UNCHANGED <<tls, cancelled, runVars, serveVars, at>>

SessionEnds(v) ==
    /\ Slot!Leave(v)
    /\ UNCHANGED <<tls, cancelled, runVars, serveVars, at, shaking>>

-------------------------------------------------------------------------------

Run ==
    \/ ListenFails \/ \E l \in Listener : Listen(l)
    \/ Select \/ \E d \in Door : Shutdown(d) \/ ShutdownReturns(d)
    \/ CloseListeners \/ CloseAll

Serve(l) == Starts(l) \/ Stops(l)

ServerNext ==
    \/ Run \/ DeadlinePasses \/ Closer \/ Cancel
    \/ \E l \in Listener : Serve(l) \/ AcceptFails(l)
    \/ \E r \in Request : \/ Forward(r)
                          \/ \E d \in Door : Arrive(r, d)
                          \/ \E v \in Service : LookUp(r, v)
    \/ \E s \in Session : Connect(s) \/ HandshakeEnds(s)
    \/ \E v \in Service : SessionEnds(v)

ServerSpec == ServerInit /\ [][ServerNext]_lifeVars

\* Goroutines run and the deadline expires.  Nothing is assumed of requests,
\* clients or listeners, nor that anybody cancels.
ServerFairness ==
    /\ WF_lifeVars(Run) /\ WF_lifeVars(DeadlinePasses) /\ WF_lifeVars(Closer)
    /\ \A l \in Listener : WF_lifeVars(Serve(l))

ServerFairSpec == ServerSpec /\ ServerFairness

(***************************************************************************)
(* Properties.                                                             *)
(***************************************************************************)

\* shutdown takes the sessions from under no request an HTTP server is still
\* answering or holding, at either door and however the doors' draining and
\* late requests interleave, unless five seconds have passed.  (Upgraded
\* exchanges are not waited for: they have left their http.Server.)
InFlightSpared == run = "clear" /\ ~late => \A r \in Request : at[r] \notin Door

\* main.go:79-81 exits with an error exactly when Run returns one: a server that
\* nobody stopped never ends as if it had been, whichever goroutine speaks first.
OkMeansCancelled == result = "ok" => cancelled

\* A cancelled server stops, and with it the goroutines it has started, even if
\* nobody reads what they send.  (One that could not start has left them behind.)
RunReturns ==
    cancelled ~> \/ run = "failed"
                 \/ run = "returned" /\ \A l \in Listener : serve[l] \in {"none", "ended"}
===============================================================================
