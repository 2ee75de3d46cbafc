------------------------------ MODULE ClientLoop ------------------------------
(***************************************************************************)
(* The router-client's Run loop (client/client.go) and the handshake of    *)
(* each connection it makes (internal/protocol/handshake.go) with the      *)
(* server's handleControl (server/server.go), of which several may still   *)
(* be busy with connections that the client has given up.                  *)
(*                                                                         *)
(* The registry is one slot here, which Register takes and a handler gives *)
(* back if it is still its own: what ServiceSlot promises.                 *)
(*                                                                         *)
(* A definition marked "Slip" is not the code: it is the next one with a   *)
(* plausible mistake in it, which the named property must catch.           *)
(***************************************************************************)
EXTENDS Naturals

CONSTANTS
    Conn,          \* connections, used again when both ends have left one
    None,
    ReconnectMin,  \* the first delay between two attempts
    ReconnectMax   \* and the bound on the later ones

\* newClient replaces a zero; it does not compare the two.
ASSUME DelayAssumption ==
    /\ None \notin Conn
    /\ ReconnectMin \in Nat \ {0} /\ ReconnectMax \in Nat \ {0}

VARIABLES
    ctx,      \* "live" or "cancelled"
    run,      \* where Run, and runOnce in it, stand
    backoff,  \* the next delay
    conn,     \* runOnce's connection
    open,     \* connections whose client end is open
    cut,      \* connections that the network has broken
    greeted,  \* connections on which a Hello was sent
    reply,    \* connection -> the status of its Ack
    far,      \* connection -> where the server's handler stands
    owner,    \* the connection registered for the service
    faults    \* the network and the server may fail, and be slow

loopVars == <<run, backoff, conn>>
wireVars == <<open, cut, greeted, reply>>
vars == <<ctx, loopVars, wireVars, far, owner, faults>>

\* runOnce is under way on conn.
Connected == {"hello", "ack", "accept"}

TypeOK ==
    /\ ctx \in {"live", "cancelled"}
    /\ run \in {"top", "dial", "failed", "backoff", "returned"} \cup Connected
    /\ backoff \in 1 .. ReconnectMax \cup {ReconnectMin}
    /\ conn \in Conn \cup {None}
    /\ open \subseteq Conn /\ cut \subseteq Conn /\ greeted \subseteq Conn
    /\ reply \in [Conn -> {"none", "ok", "bad"}]
    /\ far \in [Conn -> {"hello", "ack", "register", "serve", "closed"}]
    /\ owner \in Conn \cup {None}
    /\ faults \in BOOLEAN

Init ==
    /\ ctx = "live"
    /\ run = "top" /\ backoff = ReconnectMin /\ conn = None
    /\ open = {} /\ cut = {} /\ greeted = {}
    /\ reply = [c \in Conn |-> "none"]
    /\ far = [c \in Conn |-> "closed"]
    /\ owner = None
    /\ faults = TRUE

(***************************************************************************)
(* Run.                                                                    *)
(***************************************************************************)

\* The checks of ctx.Err() before and after runOnce.
Top ==
    /\ run = "top"
    /\ run' = IF ctx = "cancelled" THEN "returned" ELSE "dial"
    /\ UNCHANGED <<ctx, backoff, conn, wireVars, far, owner, faults>>

AfterRunOnce ==
    /\ run = "failed"
    /\ run' = IF ctx = "cancelled" THEN "returned" ELSE "backoff"
    /\ UNCHANGED <<ctx, backoff, conn, wireVars, far, owner, faults>>

Doubled == IF 2 * backoff > ReconnectMax THEN ReconnectMax ELSE 2 * backoff

\* The select between ctx.Done and the timer.
Wait ==
    /\ run = "backoff"
    /\ \/ ctx = "cancelled" /\ run' = "returned" /\ UNCHANGED backoff
       \/ run' = "top" /\ backoff' = Doubled
    /\ UNCHANGED <<ctx, conn, wireVars, far, owner, faults>>

(***************************************************************************)
(* runOnce.                                                                *)
(***************************************************************************)

Fails ==
    /\ run' = "failed"
    /\ conn' = None

\* The paths that close the connection and return an error.
ClosesAndFails ==
    /\ open' = open \ {conn}
    /\ Fails

\* A connection that nobody holds is used for the next one.
Dial ==
    /\ run = "dial"
    /\ \E c \in Conn \ open :
          /\ far[c] = "closed"
          /\ conn' = c
          /\ open' = open \cup {c} /\ cut' = cut \ {c} /\ greeted' = greeted \ {c}
          /\ reply' = [reply EXCEPT ![c] = "none"]
          /\ far' = [far EXCEPT ![c] = "hello"]
    /\ run' = "hello"
    /\ UNCHANGED <<ctx, backoff, owner, faults>>

\* DialContext: refused, timed out, or cancelled.
DialFails ==
    /\ run = "dial"
    /\ faults \/ ctx = "cancelled"
    /\ Fails
    /\ UNCHANGED <<ctx, backoff, wireVars, far, owner, faults>>

WriteHello ==
    /\ run = "hello"
    /\ run' = "ack"
    /\ greeted' = greeted \cup {conn}
    /\ UNCHANGED <<ctx, backoff, conn, open, cut, reply, far, owner, faults>>

\* The connection is broken or closed, or the deadline of 10 s passes.
WriteHelloFails ==
    /\ run = "hello"
    /\ conn \in cut \/ far[conn] = "closed" \/ faults
    /\ ClosesAndFails
    /\ UNCHANGED <<ctx, backoff, cut, greeted, reply, far, owner, faults>>

\* ReadAck brings StatusOK; yamux starts on the connection.
Accepted ==
    /\ run = "ack" /\ conn \notin cut /\ reply[conn] = "ok"
    /\ run' = "accept"
    /\ UNCHANGED <<ctx, backoff, conn, wireVars, far, owner, faults>>

\* Slip (NothingLeftOpen): a refused connection is not closed.
RejectedOpen ==
    /\ run = "ack" /\ conn \notin cut /\ reply[conn] = "bad"
    /\ Fails
    /\ UNCHANGED <<ctx, backoff, wireVars, far, owner, faults>>

Rejected ==
    /\ run = "ack" /\ conn \notin cut /\ reply[conn] = "bad"
    /\ ClosesAndFails
    /\ UNCHANGED <<ctx, backoff, cut, greeted, reply, far, owner, faults>>

ReadAckFails ==
    /\ run = "ack"
    /\ conn \in cut \/ (reply[conn] = "none" /\ far[conn] = "closed") \/ faults
    /\ ClosesAndFails
    /\ UNCHANGED <<ctx, backoff, cut, greeted, reply, far, owner, faults>>

\* Slip (Stopped): a session is closed only when it has failed.
CloserLate == run = "accept" /\ conn \notin open
CloserReady == run = "accept" /\ ctx = "cancelled"

\* The goroutine that waits for ctx.Done and closes mux.
CloserFires ==
    /\ CloserReady
    /\ open' = open \ {conn}
    /\ UNCHANGED <<ctx, loopVars, cut, greeted, reply, far, owner, faults>>

\* Slip (Reconnected): a session that ends is the end of Run.
RunEnds == run' = "returned" /\ conn' = None
SessionOver == Fails

\* AcceptStream fails when either end was closed or the network broke.
AcceptFails ==
    /\ run = "accept"
    /\ conn \notin open \/ conn \in cut \/ far[conn] = "closed"
    /\ open' = open \ {conn}
    /\ SessionOver
    /\ UNCHANGED <<ctx, backoff, cut, greeted, reply, far, owner, faults>>

(***************************************************************************)
(* handleControl.                                                          *)
(***************************************************************************)

\* The client's bytes are there although it may have closed its end since.
ReadHello(c) ==
    /\ far[c] = "hello" /\ c \in greeted /\ c \notin cut
    /\ \/ far' = [far EXCEPT ![c] = "ack"] /\ UNCHANGED reply
       \/ /\ faults   \* the token or the name is not accepted
          /\ far' = [far EXCEPT ![c] = "closed"]
          /\ reply' = [reply EXCEPT ![c] = "bad"]
    /\ UNCHANGED <<ctx, loopVars, open, cut, greeted, owner, faults>>

ReadHelloFails(c) ==
    /\ far[c] = "hello"
    /\ c \in cut \/ (c \notin open /\ c \notin greeted) \/ faults
    /\ far' = [far EXCEPT ![c] = "closed"]
    /\ UNCHANGED <<ctx, loopVars, wireVars, owner, faults>>

\* A write that finds the connection closed or broken need not fail.
WriteAck(c) ==
    /\ far[c] = "ack"
    /\ \/ far' = [far EXCEPT ![c] = "register"] /\ reply' = [reply EXCEPT ![c] = "ok"]
       \/ /\ c \in cut \/ c \notin open
          /\ far' = [far EXCEPT ![c] = "closed"] /\ UNCHANGED reply
    /\ UNCHANGED <<ctx, loopVars, open, cut, greeted, owner, faults>>

\* Last writer wins: whoever held the slot is closed.
Register(c) ==
    /\ far[c] = "register"
    /\ owner' = c
    /\ far' = [d \in Conn |-> IF d = c THEN "serve" ELSE IF d = owner THEN "closed" ELSE far[d]]
    /\ UNCHANGED <<ctx, loopVars, wireVars, faults>>

\* watch sees the end of the session, and the handler unregisters it.
SessionEnds(c) ==
    /\ far[c] = "serve"
    /\ c \in cut \/ c \notin open
    /\ far' = [far EXCEPT ![c] = "closed"]
    /\ owner' = IF owner = c THEN None ELSE owner
    /\ UNCHANGED <<ctx, loopVars, wireVars, faults>>

(***************************************************************************)
(* What happens to them.                                                   *)
(***************************************************************************)

Cancel ==
    /\ ctx = "live"
    /\ ctx' = "cancelled"
    /\ UNCHANGED <<loopVars, wireVars, far, owner, faults>>

Break(c) ==
    /\ faults /\ c \notin cut
    /\ cut' = cut \cup {c}
    /\ UNCHANGED <<ctx, loopVars, open, greeted, reply, far, owner, faults>>

\* The server stops, and its connections with it; dialling fails meanwhile.
Restart ==
    /\ faults
    /\ far' = [c \in Conn |-> "closed"]
    /\ owner' = None
    /\ UNCHANGED <<ctx, loopVars, wireVars, faults>>

Toggle ==
    /\ faults' = ~faults
    /\ UNCHANGED <<ctx, loopVars, wireVars, far, owner>>

Loop == Top \/ AfterRunOnce \/ Wait

RunOnce == Dial \/ DialFails \/ WriteHello \/ WriteHelloFails \/ Accepted \/ Rejected
           \/ ReadAckFails \/ AcceptFails

Handler(c) == ReadHello(c) \/ ReadHelloFails(c) \/ WriteAck(c) \/ Register(c) \/ SessionEnds(c)

Next ==
    \/ Loop \/ RunOnce \/ CloserFires
    \/ \E c \in Conn : Handler(c)
    \/ Cancel \/ Restart \/ Toggle
    \/ \E c \in Conn : Break(c)

Spec == Init /\ [][Next]_vars

\* Goroutines run, timers fire, and deadlines pass where an answer stays out.
Fairness ==
    /\ WF_vars(Loop \/ RunOnce)
    /\ WF_vars(CloserFires)
    /\ \A c \in Conn : WF_vars(Handler(c))

FairSpec == Spec /\ Fairness

-------------------------------------------------------------------------------
(***************************************************************************)
(* Properties.                                                             *)
(***************************************************************************)

\* Every way out of runOnce has closed its connection: a client that has been
\* refused, cut off or cancelled at any point, any number of times, holds one
\* socket while runOnce is under way, and none otherwise.
NothingLeftOpen == \A c \in open : c = conn /\ run \in Connected

\* A cancelled client stops, wherever in dialling, handshake, session or delay it
\* was, and whatever the server does or does not do.
Stopped == ctx = "cancelled" ~> run = "returned"

\* Served: the client accepts streams on the connection the server registered.
Served == run = "accept" /\ conn \in open /\ owner = conn

\* When network and server work again for good, so does the client, whatever
\* they did before.  In particular a handler that is still busy with a
\* connection given up long ago may register it after its successor, which
\* closes the working session, but not for ever.
Reconnected == <>[](~faults /\ ctx = "live") => <>[]Served
===============================================================================
