-------------------------------- MODULE Forward -------------------------------
(***************************************************************************)
(* One request that is not an upgrade, from the public client through      *)
(* forwardHTTP (server/proxy.go) and a yamux stream to the router-client,  *)
(* which answers it itself (client/handler.go) or passes it on to an       *)
(* upstream (client/proxy.go).                                             *)
(*                                                                         *)
(* A request and a response are a "head", "unit"s of body and an "end",    *)
(* the last chunk or the last byte announced.  A stream carries Window of  *)
(* them in each direction before its writer has to wait.                   *)
(*                                                                         *)
(* A definition marked "Slip" is not the code: it is the next one with a   *)
(* plausible mistake in it, which the named property must catch.           *)
(***************************************************************************)
EXTENDS Naturals, Sequences

CONSTANTS
    Modes,      \* the router-clients considered: "handler", "proxy"
    Window,     \* yamux's receive window, and a socket's buffer
    MaxUnits    \* bound on the body units of a request or a response

ASSUME WindowAssumption ==
    /\ Modes \subseteq {"handler", "proxy"}
    /\ Window \in Nat \ {0} /\ MaxUnits \in Nat

VARIABLES
    mode,      \* which kind of router-client this is
    patient,   \* the application reads the request to its end before it answers
    pub,       \* the public client: "uploading", "finished", "gone"
    main,      \* where forwardHTTP stands; "write" is in w.Write or Flush
    writer,    \* where the goroutine that writes the request stands
    held,      \* history: body units read from the public client
    code,      \* what the public client was answered: "none", "ok", "bad"
    got,       \* body units copied to it
    complete,  \* the response was read to its end
    serve,     \* where the router-client's Serve stands
    pump,      \* proxy mode's goroutine from the stream to the upstream
    app,       \* the application (handler or upstream): "off", "on", "closed"
    heard,     \* the application has seen the end of the request, or an error
    answer,    \* the response so far: "none", "head", "end"
    wrote,     \* body units of it
    up, down,  \* the stream, to and from the router-client
    out, back, \* the upstream connection, to and from the upstream
    closed,    \* ends of the stream that were closed, "server" and "client"
    cut        \* "no", "died" (the session), "reset" (the stream)

serverVars == <<main, writer, held, code, got, complete>>
clientVars == <<serve, pump>>
appVars    == <<app, heard, answer, wrote>>
wires      == <<up, down, out, back>>
vars == <<mode, patient, pub, serverVars, clientVars, appVars, wires, closed, cut>>

Item == {"head", "unit", "end"}

\* What a buffer can hold.
Fits(buffer) == buffer \in Seq(Item) /\ Len(buffer) =< Window

TypeOK ==
    /\ mode \in Modes /\ patient \in BOOLEAN
    /\ pub \in {"uploading", "finished", "gone"}
    /\ main \in {"open", "read", "copy", "write", "await", "done"}
    /\ writer \in {"off", "head", "body", "unit", "end", "sent", "failed"}
    /\ held \in 0 .. MaxUnits
    /\ code \in {"none", "ok", "bad"}
    /\ got \in 0 .. MaxUnits
    /\ complete \in BOOLEAN
    /\ serve \in {"request", "dial", "write", "copy", "refuse", "handler", "finish", "done"}
    /\ pump \in {"off", "copy", "done"}
    /\ app \in {"off", "on", "closed"}
    /\ heard \in BOOLEAN
    /\ answer \in {"none", "head", "end"}
    /\ wrote \in 0 .. MaxUnits
    /\ Fits(up) /\ Fits(down) /\ Fits(out) /\ Fits(back)
    /\ closed \subseteq {"server", "client"}
    /\ cut \in {"no", "died", "reset"}

Init ==
    /\ mode \in Modes /\ patient \in BOOLEAN
    /\ pub = "uploading"
    /\ main = "open" /\ writer = "off" /\ held = 0
    /\ code = "none" /\ got = 0 /\ complete = FALSE
    /\ serve = "request" /\ pump = "off"
    /\ app = "off" /\ heard = FALSE /\ answer = "none" /\ wrote = 0
    /\ up = << >> /\ down = << >> /\ out = << >> /\ back = << >>
    /\ closed = {} /\ cut = "no"

(***************************************************************************)
(* yamux.                                                                  *)
(***************************************************************************)

\* A read that will get no more, given what the buffer holds and whether the
\* other end was closed.
Ended(buffer, other) ==
    \/ cut = "reset"
    \/ buffer = << >> /\ (cut = "died" \/ other \in closed)

Room(buffer) == Len(buffer) < Window

\* The session's connection dies, and what had not arrived is lost.
SessionDies ==
    /\ cut = "no" /\ main # "open"
    /\ cut' = "died"
    /\ \E i \in 0 .. Len(up), j \in 0 .. Len(down) :
          up' = SubSeq(up, 1, i) /\ down' = SubSeq(down, 1, j)
    /\ UNCHANGED <<mode, patient, pub, serverVars, clientVars, appVars, out, back, closed>>

\* StreamCloseTimeout: one end is closed and the other stays open.
CloseTimeout ==
    /\ cut = "no"
    /\ closed \in {{"server"}, {"client"}}
    /\ cut' = "reset"
    /\ UNCHANGED <<mode, patient, pub, serverVars, clientVars, appVars, wires, closed>>

(***************************************************************************)
(* The public client.                                                      *)
(***************************************************************************)

\* It may leave at any time; what of its request was not read yet is lost.
PublicGone ==
    /\ pub # "gone"
    /\ pub' = "gone"
    /\ UNCHANGED <<mode, patient, serverVars, clientVars, appVars, wires, closed, cut>>

PublicFinishes ==
    /\ pub = "uploading"
    /\ pub' = "finished"
    /\ UNCHANGED <<mode, patient, serverVars, clientVars, appVars, wires, closed, cut>>

(***************************************************************************)
(* forwardHTTP.                                                            *)
(***************************************************************************)

OpenStream ==
    /\ main = "open"
    /\ main' = "read"
    /\ writer' = "head"
    /\ UNCHANGED <<mode, patient, pub, held, code, got, complete,
                   clientVars, appVars, wires, closed, cut>>

OpenFails ==
    /\ main = "open"
    /\ main' = "done"
    /\ code' = "bad"
    /\ UNCHANGED <<mode, patient, pub, writer, held, got, complete,
                   clientVars, appVars, wires, closed, cut>>

\* r.Write sends one item; nothing reads it once the session is gone.
WriterSends(item, next) ==
    /\ cut = "no" /\ Room(up)
    /\ up' = Append(up, item)
    /\ writer' = next
    /\ UNCHANGED <<mode, patient, pub, main, held, code, got, complete,
                   clientVars, appVars, down, out, back, closed, cut>>

\* r.Write reads from the public client.
WriterReads ==
    /\ writer = "body"
    /\ \/ pub = "uploading" /\ held < MaxUnits /\ held' = held + 1 /\ writer' = "unit"
       \/ pub = "finished" /\ held' = held /\ writer' = "end"
       \/ pub = "gone" /\ held' = held /\ writer' = "failed"
    /\ UNCHANGED <<mode, patient, pub, main, code, got, complete,
                   clientVars, appVars, wires, closed, cut>>

WriterFails ==
    /\ writer \in {"head", "unit", "end"}
    /\ cut # "no"
    /\ writer' = "failed"
    /\ UNCHANGED <<mode, patient, pub, main, held, code, got, complete,
                   clientVars, appVars, wires, closed, cut>>

Writes ==
    \/ writer = "head" /\ WriterSends("head", "body")
    \/ writer = "unit" /\ WriterSends("unit", "body")
    \/ writer = "end" /\ WriterSends("end", "sent")
    \/ WriterFails

\* Slip (AnswerNotBlocked): the response is read when the request is written.
ReadAfterWrite ==
    /\ main = "read" /\ writer \in {"sent", "failed"}
    /\ down # << >> /\ cut # "reset"
    /\ down' = Tail(down)
    /\ main' = "copy"
    /\ code' = "ok"
    /\ UNCHANGED <<mode, patient, pub, writer, held, got, complete,
                   clientVars, appVars, up, out, back, closed, cut>>

\* http.ReadResponse.
ReadResponse ==
    /\ main = "read"
    /\ down # << >> /\ cut # "reset"
    /\ down' = Tail(down)
    /\ main' = "copy"
    /\ code' = "ok"
    /\ UNCHANGED <<mode, patient, pub, writer, held, got, complete,
                   clientVars, appVars, up, out, back, closed, cut>>

\* Slip (BadGatewayHonest): a request that could not be written is given up.
GivenUp == Ended(down, "client") \/ writer = "failed"
NoResponse == Ended(down, "client")

ReadFails ==
    /\ main = "read"
    /\ NoResponse
    /\ main' = "await"
    /\ code' = "bad"
    /\ UNCHANGED <<mode, patient, pub, writer, held, got, complete,
                   clientVars, appVars, wires, closed, cut>>

\* The copy loop reads: a part of the body, its end, or an error.
CopyBody ==
    /\ main = "copy"
    /\ \/ /\ down # << >> /\ cut # "reset" /\ Head(down) = "unit"
          /\ down' = Tail(down)
          /\ main' = "write"
          /\ UNCHANGED complete
       \/ /\ down # << >> /\ cut # "reset" /\ Head(down) = "end"
          /\ down' = Tail(down)
          /\ main' = "await"
          /\ complete' = TRUE
       \/ /\ Ended(down, "client")
          /\ main' = "await"
          /\ UNCHANGED <<down, complete>>
    /\ UNCHANGED <<mode, patient, pub, writer, held, code, got,
                   clientVars, appVars, up, out, back, closed, cut>>

\* Slip (NothingLost): bytes that come together with the end are dropped.
Delivered == IF down # << >> /\ Head(down) = "end" THEN 0 ELSE 1
Copied == 1

\* The copy loop writes and flushes.  Neither returns before the public client
\* has read enough of what it was sent, or is gone.
WriteBody ==
    /\ main = "write"
    /\ \/ got' = got + Copied /\ main' = "copy"
       \/ pub = "gone" /\ main' = "await" /\ UNCHANGED got
    /\ UNCHANGED <<mode, patient, pub, writer, held, code, complete,
                   clientVars, appVars, wires, closed, cut>>

\* `<-writeDone`, HTTPCompleted, and the deferred Close.
Returns ==
    /\ main = "await"
    /\ writer \in {"sent", "failed"}
    /\ main' = "done"
    /\ closed' = closed \cup {"server"}
    /\ UNCHANGED <<mode, patient, pub, writer, held, code, got, complete,
                   clientVars, appVars, wires, cut>>

(***************************************************************************)
(* The router-client's Serve.                                              *)
(***************************************************************************)

\* Deferred: both connections are closed when Serve returns.
Leave ==
    /\ serve' = "done"
    /\ closed' = closed \cup {"client"}
    /\ app' = IF app = "on" THEN "closed" ELSE app

\* http.ReadRequest.
ReadRequest ==
    /\ serve = "request"
    /\ up # << >> /\ cut # "reset"
    /\ up' = Tail(up)
    /\ serve' = IF mode = "handler" THEN "handler" ELSE "dial"
    /\ app' = IF mode = "handler" THEN "on" ELSE app
    /\ UNCHANGED <<mode, patient, pub, serverVars, pump, heard, answer, wrote,
                   down, out, back, closed, cut>>

NoRequest ==
    /\ serve = "request"
    /\ Ended(up, "server")
    /\ Leave
    /\ UNCHANGED <<mode, patient, pub, serverVars, pump, heard, answer, wrote, wires, cut>>

\* Proxy mode: the upstream is dialled and gets the head of the request.
Dial ==
    /\ serve = "dial"
    /\ serve' = "write"
    /\ app' = "on"
    /\ out' = <<"head">>
    /\ UNCHANGED <<mode, patient, pub, serverVars, pump, heard, answer, wrote,
                   up, down, back, closed, cut>>

DialFails ==
    /\ serve = "dial"
    /\ serve' = "refuse"
    /\ UNCHANGED <<mode, patient, pub, serverVars, pump, appVars, wires, closed, cut>>

\* req.Write: the whole request, before anything of the response.
WriteUpstream ==
    /\ serve = "write"
    /\ up # << >> /\ cut # "reset"
    /\ Room(out) /\ app = "on"
    /\ up' = Tail(up)
    /\ out' = Append(out, Head(up))
    /\ IF Head(up) = "end"
       THEN serve' = "copy" /\ pump' = "copy"
       ELSE UNCHANGED <<serve, pump>>
    /\ UNCHANGED <<mode, patient, pub, serverVars, appVars, down, back, closed, cut>>

WriteUpstreamFails ==
    /\ serve = "write"
    /\ Ended(up, "server") \/ (up # << >> /\ app = "closed")
    /\ Leave
    /\ UNCHANGED <<mode, patient, pub, serverVars, pump, heard, answer, wrote, wires, cut>>

\* io.Copy(stream, conn).
CopyBack ==
    /\ serve = "copy"
    /\ back # << >> /\ cut = "no" /\ Room(down)
    /\ back' = Tail(back)
    /\ down' = Append(down, Head(back))
    /\ UNCHANGED <<mode, patient, pub, serverVars, clientVars, appVars, up, out, closed, cut>>

CopyBackEnds ==
    /\ serve = "copy"
    /\ (back = << >> /\ app = "closed") \/ (back # << >> /\ cut # "no")
    /\ Leave
    /\ UNCHANGED <<mode, patient, pub, serverVars, pump, heard, answer, wrote, wires, cut>>

\* Slip (Released): the goroutine outlives the stream.
StreamEnded == FALSE
PumpSees == Ended(up, "server")

\* The goroutine from the stream to the upstream: a finished request is
\* followed by nothing, so it waits for the stream's end.
PumpEnds ==
    /\ pump = "copy"
    /\ PumpSees
    /\ pump' = "done"
    /\ UNCHANGED <<mode, patient, pub, serverVars, serve, appVars, wires, closed, cut>>

\* A write to the stream; one that fails is ignored by what writes here.
Puts(item) ==
    \/ cut = "no" /\ Room(down) /\ down' = Append(down, item)
    \/ cut # "no" /\ UNCHANGED down

\* writeBadGateway.
Refuse ==
    /\ serve = "refuse"
    /\ \/ answer = "none" /\ Puts("head") /\ answer' = "head" /\ UNCHANGED <<serve, closed, app>>
       \/ answer = "head" /\ Puts("end") /\ answer' = "end" /\ Leave
    /\ UNCHANGED <<mode, patient, pub, serverVars, pump, heard, wrote, up, out, back, cut>>

(***************************************************************************)
(* Handler mode: the handler, called with a streamRW.                      *)
(***************************************************************************)

HandlerReads ==
    /\ serve = "handler" /\ ~heard
    /\ \/ /\ up # << >> /\ cut # "reset"
          /\ up' = Tail(up)
          /\ heard' = (Head(up) = "end")
       \/ Ended(up, "server") /\ heard' = TRUE /\ UNCHANGED up
    /\ UNCHANGED <<mode, patient, pub, serverVars, clientVars, app, answer, wrote,
                   down, out, back, closed, cut>>

\* An application that reads the request first has done so.
Free == patient => heard

\* streamRW.WriteHeader, Flush and Write: a WriteHeader that nothing flushes yet
\* is part of the step that does, or of Finish.
HandlerWrites ==
    /\ serve = "handler" /\ Free
    /\ \/ answer = "none" /\ Puts("head") /\ answer' = "head" /\ UNCHANGED wrote
       \/ answer = "head" /\ wrote < MaxUnits /\ Puts("unit") /\ wrote' = wrote + 1 /\ UNCHANGED answer
    /\ UNCHANGED <<mode, patient, pub, serverVars, clientVars, app, heard,
                   up, out, back, closed, cut>>

HandlerReturns ==
    /\ serve = "handler" /\ Free
    /\ serve' = "finish"
    /\ UNCHANGED <<mode, patient, pub, serverVars, pump, appVars, wires, closed, cut>>

\* streamRW.finish, and Serve's return.
Finish ==
    /\ serve = "finish"
    /\ \/ answer = "none" /\ Puts("head") /\ answer' = "head" /\ UNCHANGED <<serve, closed, app>>
       \/ answer = "head" /\ Puts("end") /\ answer' = "end" /\ Leave
    /\ UNCHANGED <<mode, patient, pub, serverVars, pump, heard, wrote, up, out, back, cut>>

(***************************************************************************)
(* Proxy mode: the upstream.                                               *)
(***************************************************************************)

UpstreamReads ==
    /\ mode = "proxy" /\ app = "on" /\ ~heard
    /\ out # << >>
    /\ out' = Tail(out)
    /\ heard' = (Head(out) = "end")
    /\ UNCHANGED <<mode, patient, pub, serverVars, clientVars, app, answer, wrote,
                   up, down, back, closed, cut>>

UpstreamWrites ==
    /\ mode = "proxy" /\ app = "on" /\ Free /\ Room(back)
    /\ \/ answer = "none" /\ back' = Append(back, "head") /\ answer' = "head" /\ UNCHANGED wrote
       \/ /\ answer = "head" /\ wrote < MaxUnits
          /\ back' = Append(back, "unit") /\ wrote' = wrote + 1 /\ UNCHANGED answer
       \/ answer = "head" /\ back' = Append(back, "end") /\ answer' = "end" /\ UNCHANGED wrote
    /\ UNCHANGED <<mode, patient, pub, serverVars, clientVars, app, heard,
                   up, down, out, closed, cut>>

\* Its answer is complete ("Connection: close"), or it fails.
UpstreamCloses ==
    /\ mode = "proxy" /\ app = "on" /\ Free
    /\ app' = "closed"
    /\ UNCHANGED <<mode, patient, pub, serverVars, clientVars, heard, answer, wrote,
                   wires, closed, cut>>

Server == OpenStream \/ OpenFails \/ WriterReads \/ Writes \/ ReadResponse \/ ReadFails
          \/ CopyBody \/ WriteBody \/ Returns

Client == ReadRequest \/ NoRequest \/ Dial \/ DialFails \/ WriteUpstream \/ WriteUpstreamFails
          \/ CopyBack \/ CopyBackEnds \/ PumpEnds \/ Refuse \/ Finish

Application == HandlerReads \/ HandlerWrites \/ HandlerReturns
               \/ UpstreamReads \/ UpstreamWrites \/ UpstreamCloses

Next ==
    \/ PublicGone \/ PublicFinishes
    \/ Server \/ Client \/ Application
    \/ SessionDies \/ CloseTimeout

Spec == Init /\ [][Next]_vars

\* Goroutines run and yamux's timer fires; an application that wants the whole
\* request reads it, and every application ends in time.  The public client,
\* the session and the dialled address promise nothing: a client that is not
\* gone may stop reading for ever, as no WriteTimeout is set.
Fairness ==
    /\ WF_vars(OpenStream \/ OpenFails \/ ReadResponse \/ ReadFails \/ CopyBody \/ Returns)
    /\ WF_vars(pub = "gone" /\ WriteBody)
    /\ WF_vars(Writes)
    /\ WF_vars(pub # "uploading" /\ WriterReads)
    /\ WF_vars(ReadRequest \/ NoRequest \/ Dial \/ DialFails \/ WriteUpstream
               \/ WriteUpstreamFails \/ CopyBack \/ CopyBackEnds \/ Refuse \/ Finish)
    /\ WF_vars(PumpEnds)
    /\ WF_vars(patient /\ (HandlerReads \/ UpstreamReads))
    /\ WF_vars(HandlerReturns) /\ WF_vars(UpstreamCloses)
    /\ WF_vars(CloseTimeout)

FairSpec == Spec /\ Fairness

-------------------------------------------------------------------------------
(***************************************************************************)
(* Properties.                                                             *)
(***************************************************************************)

\* A response that was read to its end reached the public client whole: every
\* part of the body the application wrote, through two or four buffers, was
\* copied (the loop writes what came with an error before it looks at it).
NothingLost == complete => got = wrote

\* While the session lives, an answer the application has begun is replaced by a
\* 502 in one case only: an upstream that answers, and closes, before it was sent
\* all of the request, which proxy mode writes first (client/proxy.go:95).  An
\* aborted upload, a full window or a handler that answers early is no such case.
BadGatewayHonest ==
    code = "bad" /\ cut = "no" /\ answer # "none" => mode = "proxy" /\ ~heard

\* The public client reads what it is sent, or leaves.
KeepsReading == []<>(main # "write")

\* Once the request was written, and unless the public client stalls for ever,
\* everything of the exchange ends: forwardHTTP, Serve and proxy mode's goroutine,
\* whether the response was sent, cut off, not wanted or never came.
Released ==
    KeepsReading => (writer = "sent" ~> main = "done" /\ serve = "done" /\ pump # "copy")

\* With a handler, an answer is read although the public client has not
\* finished its upload, and may never do.
AnswerNotBlocked ==
    mode = "handler" /\ main = "read" /\ answer # "none" ~> main # "read"

===============================================================================
