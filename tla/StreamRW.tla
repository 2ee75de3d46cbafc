------------------------------- MODULE StreamRW -------------------------------
(***************************************************************************)
(* Handler mode's end of one stream (client/handler.go): Serve, and the    *)
(* streamRW it hands to the user's http.Handler, which may call it in any  *)
(* order, hijack the stream, return early or panic.                        *)
(*                                                                         *)
(* What has been written is kept as what the server has made of it: of a   *)
(* response, what http.ReadResponse decodes (`stage`, `read`), and of a    *)
(* stream the handler has taken over, plain bytes (`raw`).  One Write is   *)
(* one unit of body.  Every Write flushes, so that only a head can rest in *)
(* bw between two calls.                                                   *)
(*                                                                         *)
(* Left out: other headers, answers to HEAD, and several goroutines that   *)
(* call one streamRW, which http.ResponseWriter forbids.                   *)
(*                                                                         *)
(* A definition marked "Slip" is not the code: it is the next one with a   *)
(* plausible mistake in it, which the named property must catch.           *)
(***************************************************************************)
EXTENDS Naturals

CONSTANT MaxUnits   \* bound on the units a handler writes

ASSUME UnitsAssumption == MaxUnits \in Nat

VARIABLES
    serve,     \* Serve: "request", "handler"; "done", "panicked", or "unserved"
               \* (no request came)
    header,    \* what the handler set: "none", "length" (Content-Length) or
               \* "chunked" (Transfer-Encoding)
    length,    \* the Content-Length it set
    status,    \* streamRW.status: "none" (wroteHeader is false), "final",
               \* "empty" (101, 204 and 304: noBody), "info" (any other 1xx)
    hijacked,  \* streamRW.hijacked
    buffered,  \* the head is in bw and was not flushed
    accepted,  \* history: units Write has reported as written
    stage,     \* the server: "head" (waits for it), "chunks", "counting", "complete"
    read,      \* units of body it has decoded
    garbled,   \* it was sent what cannot come where it stands
    raw,       \* units the handler wrote to the stream it has taken over
    broken     \* the stream was reset, or its session has died

rwVars   == <<header, length, status, hijacked, buffered>>
peerVars == <<stage, read, garbled, raw>>
vars == <<serve, rwVars, accepted, peerVars, broken>>

Code == {"final", "empty", "info"}

TypeOK ==
    /\ serve \in {"request", "handler", "done", "panicked", "unserved"}
    /\ header \in {"none", "length", "chunked"}
    /\ length \in 0 .. MaxUnits
    /\ status \in Code \cup {"none"}
    /\ hijacked \in BOOLEAN
    /\ buffered \in BOOLEAN
    /\ accepted \in 0 .. MaxUnits
    /\ stage \in {"head", "chunks", "counting", "complete"}
    /\ read \in 0 .. MaxUnits
    /\ garbled \in BOOLEAN
    /\ raw \in 0 .. MaxUnits
    /\ broken \in BOOLEAN

Init ==
    /\ serve = "request"
    /\ header = "none" /\ length = 0
    /\ status = "none" /\ hijacked = FALSE /\ buffered = FALSE
    /\ accepted = 0
    /\ stage = "head" /\ read = 0 /\ garbled = FALSE /\ raw = 0
    /\ broken = FALSE

(***************************************************************************)
(* The stream and the server's end.                                        *)
(***************************************************************************)

\* The stream is cut: nothing that is written from now on arrives.
Breaks ==
    /\ ~broken /\ serve \in {"request", "handler"}
    /\ broken' = TRUE
    /\ UNCHANGED <<serve, rwVars, accepted, peerVars>>

\* Slip (FramingAgrees): no chunks unless the handler asks for them.
OnRequest(code) == code # "empty" /\ header = "chunked"
\* WriteHeader's choice of framing: chunks, unless the handler has set one.
Chunked(code) == code # "empty" /\ header = "none"

\* Where http.ReadResponse stands after a head: 1xx, 204 and 304 have no body.
AfterHead(code) ==
    IF code # "final" THEN "complete"
    ELSE IF header = "length"
         THEN IF length = 0 THEN "complete" ELSE "counting"
         ELSE "chunks"

\* A unit comes to a server that stands at `at`, as a chunk or unframed.
UnitArrives(at, chunk) ==
    LET fits == at = (IF chunk THEN "chunks" ELSE "counting")
    IN  /\ read' = (IF fits THEN read + 1 ELSE read)
        /\ stage' = (IF fits /\ ~chunk /\ read + 1 = length THEN "complete" ELSE at)
        /\ garbled' = (garbled \/ ~fits)

(***************************************************************************)
(* Serve's beginning, and the header map before it is written.             *)
(***************************************************************************)

ReadRequest ==
    /\ serve = "request"
    /\ serve' = "handler"
    /\ UNCHANGED <<rwVars, accepted, peerVars, broken>>

\* The stream ends before a request has come: Serve just closes it.
NoRequest ==
    /\ serve = "request"
    /\ serve' = "unserved"
    /\ UNCHANGED <<rwVars, accepted, peerVars, broken>>

\* Header().Set; once the header was written it has no effect.
SetHeader ==
    /\ serve = "handler" /\ status = "none" /\ header = "none"
    /\ \/ header' = "length" /\ length' \in 0 .. MaxUnits
       \/ header' = "chunked" /\ UNCHANGED length
    /\ UNCHANGED <<serve, status, hijacked, buffered, accepted, peerVars, broken>>

(***************************************************************************)
(* The handler's calls.  One that returns at once, on a stream that was    *)
(* taken over or for a body the status forbids, changes nothing.           *)
(***************************************************************************)

\* Slip (HijackedRaw): only wroteHeader is looked at.
Unwritten == status = "none"
MayWriteHeader == status = "none" /\ ~hijacked

WriteHeader(code) ==
    /\ serve = "handler" /\ MayWriteHeader
    /\ status' = code
    /\ buffered' = TRUE
    /\ UNCHANGED <<serve, header, length, hijacked, accepted, peerVars, broken>>

\* Write, Flush and finish call WriteHeader(200) first if nobody has called it.
Status == IF status = "none" THEN "final" ELSE status

\* bw is flushed: where that takes the server.
Flushed == IF (status = "none" \/ buffered) /\ ~broken THEN AfterHead(Status) ELSE stage

Write ==
    /\ serve = "handler" /\ ~hijacked /\ Status # "empty" /\ ~broken
    /\ accepted < MaxUnits
    /\ status' = Status /\ buffered' = FALSE
    /\ accepted' = accepted + 1
    /\ UnitArrives(Flushed, Chunked(Status))
    /\ UNCHANGED <<serve, header, length, hijacked, raw, broken>>

\* On a stream that was cut Write fails, or yamux has not noticed yet.
WriteLost ==
    /\ serve = "handler" /\ ~hijacked /\ Status # "empty" /\ broken
    /\ accepted < MaxUnits
    /\ status' = Status /\ buffered' = FALSE
    /\ accepted' \in {accepted, accepted + 1}
    /\ UNCHANGED <<serve, header, length, hijacked, peerVars, broken>>

Flush ==
    /\ serve = "handler" /\ ~hijacked
    /\ status' = Status /\ buffered' = FALSE
    /\ stage' = Flushed
    /\ UNCHANGED <<serve, header, length, hijacked, accepted, read, garbled, raw, broken>>

\* Slip (ImplementsResponse): a response that has begun is taken.
HijackAnyTime == ~hijacked
MayHijack == ~hijacked /\ status = "none"

\* It flushes bw as well, which is empty by then.
Hijack ==
    /\ serve = "handler" /\ MayHijack
    /\ hijacked' = TRUE
    /\ UNCHANGED <<serve, header, length, status, buffered, accepted, peerVars, broken>>

\* The handler writes to what Hijack gave it; bw is part of that, so what bw
\* held would come along.
WriteRaw ==
    /\ serve = "handler" /\ hijacked /\ ~broken
    /\ raw < MaxUnits
    /\ raw' = raw + 1
    /\ garbled' = (garbled \/ buffered)
    /\ UNCHANGED <<serve, rwVars, accepted, stage, read, broken>>

(***************************************************************************)
(* Serve's end.                                                            *)
(***************************************************************************)

Finishes == ~hijacked

\* finish, and the deferred Close.
Returns ==
    /\ serve = "handler"
    /\ serve' = "done"
    /\ \/ /\ Finishes
          /\ status' = Status /\ buffered' = FALSE
          /\ stage' = (IF Flushed = "chunks" /\ Chunked(Status) /\ ~broken
                       THEN "complete" ELSE Flushed)
          /\ garbled' = (garbled \/ (Flushed # "chunks" /\ Chunked(Status) /\ ~broken))
       \/ ~Finishes /\ UNCHANGED <<status, buffered, stage, garbled>>
    /\ UNCHANGED <<header, length, hijacked, accepted, read, raw, broken>>

\* Slip (TruncationShows): finish is deferred as well.
PanicsFinished ==
    /\ serve = "handler"
    /\ serve' = "panicked"
    /\ stage' = (IF ~broken /\ ~hijacked THEN "complete" ELSE stage)
    /\ UNCHANGED <<rwVars, accepted, read, garbled, raw, broken>>

\* The handler panics: Close runs, finish does not; nobody recovers, and the
\* program ends.
Panics ==
    /\ serve = "handler"
    /\ serve' = "panicked"
    /\ UNCHANGED <<rwVars, accepted, peerVars, broken>>

Next ==
    \/ ReadRequest \/ NoRequest \/ SetHeader
    \/ \E code \in Code : WriteHeader(code)
    \/ Write \/ WriteLost \/ Flush \/ Hijack \/ WriteRaw
    \/ Returns \/ Panics \/ Breaks

Spec == Init /\ [][Next]_vars

-------------------------------------------------------------------------------
(***************************************************************************)
(* Properties.                                                             *)
(***************************************************************************)

\* A handler that leaves framing to streamRW or announces a length it keeps to,
\* and whose status is a final one.
Honest ==
    /\ header # "chunked"
    /\ status # "info"
    /\ header = "length" /\ status = "final" =>
           /\ accepted =< length
           /\ serve = "done" => accepted = length

\* Whatever the order of the calls, the server decodes at any moment exactly what
\* Write has accepted by then (handler.go:88-90, "so streaming works without
\* buffering"), and the whole response once the handler has returned.
FramingAgrees ==
    Honest /\ ~broken /\ ~hijacked =>
        /\ ~garbled
        /\ read = accepted
        /\ serve = "done" => stage = "complete"

\* A response that a panic or a cut has ended too early never looks complete:
\* the last chunk is written by finish alone.
TruncationShows ==
    stage = "complete" =>
        \/ serve = "done"
        \/ status \in {"empty", "info"}
        \/ header = "length" /\ read = length

\* A stream that was taken over carries what the handler writes to it and
\* nothing else: no head, no chunk, no end.
HijackedRaw == hijacked => stage = "head" /\ ~garbled

(***************************************************************************)
(* What the server may rely on: see Response.                              *)
(***************************************************************************)

Seen == INSTANCE Response WITH
    answer <- IF stage = "head" THEN "none" ELSE IF stage = "complete" THEN "end" ELSE "head",
    wrote  <- read,
    junk   <- garbled,
    honest <- Honest,
    taken  <- hijacked,
    shut   <- broken \/ serve \notin {"request", "handler"}

\* Serve and streamRW, whatever the handler calls, send one response or a raw
\* stream and never a mixture; what belongs to neither comes from a handler that
\* broke its own framing, and only after everything the server has decoded.
ImplementsResponse == Seen!Spec
===============================================================================
