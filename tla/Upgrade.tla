-------------------------------- MODULE Upgrade --------------------------------
(***************************************************************************)
(* One upgraded exchange (forwardUpgrade in server/proxy.go): the request  *)
(* handler, the goroutine that publishes byte counts every second, and the *)
(* two pumps that copy bytes between the public connection and the yamux   *)
(* stream.  Exchanges share nothing but the additive counters of Stats, so *)
(* one is enough.                                                          *)
(*                                                                         *)
(* Direction "up" is public -> stream (counter.written, wsBytesIn), "down" *)
(* is stream -> public (counter.read, wsBytesOut).  The two atomics of a   *)
(* direction are independent of the other direction's, so loading or       *)
(* storing both is one step.                                               *)
(*                                                                         *)
(* A definition marked "Slip" is not the code: it is the next one with a   *)
(* plausible mistake in it, which the named property must catch.           *)
(***************************************************************************)
EXTENDS Naturals

CONSTANT MaxUnits  \* bound on the units each direction carries

ASSUME MaxUnitsAssumption == MaxUnits \in Nat

Dir == {"up", "down"}

\* The two goroutines that publish counts.
Reporter == {"main", "ticker"}

VARIABLES
    main,       \* where the request handler stands
    ticker,     \* where the ticker goroutine stands
    pump,       \* direction -> where its pump stands
    tokens,     \* values buffered in the channel `done`, of capacity 2
    doneClosed, \* close(done) has run
    taken,      \* reporter -> values it received from `done`
    conns,      \* of "public" and "stream", those not closed by this side
    cnt,        \* direction -> its atomic counter in `counter`
    moved,      \* direction -> units really carried (history)
    sample,     \* reporter -> direction -> the counter value it loaded
    stat,       \* direction -> Stats.wsBytesIn / wsBytesOut
    wsActive    \* Stats.wsActive

chanVars == <<tokens, doneClosed, taken>>
byteVars == <<cnt, moved, sample, stat>>
vars == <<main, ticker, pump, chanVars, conns, byteVars, wsActive>>

TypeOK ==
    /\ main \in {"open", "write", "hijack", "start", "receive", "sample",
                 "publish", "reset", "end", "close", "returned", "failed"}
    /\ ticker \in {"off", "select", "publish", "reset", "gone"}
    /\ pump \in [Dir -> {"off", "copy", "send", "closeStream", "closePublic", "gone"}]
    /\ tokens \in 0 .. 2
    /\ doneClosed \in BOOLEAN
    /\ taken \in [Reporter -> 0 .. 2]
    /\ conns \subseteq {"public", "stream"}
    /\ cnt \in [Dir -> Nat]
    /\ moved \in [Dir -> Nat]
    /\ sample \in [Reporter -> [Dir -> Nat]]
    /\ stat \in [Dir -> Nat]
    /\ wsActive \in 0 .. 1

Zero == [d \in Dir |-> 0]

Init ==
    /\ main = "open"
    /\ ticker = "off"
    /\ pump = [d \in Dir |-> "off"]
    /\ tokens = 0
    /\ doneClosed = FALSE
    /\ taken = [a \in Reporter |-> 0]
    /\ conns = {"public"}
    /\ cnt = Zero
    /\ moved = Zero
    /\ sample = [a \in Reporter |-> Zero]
    /\ stat = Zero
    /\ wsActive = 0

(***************************************************************************)
(* The handler, up to the pumps.                                           *)
(***************************************************************************)

\* OpenStream, or 502; without a Hijacker it is 500 and nothing was opened.
OpenStream ==
    /\ main = "open"
    /\ \/ main' = "write" /\ conns' = conns \cup {"stream"}
       \/ main' = "failed" /\ UNCHANGED conns
    /\ UNCHANGED <<ticker, pump, chanVars, byteVars, wsActive>>

\* r.Write: the request itself is counted as bytes up.
WriteRequest ==
    /\ main = "write"
    /\ \/ /\ main' = "hijack"
          /\ cnt' = [cnt EXCEPT !["up"] = @ + 1]
          /\ moved' = [moved EXCEPT !["up"] = @ + 1]
          /\ UNCHANGED conns
       \/ /\ main' = "failed"
          /\ conns' = conns \ {"stream"}
          /\ UNCHANGED <<cnt, moved>>
    /\ UNCHANGED <<ticker, pump, chanVars, sample, stat, wsActive>>

Hijack ==
    /\ main = "hijack"
    /\ \/ main' = "start" /\ UNCHANGED conns
       \/ main' = "failed" /\ conns' = conns \ {"stream"}
    /\ UNCHANGED <<ticker, pump, chanVars, byteVars, wsActive>>

\* WSStart, the ticker and both pumps.
Start ==
    /\ main = "start"
    /\ main' = "receive"
    /\ ticker' = "select"
    /\ pump' = [d \in Dir |-> "copy"]
    /\ wsActive' = wsActive + 1
    /\ UNCHANGED <<chanVars, conns, byteVars>>

(***************************************************************************)
(* The pumps.  Their deferred calls run in the order: send on done, close  *)
(* the stream, close the public connection.                                *)
(***************************************************************************)

\* One Read or Write of the counted stream.  A locally closed yamux stream
\* still delivers what the peer sends.
Copy(d) ==
    /\ pump[d] = "copy"
    /\ d = "up" => "stream" \in conns
    /\ moved[d] < MaxUnits
    /\ moved' = [moved EXCEPT ![d] = @ + 1]
    /\ cnt' = [cnt EXCEPT ![d] = @ + 1]
    /\ UNCHANGED <<main, ticker, pump, chanVars, conns, sample, stat, wsActive>>

\* End of file or an error on either side: a peer stopped, or the other pump
\* closed its connections.
CopyEnds(d) ==
    /\ pump[d] = "copy"
    /\ pump' = [pump EXCEPT ![d] = "send"]
    /\ UNCHANGED <<main, ticker, chanVars, conns, byteVars, wsActive>>

\* `done <- struct{}{}`: it blocks when the buffer is full.
SendDone(d) ==
    /\ pump[d] = "send"
    /\ tokens < 2
    /\ tokens' = tokens + 1
    /\ pump' = [pump EXCEPT ![d] = "closeStream"]
    /\ UNCHANGED <<main, ticker, doneClosed, taken, conns, byteVars, wsActive>>

\* Slip (TornDown): the deferred close is forgotten.
StreamLeftOpen(d) ==
    /\ pump[d] = "closeStream"
    /\ pump' = [pump EXCEPT ![d] = "closePublic"]
    /\ UNCHANGED <<main, ticker, chanVars, conns, byteVars, wsActive>>

CloseStream(d) ==
    /\ pump[d] = "closeStream"
    /\ conns' = conns \ {"stream"}
    /\ pump' = [pump EXCEPT ![d] = "closePublic"]
    /\ UNCHANGED <<main, ticker, chanVars, byteVars, wsActive>>

ClosePublic(d) ==
    /\ pump[d] = "closePublic"
    /\ conns' = conns \ {"public"}
    /\ pump' = [pump EXCEPT ![d] = "gone"]
    /\ UNCHANGED <<main, ticker, chanVars, byteVars, wsActive>>

(***************************************************************************)
(* Reporting: load the counters, add them to Stats, reset them.            *)
(***************************************************************************)

Load(a) ==
    /\ sample' = [sample EXCEPT ![a] = cnt]
    /\ UNCHANGED <<cnt, moved, stat>>

AddWSBytes(a) ==
    /\ stat' = [d \in Dir |-> stat[d] + sample[a][d]]
    /\ sample' = [sample EXCEPT ![a] = Zero]
    /\ UNCHANGED <<cnt, moved>>

\* Slip (NeverOverReported): the counters keep growing.
CountersKept == UNCHANGED byteVars
ResetCounters ==
    /\ cnt' = Zero
    /\ UNCHANGED <<moved, sample, stat>>

\* case <-tick.C
TickLoad ==
    /\ ticker = "select"
    /\ ticker' = "publish"
    /\ Load("ticker")
    /\ UNCHANGED <<main, pump, chanVars, conns, wsActive>>

TickAdd ==
    /\ ticker = "publish"
    /\ ticker' = "reset"
    /\ AddWSBytes("ticker")
    /\ UNCHANGED <<main, pump, chanVars, conns, wsActive>>

TickReset ==
    /\ ticker = "reset"
    /\ ticker' = "select"
    /\ ResetCounters
    /\ UNCHANGED <<main, pump, chanVars, conns, wsActive>>

\* A receive from `done` by reporter a: a buffered value, or the close.
Receive(a) ==
    /\ \/ tokens > 0 /\ tokens' = tokens - 1
                     /\ taken' = [taken EXCEPT ![a] = @ + 1]
       \/ tokens = 0 /\ doneClosed /\ UNCHANGED <<tokens, taken>>
    /\ UNCHANGED doneClosed

\* case <-done in the ticker: it also consumes a pump's value.
TickerStops ==
    /\ ticker = "select"
    /\ Receive("ticker")
    /\ ticker' = "gone"
    /\ UNCHANGED <<main, pump, conns, byteVars, wsActive>>

\* Slip (SendsAreSafe): the first pump's end is enough.
EnoughAfterOne == "sample"
AfterReceive == IF taken["main"] = 1 THEN "sample" ELSE "receive"

\* `<-done`, twice.
AwaitPump ==
    /\ main = "receive"
    /\ Receive("main")
    /\ main' = AfterReceive
    /\ UNCHANGED <<ticker, pump, conns, byteVars, wsActive>>

FinalLoad ==
    /\ main = "sample"
    /\ main' = "publish"
    /\ Load("main")
    /\ UNCHANGED <<ticker, pump, chanVars, conns, wsActive>>

FinalAdd ==
    /\ main = "publish"
    /\ main' = "reset"
    /\ AddWSBytes("main")
    /\ UNCHANGED <<ticker, pump, chanVars, conns, wsActive>>

FinalReset ==
    /\ main = "reset"
    /\ main' = "end"
    /\ ResetCounters
    /\ UNCHANGED <<ticker, pump, chanVars, conns, wsActive>>

WSEnd ==
    /\ main = "end"
    /\ main' = "close"
    /\ wsActive' = wsActive - 1
    /\ UNCHANGED <<ticker, pump, chanVars, conns, byteVars>>

CloseDone ==
    /\ main = "close"
    /\ main' = "returned"
    /\ doneClosed' = TRUE
    /\ UNCHANGED <<ticker, pump, tokens, taken, conns, byteVars, wsActive>>

-------------------------------------------------------------------------------

Main ==
    \/ OpenStream \/ WriteRequest \/ Hijack \/ Start \/ AwaitPump
    \/ FinalLoad \/ FinalAdd \/ FinalReset \/ WSEnd \/ CloseDone

Ticker == TickLoad \/ TickAdd \/ TickReset \/ TickerStops

\* What a pump does once its copy is over.
PumpEnds(d) == SendDone(d) \/ CloseStream(d) \/ ClosePublic(d)

Next == Main \/ Ticker \/ \E d \in Dir : Copy(d) \/ CopyEnds(d) \/ PumpEnds(d)

Spec == Init /\ [][Next]_vars

\* Locally closed connections make the other copy end: the public one at once,
\* the stream when the peer answers the close or yamux's StreamCloseTimeout
\* resets it.
Severed(d) == conns = {} /\ CopyEnds(d)

\* Goroutines that can run do run.  The ticker's select is taken once a second
\* and chooses fairly among ready cases, so a lasting `done` is chosen in the
\* end.  Nothing makes a peer stop, or speak.
Fairness ==
    /\ WF_vars(Main)
    /\ WF_vars(TickAdd \/ TickReset)
    /\ SF_vars(TickerStops)
    /\ \A d \in Dir : WF_vars(PumpEnds(d)) /\ WF_vars(Severed(d))

FairSpec == Spec /\ Fairness

-------------------------------------------------------------------------------
(***************************************************************************)
(* Properties.                                                             *)
(***************************************************************************)

\* A pump about to report its end neither blocks on a full channel nor panics
\* on a closed one, although three receivers share it and one of them closes it
\* (make(chan struct{}, 2) and the final close(done)).
SendsAreSafe ==
    \A d \in Dir : pump[d] = "send" => tokens < 2 /\ ~doneClosed

Ended(d) == pump[d] \notin {"off", "copy"}

Finalizing == main \in {"publish", "reset", "end", "close", "returned"}

\* Until the handler makes its final report, and outside the ticker's own
\* add-then-reset, no unit is shown twice: what Stats and the live counter hold
\* together is at most what was carried.
NeverOverReported ==
    ~Finalizing /\ ticker # "reset" =>
        \A d \in Dir : stat[d] + cnt[d] <= moved[d]

\* When either side stops, both connections are closed and both pumps and the
\* ticker's goroutine end, whichever of the two values on `done` the ticker and
\* the handler take, and in whatever state the handler is.
TornDown ==
    (\E d \in Dir : Ended(d)) ~>
        conns = {} /\ ticker = "gone" /\ \A d \in Dir : pump[d] = "gone"

\* proxy.go:154: "Wait for both directions to terminate, then finalize
\* counters."  The ticker receives from the same channel, so the handler may
\* wait for a value that was already taken.
CountersFinalized == (\A d \in Dir : pump[d] = "gone") ~> main = "returned"

===============================================================================
