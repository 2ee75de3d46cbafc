--------------------------------- MODULE Stats --------------------------------
(***************************************************************************)
(* The statistics of one service (server/stats.go): counters that are      *)
(* added to without a lock, a ring of one-second buckets and a ring of     *)
(* latencies under one mutex, and the snapshots the dashboard takes.       *)
(*                                                                         *)
(* Every caller reads the clock before it asks for the mutex, so inside it *)
(* "now" may be behind the clock and behind what others have written.      *)
(* Bytes in and out, of requests and of upgraded connections, are four     *)
(* counters in the code and one here; the active counts are left out, and  *)
(* the connection state is in Registry.                                    *)
(*                                                                         *)
(* A definition marked "Slip" is not the code: it is the next one with a   *)
(* plausible mistake in it, which the named property must catch.           *)
(***************************************************************************)
EXTENDS Integers, FiniteSets, SequencesExt

CONSTANTS
    Exchange,    \* requests and upgraded connections that run at once
    Ring,        \* rateRingSize
    Samples,     \* latencyRingSize
    Sizes,       \* bytes one call may add
    Latency,     \* latencies, in microseconds
    MaxUsec,     \* 2^32 - 1
    Start,       \* the clock at the beginning
    MaxClock,    \* bound on the clock
    MaxDelay,    \* bound on how far "now" is behind the clock
    MaxCalls     \* bound on the calls that add to the counters

ASSUME RingAssumption ==
    /\ Ring \in Nat \ {0} /\ Samples \in Nat \ {0} /\ MaxUsec \in Nat
    /\ Sizes \subseteq Nat /\ Latency \subseteq Int
    /\ MaxCalls \in Nat

\* A caller waits less than the ring's length for the mutex, and the clock is
\* past the first ring.
ASSUME ClockAssumption ==
    /\ MaxClock \in Nat /\ Start \in 0 .. MaxClock
    /\ MaxDelay \in Nat /\ MaxDelay < Ring
    /\ Start > Ring + MaxDelay

VARIABLES
    clock,         \* the unix second
    pc,            \* exchange -> where it stands between two calls
    size,          \* exchange -> bytes it is about to put into a bucket
    usec,          \* exchange -> its latency
    httpRequests,  \* the counter of that name
    bytes,         \* httpBytesIn + httpBytesOut + wsBytesIn + wsBytesOut
    bucketUnix,    \* the newest second in the ring; 0 before the first call
    rps, bps,      \* slot -> requests, bytes
    latencyRing,   \* slot -> latency
    latencyHead, latencyN,
    snap,          \* what the snapshot being taken has copied
    spc,           \* where Snapshot stands
    log,           \* history: second -> requests and bytes recorded in it
    latest         \* history: the latest latencies, as many as the ring holds

exchangeVars == <<pc, size, usec>>
counterVars  == <<httpRequests, bytes>>
rateVars     == <<bucketUnix, rps, bps>>
latencyVars  == <<latencyRing, latencyHead, latencyN>>
snapVars     == <<snap, spc>>
histVars     == <<log, latest>>
vars == <<clock, exchangeVars, counterVars, rateVars, latencyVars, snapVars, histVars>>

Slot   == 0 .. Ring - 1
Place  == 0 .. Samples - 1
Second == 0 .. MaxClock
Zero   == [requests |-> 0, bytes |-> 0]

TypeOK ==
    /\ clock \in Start .. MaxClock
    /\ pc \in [Exchange -> {"idle", "bytes", "latency", "request", "report"}]
    /\ size \in [Exchange -> Nat]
    /\ usec \in [Exchange -> Int]
    /\ httpRequests \in Nat /\ bytes \in Nat
    /\ bucketUnix \in Second /\ bucketUnix <= clock
    /\ rps \in [Slot -> Nat] /\ bps \in [Slot -> Nat]
    /\ latencyRing \in [Place -> 0 .. MaxUsec]
    /\ latencyHead \in Place
    /\ latencyN \in 0 .. Samples
    /\ spc \in {"idle", "load"}
    /\ log \in [Second -> [requests : Nat, bytes : Nat]]

NoSnap == [at |-> 0, rps |-> << >>, bps |-> << >>, samples |-> << >>]

Init ==
    /\ clock = Start
    /\ pc = [e \in Exchange |-> "idle"]
    /\ size = [e \in Exchange |-> 0]
    /\ usec = [e \in Exchange |-> 0]
    /\ httpRequests = 0 /\ bytes = 0
    /\ bucketUnix = 0
    /\ rps = [i \in Slot |-> 0]
    /\ bps = [i \in Slot |-> 0]
    /\ latencyRing = [i \in Place |-> 0]
    /\ latencyHead = 0 /\ latencyN = 0
    /\ snap = NoSnap /\ spc = "idle"
    /\ log = [s \in Second |-> Zero]
    /\ latest = << >>

(***************************************************************************)
(* The bucket ring.                                                        *)
(***************************************************************************)

\* What a caller that now has the mutex may have read from the clock.
Readings == clock - MaxDelay .. clock

\* Slip (RingIsLog): the bucket of `now` itself is left as it was.
ClearedBefore(now) ==
    IF bucketUnix = 0 THEN {}
    ELSE IF now - bucketUnix >= Ring THEN Slot
    ELSE {s % Ring : s \in bucketUnix + 1 .. now - 1}

\* The slots advanceBucketsLocked zeroes.
Cleared(now) ==
    IF bucketUnix = 0 THEN {}
    ELSE IF now - bucketUnix >= Ring THEN Slot
    ELSE {s % Ring : s \in bucketUnix + 1 .. now}

Swept(ring, now) == [i \in Slot |-> IF i \in Cleared(now) THEN 0 ELSE ring[i]]

NewestWith(now) == IF now > bucketUnix THEN now ELSE bucketUnix

\* bumpBucket, with its entry in the history.
Bump(now, requests, n) ==
    /\ bucketUnix' = NewestWith(now)
    /\ rps' = [Swept(rps, now) EXCEPT ![now % Ring] = @ + requests]
    /\ bps' = [Swept(bps, now) EXCEPT ![now % Ring] = @ + n]
    /\ log' = [log EXCEPT ![now] = [requests |-> @.requests + requests,
                                    bytes |-> @.bytes + n]]

(***************************************************************************)
(* HTTPCompleted and AddWSBytes.                                           *)
(***************************************************************************)

\* Every call adds to a counter first, so the counters bound the calls.
MayCall == httpRequests + bytes < MaxCalls

\* Slip (TotalsCoverWindow): the request is not counted yet.
CompleteUncounted(e, n, l) ==
    /\ pc[e] = "idle" /\ MayCall
    /\ pc' = [pc EXCEPT ![e] = "bytes"]
    /\ size' = [size EXCEPT ![e] = n]
    /\ usec' = [usec EXCEPT ![e] = l]
    /\ bytes' = bytes + n
    /\ UNCHANGED <<clock, httpRequests, rateVars, latencyVars, snapVars, histVars>>

\* HTTPCompleted up to its first bucket: the atomic counters.
Complete(e, n, l) ==
    /\ pc[e] = "idle" /\ MayCall
    /\ pc' = [pc EXCEPT ![e] = "bytes"]
    /\ size' = [size EXCEPT ![e] = n]
    /\ usec' = [usec EXCEPT ![e] = l]
    /\ httpRequests' = httpRequests + 1
    /\ bytes' = bytes + n
    /\ UNCHANGED <<clock, rateVars, latencyVars, snapVars, histVars>>

\* AddHTTPBytes' bucket.
BumpBytes(e, now) ==
    /\ pc[e] = "bytes"
    /\ pc' = [pc EXCEPT ![e] = "latency"]
    /\ Bump(now, 0, size[e])
    /\ size' = [size EXCEPT ![e] = 0]
    /\ UNCHANGED <<clock, usec, counterVars, latencyVars, snapVars, latest>>

Clamped(l) == IF l < 0 THEN 0 ELSE IF l > MaxUsec THEN MaxUsec ELSE l

OneMore(n) == IF n < Samples THEN n + 1 ELSE n

\* The latency ring.
Sample(e) ==
    /\ pc[e] = "latency"
    /\ pc' = [pc EXCEPT ![e] = "request"]
    /\ latencyRing' = [latencyRing EXCEPT ![latencyHead] = Clamped(usec[e])]
    /\ latencyHead' = (latencyHead + 1) % Samples
    /\ latencyN' = OneMore(latencyN)
    /\ usec' = [usec EXCEPT ![e] = 0]
    /\ latest' = LET xs == Append(latest, Clamped(usec[e]))
                 IN  IF Len(xs) > Samples THEN Tail(xs) ELSE xs
    /\ UNCHANGED <<clock, size, counterVars, rateVars, snapVars, log>>

\* HTTPCompleted's last call.
BumpRequest(e, now) ==
    /\ pc[e] = "request"
    /\ pc' = [pc EXCEPT ![e] = "idle"]
    /\ Bump(now, 1, 0)
    /\ UNCHANGED <<clock, size, usec, counterVars, latencyVars, snapVars, latest>>

\* AddWSBytes: the counters, then the bucket.
Report(e, n) ==
    /\ pc[e] = "idle" /\ MayCall
    /\ pc' = [pc EXCEPT ![e] = "report"]
    /\ size' = [size EXCEPT ![e] = n]
    /\ bytes' = bytes + n
    /\ UNCHANGED <<clock, usec, httpRequests, rateVars, latencyVars, snapVars, histVars>>

BumpReport(e, now) ==
    /\ pc[e] = "report"
    /\ pc' = [pc EXCEPT ![e] = "idle"]
    /\ Bump(now, 0, size[e])
    /\ size' = [size EXCEPT ![e] = 0]
    /\ UNCHANGED <<clock, usec, counterVars, latencyVars, snapVars, latest>>

(***************************************************************************)
(* Snapshot.                                                               *)
(***************************************************************************)

\* Slip (SnapshotIsWindow): the sequence ends a second too early.
EmittedEarly(ring, now) == [i \in 1 .. Ring |-> ring[(now - Ring + i - 1) % Ring]]

\* The ring as a sequence of seconds that ends with `now`.
Emitted(ring, now) == [i \in 1 .. Ring |-> ring[(now - Ring + i) % Ring]]

\* Slip (PercentilesOfLatest): the whole ring, filled or not.
WholeRing == [i \in 1 .. Samples |-> latencyRing[i - 1]]
Filled == [i \in 1 .. latencyN |-> latencyRing[i - 1]]

\* sort.Slice.
Sorted(xs) ==
    LET order == CHOOSE p \in Bijection(DOMAIN xs, DOMAIN xs) :
                    \A i, j \in DOMAIN xs : i < j => xs[p[i]] <= xs[p[j]]
    IN  [i \in DOMAIN xs |-> xs[order[i]]]

\* percentiles, for p hundredths.
Percentile(xs, p) ==
    IF xs = << >> THEN 0
    ELSE Sorted(xs)[((Len(xs) - 1) * p) \div 100 + 1]

\* Under the mutex.
SnapCopy(now) ==
    /\ spc = "idle"
    /\ spc' = "load"
    /\ bucketUnix' = NewestWith(now)
    /\ rps' = Swept(rps, now)
    /\ bps' = Swept(bps, now)
    /\ snap' = [at |-> now, rps |-> Emitted(rps', now), bps |-> Emitted(bps', now),
                samples |-> Filled]
    /\ UNCHANGED <<clock, exchangeVars, counterVars, latencyVars, histVars>>

\* After it: percentiles of the copy, and the atomic counters.
Returned ==
    [rps60 |-> snap.rps, bps60 |-> snap.bps,
     p50 |-> Percentile(snap.samples, 50),
     p95 |-> Percentile(snap.samples, 95),
     p99 |-> Percentile(snap.samples, 99),
     requests |-> httpRequests, bytes |-> bytes]

\* Snapshot returns Returned.
SnapLoad ==
    /\ spc = "load"
    /\ spc' = "idle"
    /\ snap' = NoSnap
    /\ UNCHANGED <<clock, exchangeVars, counterVars, rateVars, latencyVars, histVars>>

Tick ==
    /\ clock < MaxClock
    /\ clock' = clock + 1
    /\ UNCHANGED <<exchangeVars, counterVars, rateVars, latencyVars, snapVars, histVars>>

Http(e) ==
    \/ \E n \in Sizes, l \in Latency : Complete(e, n, l)
    \/ Sample(e)
    \/ \E now \in Readings : BumpBytes(e, now) \/ BumpRequest(e, now)

Upgraded(e) ==
    \/ \E n \in Sizes : Report(e, n)
    \/ \E now \in Readings : BumpReport(e, now)

Next ==
    \/ \E e \in Exchange : Http(e) \/ Upgraded(e)
    \/ \E now \in Readings : SnapCopy(now)
    \/ SnapLoad
    \/ Tick

Spec == Init /\ [][Next]_vars

-------------------------------------------------------------------------------
(***************************************************************************)
(* Properties.                                                             *)
(***************************************************************************)

\* Whatever order callers get the mutex in, and however late, the ring holds
\* for each of the last seconds exactly what was recorded in it: no bucket
\* keeps what it held a ring ago, and none loses what a late caller added.
RingIsLog ==
    bucketUnix # 0 =>
        \A s \in bucketUnix - Ring + 1 .. bucketUnix :
            /\ rps[s % Ring] = log[s].requests
            /\ bps[s % Ring] = log[s].bytes

\* "last 60 seconds, oldest first" (StatsSnapshot): each entry is what was
\* recorded in its second.  A snapshot with an old `now` begins with seconds
\* whose buckets were taken over by newer ones; those are not spoken of.
SnapshotIsWindow ==
    [][spc = "idle" /\ spc' = "load" =>
        \A i \in 1 .. Ring : LET s == snap'.at - Ring + i IN
            s > bucketUnix' - Ring =>
                /\ snap'.rps[i] = log[s].requests
                /\ snap'.bps[i] = log[s].bytes]_vars

Sum(xs) == FoldLeft(+, 0, xs)

\* A snapshot's totals, read after its buckets without the mutex, are never
\* less than what the buckets add up to: counters are added to first.
TotalsCoverWindow ==
    spc = "load" =>
        /\ Returned.requests >= Sum(Returned.rps60)
        /\ Returned.bytes >= Sum(Returned.bps60)

\* v is what at most p hundredths of the latencies xs are below.
IsPercentile(v, xs, p) ==
    LET rank == ((Len(xs) - 1) * p) \div 100
    IN  /\ Cardinality({i \in DOMAIN xs : xs[i] < v}) <= rank
        /\ Cardinality({i \in DOMAIN xs : xs[i] <= v}) > rank

\* Percentiles are those of the latest requests: the ring forgets the oldest
\* and a snapshot uses no place that was never filled.
PercentilesOfLatest ==
    [][spc = "idle" /\ spc' = "load" /\ latest # << >> =>
        /\ IsPercentile(Returned'.p50, latest, 50)
        /\ IsPercentile(Returned'.p95, latest, 95)
        /\ IsPercentile(Returned'.p99, latest, 99)]_vars
===============================================================================
