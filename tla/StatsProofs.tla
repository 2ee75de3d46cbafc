----------------------------- MODULE StatsProofs ------------------------------
(***************************************************************************)
(* The buckets hold what happened in the last seconds, a snapshot shows    *)
(* them, its totals cover them, and its percentiles are those of the       *)
(* latest latencies: for rings of any length and any number of callers.    *)
(*                                                                         *)
(* The ring: two seconds share a slot only when they are a ring apart      *)
(* (SlotOnce), so a sweep clears none of the seconds that stay, and an     *)
(* addition touches one of them.  The totals: the counters are ahead of    *)
(* the buckets by what is under way (CountersAhead), a statement about     *)
(* sums, which Induction is for.  The percentiles: the latency ring is the *)
(* history in another order (LatestInRing), and a percentile does not      *)
(* depend on the order (PercentileIs), since every sequence can be sorted  *)
(* (OrderExists).                                                          *)
(***************************************************************************)
EXTENDS Stats, FiniteSetTheorems, SequenceTheorems, WellFoundedInduction, TLAPS

\* Nothing is recorded ahead of the newest second, nor before the first call,
\* and the ring has left the seconds before the clock started far behind.
NothingAhead ==
    /\ bucketUnix # 0 => bucketUnix > Ring
    /\ \A s \in Second : s > bucketUnix => log[s] = Zero
    /\ bucketUnix = 0 => \A s \in Second : log[s] = Zero
    /\ bucketUnix = 0 => \A i \in Slot : rps[i] = 0 /\ bps[i] = 0

IInv == TypeOK /\ RingIsLog /\ NothingAhead

USE DEF exchangeVars, counterVars, rateVars, latencyVars, snapVars, histVars

-------------------------------------------------------------------------------
LEMMA Positive == ASSUME NEW n \in Nat \ {0}, NEW k \in Int, k >= 1  PROVE n * k >= n
  OBVIOUS

LEMMA Divide ==
    ASSUME NEW n \in Nat \ {0}, NEW s \in Int
    PROVE  s % n \in 0 .. n - 1 /\ s = n * (s \div n) + (s % n)
  OBVIOUS

\* Two different seconds in one slot are at least a ring apart.
LEMMA SlotOnce ==
    ASSUME NEW n \in Nat \ {0}, NEW s \in Int, NEW t \in Int, s < t, s % n = t % n
    PROVE  t - s >= n
  <1> DEFINE a == s \div n
             b == t \div n
  <1>1. s = n * a + (s % n) /\ t = n * b + (t % n)
    BY Divide
  <1>2. a \in Int /\ b \in Int /\ n * a \in Int /\ n * b \in Int
    OBVIOUS
  <1> HIDE DEF a, b
  <1>3. n * (b - a) = n * b - n * a
    BY <1>2
  <1>4. n * (b - a) = t - s
    BY <1>1, <1>2, <1>3
  <1>5. b - a >= 1
    BY <1>2, <1>4
  <1> QED
    BY <1>2, <1>4, <1>5, Positive

LEMMA SlotOf == \A s \in Int : s % Ring \in Slot
  BY Divide, RingAssumption DEF Slot

\* What a caller takes for now is a second past the first ring.
LEMMA ReadingsPast ==
    ASSUME TypeOK, NEW now \in Readings
    PROVE  now \in Second /\ now > Ring /\ now <= clock /\ now + Ring > clock /\ now # 0
  BY RingAssumption, ClockAssumption DEF TypeOK, Readings, Second

\* advanceBucketsLocked leaves the ring exact up to the new newest second.
LEMMA SweptIsLog ==
    ASSUME IInv, NEW now \in Readings,
           NEW s \in NewestWith(now) - Ring + 1 .. NewestWith(now)
    PROVE  /\ s \in Second
           /\ Swept(rps, now)[s % Ring] = log[s].requests
           /\ Swept(bps, now)[s % Ring] = log[s].bytes
  <1> USE RingAssumption, ClockAssumption
  <1>1. now \in Second /\ now > Ring /\ now <= clock /\ now + Ring > clock
    BY ReadingsPast DEF IInv
  <1>2. bucketUnix \in Second /\ bucketUnix <= clock /\ clock \in Second
    BY DEF IInv, TypeOK, Second
  <1>3. NewestWith(now) \in Second /\ NewestWith(now) > Ring
    BY <1>1, <1>2 DEF NewestWith, Second
  <1>4. s \in Second
    BY <1>3 DEF Second
  <1>5. s % Ring \in Slot
    BY <1>4, SlotOf DEF Second
  <1>6. CASE bucketUnix = 0
    <2>1. log[s] = Zero /\ rps[s % Ring] = 0 /\ bps[s % Ring] = 0
      BY <1>4, <1>5, <1>6 DEF IInv, NothingAhead
    <2>2. Cleared(now) = {}
      BY <1>6 DEF Cleared
    <2> QED
      BY <1>4, <1>5, <2>1, <2>2 DEF Swept, Zero
  <1>7. CASE bucketUnix # 0 /\ s > bucketUnix
    <2>1. log[s] = Zero
      BY <1>4, <1>7 DEF IInv, NothingAhead
    <2>2. s \in bucketUnix + 1 .. now
      BY <1>1, <1>2, <1>4, <1>7 DEF NewestWith, Second
    <2>3. s % Ring \in Cleared(now)
      BY <1>5, <1>7, <2>2 DEF Cleared
    <2> QED
      BY <1>4, <1>5, <2>1, <2>3 DEF Swept, Zero
  <1>8. CASE bucketUnix # 0 /\ s <= bucketUnix
    <2>1. s \in bucketUnix - Ring + 1 .. bucketUnix
      BY <1>1, <1>2, <1>4, <1>8 DEF NewestWith, Second
    <2>2. rps[s % Ring] = log[s].requests /\ bps[s % Ring] = log[s].bytes
      BY <1>8, <2>1 DEF IInv, RingIsLog
    <2>3. now - bucketUnix < Ring
      BY <1>1, <1>2, <1>4, <1>8 DEF NewestWith, Second
    <2>4. \A t \in bucketUnix + 1 .. now : t % Ring # s % Ring
      <3> SUFFICES ASSUME NEW t \in bucketUnix + 1 .. now, t % Ring = s % Ring
                   PROVE  FALSE
        OBVIOUS
      <3>1. t \in Int /\ s \in Int /\ s < t
        BY <1>1, <1>2, <1>4, <1>8 DEF Second
      <3>2. t - s >= Ring
        BY <3>1, SlotOnce
      <3> QED
        BY <1>1, <1>2, <1>4, <1>8, <3>1, <3>2 DEF NewestWith, Second
    <2>5. s % Ring \notin Cleared(now)
      <3>1. ~(now - bucketUnix >= Ring)
        BY <1>1, <1>2, <2>3 DEF Second
      <3>2. Cleared(now) = {t % Ring : t \in bucketUnix + 1 .. now}
        BY <1>8, <3>1 DEF Cleared
      <3> QED
        BY <2>4, <3>2
    <2> QED
      BY <1>4, <1>5, <2>2, <2>5 DEF Swept
  <1> QED
    BY <1>2, <1>4, <1>6, <1>7, <1>8 DEF Second

-------------------------------------------------------------------------------
LEMMA SweptTypes ==
    ASSUME IInv, NEW now \in Readings
    PROVE  /\ NewestWith(now) \in Second /\ NewestWith(now) <= clock
           /\ NewestWith(now) > Ring /\ now <= NewestWith(now)
           /\ bucketUnix <= NewestWith(now)
           /\ Swept(rps, now) \in [Slot -> Nat] /\ Swept(bps, now) \in [Slot -> Nat]
  <1>1. now \in Second /\ now > Ring /\ now <= clock
    BY ReadingsPast DEF IInv
  <1>2. bucketUnix \in Second /\ bucketUnix <= clock /\ clock \in Int
    BY ClockAssumption DEF IInv, TypeOK, Second
  <1>3. bucketUnix # 0 => bucketUnix > Ring
    BY DEF IInv, NothingAhead
  <1>4. Swept(rps, now) \in [Slot -> Nat] /\ Swept(bps, now) \in [Slot -> Nat]
    BY DEF IInv, TypeOK, Swept
  <1> QED
    BY <1>1, <1>2, <1>3, <1>4, RingAssumption, ClockAssumption DEF NewestWith, Second

\* bumpBucket, called with any reading.
LEMMA BumpKeeps ==
    ASSUME IInv, NEW now \in Readings, NEW r \in Nat, NEW n \in Nat, Bump(now, r, n)
    PROVE  /\ RingIsLog' /\ NothingAhead'
           /\ bucketUnix' \in Second /\ bucketUnix' <= clock
           /\ rps' \in [Slot -> Nat] /\ bps' \in [Slot -> Nat]
           /\ log' \in [Second -> [requests : Nat, bytes : Nat]]
  <1>1. now \in Second /\ now > Ring /\ now <= clock /\ now + Ring > clock /\ now # 0
    BY ReadingsPast DEF IInv
  <1>2. now % Ring \in Slot
    BY <1>1, SlotOf DEF Second
  <1>3. log \in [Second -> [requests : Nat, bytes : Nat]] /\ clock \in Int
    BY ClockAssumption DEF IInv, TypeOK
  <1>4. bucketUnix' = NewestWith(now)
    BY DEF Bump
  <1>5. /\ rps' \in [Slot -> Nat] /\ bps' \in [Slot -> Nat]
        /\ rps' = [Swept(rps, now) EXCEPT ![now % Ring] = @ + r]
        /\ bps' = [Swept(bps, now) EXCEPT ![now % Ring] = @ + n]
    BY <1>2, SweptTypes DEF Bump
  <1>6. /\ log' \in [Second -> [requests : Nat, bytes : Nat]]
        /\ log'[now] = [requests |-> log[now].requests + r, bytes |-> log[now].bytes + n]
        /\ \A s \in Second : s # now => log'[s] = log[s]
    BY <1>1, <1>3 DEF Bump
  <1>7. RingIsLog'
    <2> SUFFICES ASSUME NEW s \in NewestWith(now) - Ring + 1 .. NewestWith(now)
                 PROVE  rps'[s % Ring] = log'[s].requests /\ bps'[s % Ring] = log'[s].bytes
      BY <1>4 DEF RingIsLog
    <2>1. /\ s \in Second
          /\ Swept(rps, now)[s % Ring] = log[s].requests
          /\ Swept(bps, now)[s % Ring] = log[s].bytes
      BY SweptIsLog
    <2>2. s % Ring \in Slot
      BY <2>1, SlotOf DEF Second
    <2>3. CASE s = now
      BY <1>2, <1>3, <1>5, <1>6, <2>1, <2>3, SweptTypes
    <2>4. CASE s # now
      <3>1. s % Ring # now % Ring
        <4> SUFFICES ASSUME s % Ring = now % Ring  PROVE FALSE
          OBVIOUS
        <4>1. s \in Int /\ now \in Int
          BY <1>1, <2>1 DEF Second
        <4>2. s < now => now - s >= Ring
          BY <4>1, SlotOnce, RingAssumption
        <4>3. now < s => s - now >= Ring
          BY <4>1, SlotOnce, RingAssumption
        <4>4. s <= clock /\ now <= NewestWith(now)
          BY <1>3, <2>1, SweptTypes DEF Second
        <4> QED
          BY <1>1, <1>3, <2>4, <4>1, <4>2, <4>3, <4>4, SweptTypes, RingAssumption DEF Second
      <3> QED
        BY <1>2, <1>5, <1>6, <2>1, <2>2, <2>4, <3>1, SweptTypes
    <2> QED
      BY <2>3, <2>4
  <1>8. NothingAhead'
    <2>1. bucketUnix' # 0 /\ bucketUnix' > Ring
      BY <1>4, SweptTypes, RingAssumption DEF Second
    <2>2. ASSUME NEW s \in Second, s > bucketUnix'  PROVE log'[s] = Zero
      <3>1. s # now /\ s > bucketUnix
        BY <1>1, <1>4, <2>2, SweptTypes DEF Second, IInv, TypeOK
      <3> QED
        BY <1>6, <3>1 DEF IInv, NothingAhead
    <2> QED
      BY <2>1, <2>2 DEF NothingAhead
  <1> QED
    BY <1>4, <1>5, <1>6, <1>7, <1>8, SweptTypes

\* Snapshot advances the ring and records nothing.
LEMMA CopyKeeps ==
    ASSUME IInv, NEW now \in Readings, SnapCopy(now)
    PROVE  RingIsLog' /\ NothingAhead'
  <1>1. bucketUnix' = NewestWith(now) /\ log' = log
        /\ rps' = Swept(rps, now) /\ bps' = Swept(bps, now)
    BY DEF SnapCopy
  <1>2. RingIsLog'
    BY <1>1, SweptIsLog DEF RingIsLog
  <1>3. bucketUnix' # 0 /\ bucketUnix' > Ring
    BY <1>1, SweptTypes, RingAssumption DEF Second
  <1>4. \A s \in Second : s > bucketUnix' => s > bucketUnix
    BY <1>1, SweptTypes DEF Second, IInv, TypeOK
  <1> QED
    BY <1>1, <1>2, <1>3, <1>4 DEF IInv, NothingAhead

-------------------------------------------------------------------------------
LEMMA InitIInv == Init => IInv
  BY RingAssumption, ClockAssumption
     DEF Init, IInv, TypeOK, RingIsLog, NothingAhead, Second, Slot, Place, Zero

\* What leaves the ring and the history alone keeps what relates them.
LEMMA RingKept ==
    ASSUME IInv, UNCHANGED <<rateVars, log>>
    PROVE  RingIsLog' /\ NothingAhead'
  BY DEF IInv, RingIsLog, NothingAhead

LEMMA SampleTypes ==
    ASSUME TypeOK, NEW e \in Exchange, Sample(e)
    PROVE  TypeOK'
  <1>1. latencyHead' \in Place
    <2>1. latencyHead + 1 \in Int
      BY DEF TypeOK, Place
    <2>2. (latencyHead + 1) % Samples \in Place
      BY <2>1, RingAssumption, Divide DEF Place
    <2> QED
      BY <2>2 DEF Sample
  <1>2. latencyRing' \in [Place -> 0 .. MaxUsec]
    <2>1. Clamped(usec[e]) \in 0 .. MaxUsec
      BY RingAssumption DEF TypeOK, Clamped
    <2> QED
      BY <2>1 DEF Sample, TypeOK
  <1>3. latencyN' \in 0 .. Samples
    <2>1. OneMore(latencyN) \in 0 .. Samples
      BY RingAssumption DEF TypeOK, OneMore
    <2> QED
      BY <2>1 DEF Sample
  <1>4. pc' = [pc EXCEPT ![e] = "request"] /\ usec' = [usec EXCEPT ![e] = 0]
        /\ UNCHANGED <<clock, size, counterVars, rateVars, snapVars, log>>
    BY DEF Sample
  <1> QED
    BY <1>1, <1>2, <1>3, <1>4 DEF TypeOK

LEMMA IInvStep == IInv /\ [Next]_vars => IInv'
  <1> SUFFICES ASSUME IInv, [Next]_vars  PROVE IInv'
    OBVIOUS
  <1>0. TypeOK /\ Sizes \subseteq Nat /\ Latency \subseteq Int
    BY RingAssumption DEF IInv
  <1>1. ASSUME NEW e \in Exchange, NEW n \in Sizes, NEW l \in Latency, Complete(e, n, l)
        PROVE  IInv'
    <2>1. TypeOK'
      BY <1>0, <1>1 DEF Complete, TypeOK
    <2> QED
      BY <1>1, <2>1, RingKept DEF Complete, IInv
  <1>2. ASSUME NEW e \in Exchange, NEW now \in Readings, BumpBytes(e, now)  PROVE IInv'
    <2>1. /\ RingIsLog' /\ NothingAhead' /\ bucketUnix' \in Second /\ bucketUnix' <= clock
          /\ rps' \in [Slot -> Nat] /\ bps' \in [Slot -> Nat]
          /\ log' \in [Second -> [requests : Nat, bytes : Nat]]
      <3>1. PICK r \in Nat, n \in Nat : Bump(now, r, n)
        BY <1>0, <1>2 DEF BumpBytes, TypeOK
      <3> QED
        BY <3>1, BumpKeeps
    <2>2. TypeOK'
      BY <1>0, <1>2, <2>1 DEF BumpBytes, TypeOK
    <2> QED
      BY <2>1, <2>2 DEF IInv
  <1>3. ASSUME NEW e \in Exchange, NEW now \in Readings, BumpRequest(e, now)  PROVE IInv'
    <2>1. /\ RingIsLog' /\ NothingAhead' /\ bucketUnix' \in Second /\ bucketUnix' <= clock
          /\ rps' \in [Slot -> Nat] /\ bps' \in [Slot -> Nat]
          /\ log' \in [Second -> [requests : Nat, bytes : Nat]]
      <3>1. PICK r \in Nat, n \in Nat : Bump(now, r, n)
        BY <1>0, <1>3 DEF BumpRequest, TypeOK
      <3> QED
        BY <3>1, BumpKeeps
    <2>2. TypeOK'
      BY <1>0, <1>3, <2>1 DEF BumpRequest, TypeOK
    <2> QED
      BY <2>1, <2>2 DEF IInv
  <1>4. ASSUME NEW e \in Exchange, NEW now \in Readings, BumpReport(e, now)  PROVE IInv'
    <2>1. /\ RingIsLog' /\ NothingAhead' /\ bucketUnix' \in Second /\ bucketUnix' <= clock
          /\ rps' \in [Slot -> Nat] /\ bps' \in [Slot -> Nat]
          /\ log' \in [Second -> [requests : Nat, bytes : Nat]]
      <3>1. PICK r \in Nat, n \in Nat : Bump(now, r, n)
        BY <1>0, <1>4 DEF BumpReport, TypeOK
      <3> QED
        BY <3>1, BumpKeeps
    <2>2. TypeOK'
      BY <1>0, <1>4, <2>1 DEF BumpReport, TypeOK
    <2> QED
      BY <2>1, <2>2 DEF IInv
  <1>5. ASSUME NEW e \in Exchange, Sample(e)  PROVE IInv'
    BY <1>0, <1>5, SampleTypes, RingKept DEF Sample, IInv
  <1>6. ASSUME NEW e \in Exchange, NEW n \in Sizes, Report(e, n)  PROVE IInv'
    <2>1. TypeOK'
      BY <1>0, <1>6 DEF Report, TypeOK
    <2> QED
      BY <1>6, <2>1, RingKept DEF Report, IInv
  <1>7. ASSUME NEW now \in Readings, SnapCopy(now)  PROVE IInv'
    <2>1. TypeOK'
      BY <1>0, <1>7, SweptTypes DEF SnapCopy, TypeOK
    <2> QED
      BY <1>7, <2>1, CopyKeeps DEF IInv
  <1>8. CASE SnapLoad
    <2>1. TypeOK'
      BY <1>0, <1>8 DEF SnapLoad, TypeOK
    <2> QED
      BY <1>8, <2>1, RingKept DEF SnapLoad, IInv
  <1>9. CASE Tick
    <2>1. TypeOK'
      BY SMTT(30), <1>0, <1>9, ClockAssumption DEF Tick, TypeOK, Second
    <2> QED
      BY <1>9, <2>1, RingKept DEF Tick, IInv
  <1>10. CASE UNCHANGED vars
    <2>1. TypeOK'
      BY <1>0, <1>10 DEF vars, TypeOK
    <2> QED
      BY <1>10, <2>1, RingKept DEF vars, IInv
  <1> QED
    BY <1>1, <1>2, <1>3, <1>4, <1>5, <1>6, <1>7, <1>8, <1>9, <1>10
       DEF Next, Http, Upgraded

\* The inductive invariant holds throughout.
THEOREM Invariance == Spec => []IInv
  BY InitIInv, IInvStep, PTL DEF Spec

\* Types: no latency is out of the ring, no count above its size.
THEOREM TypeCorrect == Spec => []TypeOK
  <1>1. IInv => TypeOK
    BY DEF IInv
  <1> QED
    BY Invariance, <1>1, PTL

\* The buckets hold what was recorded in the last seconds, for any length of the
\* ring and any number of callers that are late by less than that length.
THEOREM RingFollowsLog == Spec => []RingIsLog
  <1>1. IInv => RingIsLog
    BY DEF IInv
  <1> QED
    BY Invariance, <1>1, PTL

\* A snapshot's entries are those of their seconds, oldest first, but for the
\* seconds that newer ones have taken the buckets of.
THEOREM SnapshotShowsWindow == Spec => SnapshotIsWindow
  <1>1. ASSUME IInv, [Next]_vars, spc = "idle", spc' = "load",
               NEW i \in 1 .. Ring, snap'.at - Ring + i > bucketUnix' - Ring
        PROVE  /\ snap'.rps[i] = log[snap'.at - Ring + i].requests
               /\ snap'.bps[i] = log[snap'.at - Ring + i].bytes
    <2>1. PICK now \in Readings : SnapCopy(now)
      BY <1>1 DEF Next, Http, Upgraded, Complete, BumpBytes, BumpRequest, BumpReport,
                  Sample, Report, SnapLoad, Tick, vars
    <2> DEFINE s == now - Ring + i
    <2>2. /\ snap'.at = now /\ bucketUnix' = NewestWith(now)
          /\ snap'.rps[i] = Swept(rps, now)[s % Ring]
          /\ snap'.bps[i] = Swept(bps, now)[s % Ring]
      BY <2>1 DEF SnapCopy, Emitted
    <2>3. s \in NewestWith(now) - Ring + 1 .. NewestWith(now)
      <3>1. now \in Int /\ NewestWith(now) \in Int /\ now <= NewestWith(now)
        BY <1>1, SweptTypes, ReadingsPast DEF Second, IInv
      <3> QED
        BY <1>1, <2>2, <3>1, RingAssumption
    <2>4. Swept(rps, now)[s % Ring] = log[s].requests /\ Swept(bps, now)[s % Ring] = log[s].bytes
      BY <1>1, <2>3, SweptIsLog
    <2> QED
      BY <2>2, <2>4
  <1>2. IInv /\ [Next]_vars => [spc = "idle" /\ spc' = "load" =>
            \A i \in 1 .. Ring : LET s == snap'.at - Ring + i IN
                s > bucketUnix' - Ring =>
                    /\ snap'.rps[i] = log[s].requests
                    /\ snap'.bps[i] = log[s].bytes]_vars
    BY <1>1
  <1> QED
    BY Invariance, <1>2, PTL DEF Spec, SnapshotIsWindow

(***************************************************************************)
(* Sums.                                                                   *)
(***************************************************************************)

\* Every set of naturals that is not empty has a least element.
LEMMA Least ==
    ASSUME NEW T, T \subseteq Nat, T # {}
    PROVE  \E m \in T : \A k \in T : m <= k
  <1> DEFINE R == {p \in Nat \X Nat : p[1] < p[2]}
  <1>1. IsWellFoundedOn(R, Nat)
    BY NatLessThanWellFounded DEF OpToRel
  <1>2. \A m \in T, k \in T : m <= k \/ <<k, m>> \in R
    <2> TAKE m \in T, k \in T
    <2>1. m \in Nat /\ k \in Nat
      OBVIOUS
    <2> QED
      BY <2>1
  <1> HIDE DEF R
  <1>3. PICK m \in T : \A k \in T : <<k, m>> \notin R
    BY <1>1, WFMin
  <1> QED
    BY <1>2, <1>3

\* Induction, with the property given as the set of the numbers that have it.
LEMMA Induction ==
    ASSUME NEW T, 0 \in T, \A n \in Nat : n \in T => n + 1 \in T
    PROVE  Nat \subseteq T
  <1> SUFFICES ASSUME Nat \ T # {}  PROVE FALSE
    OBVIOUS
  <1>1. PICK m \in Nat \ T : \A k \in Nat \ T : m <= k
    <2>1. Nat \ T \subseteq Nat
      OBVIOUS
    <2> QED
      BY <2>1, Least
  <1>2. m # 0 /\ m - 1 \in Nat
    BY <1>1
  <1>3. m - 1 \in T
    BY <1>1, <1>2
  <1> QED
    BY <1>1, <1>2, <1>3

-------------------------------------------------------------------------------
\* The recursive function under the fold in Sum: f adds up xs over any set of
\* places among the first m, the last one first.
Adds(f, xs, m) ==
    f = [s \in SUBSET (1 .. m) |->
            IF s = {} THEN 0 ELSE f[s \ {Max(s)}] + xs[Max(s)]]

LEMMA SumIsFold ==
    ASSUME NEW m \in Nat, NEW xs \in [1 .. m -> Nat]
    PROVE  Sum(xs) = (CHOOSE f : Adds(f, xs, m))[1 .. m]
  <1>1. DOMAIN xs = 1 .. m
    OBVIOUS
  <1> QED
    BY <1>1 DEF Sum, FoldLeft, MapThenFoldSet, Adds

LEMMA MaxIs ==
    ASSUME NEW s \in SUBSET Int, NEW x \in s, \A y \in s : y <= x
    PROVE  Max(s) = x
  <1>1. \A y \in s : x >= y
    OBVIOUS
  <1>2. \A z \in s : (\A y \in s : z >= y) => z = x
    OBVIOUS
  <1> QED
    BY <1>1, <1>2 DEF Max

\* There is such a function.
LEMMA AddsExists ==
    ASSUME NEW n \in Nat, NEW xs \in [1 .. n -> Nat]
    PROVE  \E f : Adds(f, xs, n)
  <1> DEFINE T == {m \in Nat : m <= n => \E f : Adds(f, xs, m)}
  <1>1. 0 \in T
    <2>1. Adds([s \in SUBSET (1 .. 0) |-> 0], xs, 0)
      <3>1. \A s \in SUBSET (1 .. 0) : s = {}
        OBVIOUS
      <3> QED
        BY <3>1 DEF Adds
    <2> QED
      BY <2>1
  <1>2. ASSUME NEW m \in Nat, m \in T, m + 1 <= n  PROVE \E g : Adds(g, xs, m + 1)
    <2>1. PICK f : Adds(f, xs, m)
      BY <1>2
    <2>2. \A s \in SUBSET (1 .. m) :
             f[s] = IF s = {} THEN 0 ELSE f[s \ {Max(s)}] + xs[Max(s)]
      BY <2>1 DEF Adds
    <2> DEFINE g == [s \in SUBSET (1 .. m + 1) |->
                        IF m + 1 \in s THEN f[s \ {m + 1}] + xs[m + 1] ELSE f[s]]
    <2>3. ASSUME NEW s \in SUBSET (1 .. m + 1)
          PROVE  g[s] = IF s = {} THEN 0 ELSE g[s \ {Max(s)}] + xs[Max(s)]
      <3>1. CASE m + 1 \in s
        <4>1. Max(s) = m + 1
          BY <3>1, MaxIs
        <4>2. s \ {m + 1} \in SUBSET (1 .. m + 1) /\ m + 1 \notin s \ {m + 1}
          OBVIOUS
        <4> QED
          BY <3>1, <4>1, <4>2
      <3>2. CASE m + 1 \notin s
        <4>1. s \in SUBSET (1 .. m)
          BY <3>2
        <4>2. s \ {Max(s)} \in SUBSET (1 .. m + 1) /\ m + 1 \notin s \ {Max(s)}
          BY <3>2
        <4> QED
          BY <2>2, <3>2, <4>1, <4>2
      <3> QED
        BY <3>1, <3>2
    <2>4. Adds(g, xs, m + 1)
      <3> HIDE DEF g
      <3>1. g = [s \in SUBSET (1 .. m + 1) |-> g[s]]
        BY DEF g
      <3> QED
        BY <2>3, <3>1 DEF Adds
    <2> QED
      BY <2>4
  <1>3. \A m \in Nat : m \in T => m + 1 \in T
    BY <1>2
  <1> HIDE DEF T
  <1>4. n \in T
    BY <1>1, <1>3, Induction
  <1> QED
    BY <1>4 DEF T

\* Sum adds up a sequence from the left: p is the sum of its first places.
LEMMA SumByParts ==
    ASSUME NEW n \in Nat, NEW xs \in [1 .. n -> Nat]
    PROVE  \E p \in [0 .. n -> Nat] : /\ p[0] = 0 /\ p[n] = Sum(xs)
                                      /\ \A k \in 1 .. n : p[k] = p[k - 1] + xs[k]
  <1> DEFINE f == CHOOSE g : Adds(g, xs, n)
             T == {k \in Nat : k <= n => f[1 .. k] \in Nat}
             p == [k \in 0 .. n |-> f[1 .. k]]
  <1>1. Adds(f, xs, n)
    BY AddsExists
  <1> HIDE DEF f
  <1>2. f[1 .. 0] = 0
    BY <1>1 DEF Adds
  <1>3. ASSUME NEW k \in 1 .. n  PROVE f[1 .. k] = f[1 .. k - 1] + xs[k]
    <2>1. 1 .. k \in SUBSET (1 .. n) /\ 1 .. k # {}
      OBVIOUS
    <2>2. Max(1 .. k) = k
      <3>1. 1 .. k \in SUBSET Int /\ k \in 1 .. k /\ \A y \in 1 .. k : y <= k
        OBVIOUS
      <3> QED
        BY <3>1, MaxIs
    <2>3. (1 .. k) \ {k} = 1 .. k - 1
      OBVIOUS
    <2> QED
      BY <1>1, <2>1, <2>2, <2>3 DEF Adds
  <1>4. \A k \in 0 .. n : f[1 .. k] \in Nat
    <2>1. 0 \in T
      BY <1>2
    <2>2. ASSUME NEW k \in Nat, k \in T  PROVE k + 1 \in T
      <3> SUFFICES ASSUME k + 1 <= n  PROVE f[1 .. k + 1] \in Nat
        OBVIOUS
      <3>1. f[1 .. k] \in Nat
        BY <2>2
      <3>2. f[1 .. k + 1] = f[1 .. k] + xs[k + 1]
        BY <1>3
      <3> QED
        BY <3>1, <3>2
    <2> HIDE DEF T
    <2>3. \A k \in Nat : k \in T
      BY <2>1, <2>2, Induction
    <2> QED
      BY <2>3 DEF T
  <1>5. Sum(xs) = f[1 .. n]
    BY SumIsFold DEF f
  <1>6. p \in [0 .. n -> Nat] /\ p[0] = 0 /\ p[n] = Sum(xs)
    BY <1>2, <1>4, <1>5
  <1>7. \A k \in 1 .. n : p[k] = p[k - 1] + xs[k]
    BY <1>3
  <1> QED
    BY <1>6, <1>7

LEMMA SumType == ASSUME NEW n \in Nat, NEW xs \in [1 .. n -> Nat]  PROVE Sum(xs) \in Nat
  BY SumByParts

\* No entry of ys is larger than that of xs, but for the j-th, by at most d.
NoLarger(ys, xs, n, j, d) == \A i \in 1 .. n : ys[i] <= xs[i] + IF i = j THEN d ELSE 0

\* A sequence whose entries are no larger than another's, but for one that may
\* be larger by d, adds up to no more than d more.
LEMMA SumGrowth ==
    ASSUME NEW n \in Nat, NEW xs \in [1 .. n -> Nat], NEW ys \in [1 .. n -> Nat],
           NEW d \in Nat, NEW j \in Int, NoLarger(ys, xs, n, j, d)
    PROVE  Sum(ys) <= Sum(xs) + d
  <1>1. PICK p \in [0 .. n -> Nat] : /\ p[0] = 0 /\ p[n] = Sum(xs)
                                     /\ \A k \in 1 .. n : p[k] = p[k - 1] + xs[k]
    BY SumByParts
  <1>2. PICK q \in [0 .. n -> Nat] : /\ q[0] = 0 /\ q[n] = Sum(ys)
                                     /\ \A k \in 1 .. n : q[k] = q[k - 1] + ys[k]
    BY SumByParts
  <1> DEFINE late(k) == IF j <= k THEN d ELSE 0
             own(k) == IF k = j THEN d ELSE 0
             T == {k \in Nat : k <= n => q[k] <= p[k] + late(k)}
  <1>3. 0 \in T
    BY <1>1, <1>2
  <1>4. /\ \A k \in Int : late(k) \in Nat /\ own(k) \in Nat /\ late(k) <= d
        /\ \A k \in Int : late(k + 1) = late(k) + own(k + 1)
    OBVIOUS
  <1>5. \A k \in 1 .. n : ys[k] <= xs[k] + own(k)
    BY DEF NoLarger
  <1> HIDE DEF late, own
  <1>6. ASSUME NEW k \in Nat, k \in T  PROVE k + 1 \in T
    <2> SUFFICES ASSUME k + 1 <= n  PROVE q[k + 1] <= p[k + 1] + late(k + 1)
      OBVIOUS
    <2>1. q[k] <= p[k] + late(k)
      BY <1>6
    <2> HIDE DEF T
    <2>2. /\ p[k + 1] = p[k] + xs[k + 1] /\ q[k + 1] = q[k] + ys[k + 1]
          /\ p[k] \in Nat /\ q[k] \in Nat /\ xs[k + 1] \in Nat /\ ys[k + 1] \in Nat
      BY <1>1, <1>2
    <2>3. k \in Int /\ k + 1 \in Int /\ k + 1 \in 1 .. n
      OBVIOUS
    <2>4. late(k) \in Nat /\ own(k + 1) \in Nat /\ late(k + 1) = late(k) + own(k + 1)
      BY <1>4, <2>3
    <2>5. ys[k + 1] <= xs[k + 1] + own(k + 1)
      BY <1>5, <2>3
    <2> DEFINE P == p[k]  X == xs[k + 1]  P1 == p[k + 1]  L == late(k)
               Q == q[k]  Y == ys[k + 1]  Q1 == q[k + 1]  O == own(k + 1)  L1 == late(k + 1)
    <2>6. /\ P \in Nat /\ X \in Nat /\ Q \in Nat /\ Y \in Nat /\ L \in Nat /\ O \in Nat
          /\ P1 = P + X /\ Q1 = Q + Y /\ L1 = L + O /\ Q <= P + L /\ Y <= X + O
      BY <2>1, <2>2, <2>4, <2>5
    <2> HIDE DEF P, X, P1, L, Q, Y, Q1, O, L1
    <2>7. Q1 <= P1 + L1
      BY <2>6
    <2> QED
      BY <2>7 DEF Q1, P1, L1
  <1> HIDE DEF T
  <1>7. n \in T
    BY <1>3, <1>6, Induction
  <1>8. q[n] <= p[n] + late(n) /\ p[n] \in Nat /\ q[n] \in Nat
    BY <1>1, <1>2, <1>7 DEF T
  <1>9. late(n) \in Nat /\ late(n) <= d
    BY <1>4
  <1> QED
    BY <1>1, <1>2, <1>8, <1>9

LEMMA SumOfZeros ==
    ASSUME NEW n \in Nat, NEW xs \in [1 .. n -> Nat], \A i \in 1 .. n : xs[i] = 0
    PROVE  Sum(xs) = 0
  <1>1. PICK p \in [0 .. n -> Nat] : /\ p[0] = 0 /\ p[n] = Sum(xs)
                                     /\ \A k \in 1 .. n : p[k] = p[k - 1] + xs[k]
    BY SumByParts
  <1> DEFINE T == {k \in Nat : k <= n => p[k] = 0}
  <1>2. 0 \in T
    BY <1>1
  <1>3. ASSUME NEW k \in Nat, k \in T  PROVE k + 1 \in T
    <2> SUFFICES ASSUME k + 1 <= n  PROVE p[k + 1] = 0
      OBVIOUS
    <2>1. p[k + 1] = p[k] + xs[k + 1] /\ p[k] = 0 /\ xs[k + 1] = 0
      BY <1>1, <1>3
    <2> QED
      BY <2>1
  <1> HIDE DEF T
  <1>4. n \in T
    BY <1>2, <1>3, Induction
  <1> QED
    BY <1>1, <1>4 DEF T

-------------------------------------------------------------------------------
\* Requests counted that are in no bucket yet, and the bytes likewise, one by one.
Pending == {e \in Exchange : pc[e] \in {"bytes", "latency", "request"}}
Owed == {b \in Exchange \X Nat : b[2] \in 1 .. size[b[1]]}

\* The counters are ahead of the ring, from wherever its seconds are listed,
\* by what is under way.
CountersAhead ==
    /\ IsFiniteSet(Pending) /\ IsFiniteSet(Owed)
    /\ \A e \in Exchange : pc[e] \in {"idle", "latency", "request"} => size[e] = 0
    /\ \A t \in Nat : /\ Sum(Emitted(rps, t)) + Cardinality(Pending) <= httpRequests
                      /\ Sum(Emitted(bps, t)) + Cardinality(Owed) <= bytes

\* A copy is a ring as it was.
Copied ==
    spc = "load" => /\ snap.rps \in [1 .. Ring -> Nat] /\ snap.bps \in [1 .. Ring -> Nat]
                    /\ Sum(snap.rps) <= httpRequests /\ Sum(snap.bps) <= bytes

TotalsInv == CountersAhead /\ Copied

LEMMA EmittedType ==
    ASSUME NEW ring \in [Slot -> Nat], NEW t \in Nat
    PROVE  /\ Emitted(ring, t) \in [1 .. Ring -> Nat]
           /\ \A i \in 1 .. Ring : /\ (t - Ring + i) % Ring \in Slot
                                   /\ Emitted(ring, t)[i] = ring[(t - Ring + i) % Ring]
  <1>1. \A i \in 1 .. Ring : t - Ring + i \in Int
    BY RingAssumption
  <1>2. \A i \in 1 .. Ring : (t - Ring + i) % Ring \in Slot
    BY <1>1, SlotOf
  <1> QED
    BY <1>2 DEF Emitted

\* What is added to one bucket is added to the sum once, whatever second comes first.
LEMMA EmittedGrowth ==
    ASSUME NEW ring \in [Slot -> Nat], NEW more \in [Slot -> Nat], NEW d \in Nat,
           NEW place \in Slot, NEW t \in Nat,
           \A i \in Slot : more[i] <= ring[i] + IF i = place THEN d ELSE 0
    PROVE  Sum(Emitted(more, t)) <= Sum(Emitted(ring, t)) + d
  <1> DEFINE at(i) == (t - Ring + i) % Ring
  <1>1. \A i \in 1 .. Ring : /\ at(i) \in Slot
                             /\ Emitted(ring, t)[i] = ring[at(i)]
                             /\ Emitted(more, t)[i] = more[at(i)]
    BY EmittedType
  <1>2. /\ Ring \in Nat /\ Emitted(ring, t) \in [1 .. Ring -> Nat]
        /\ Emitted(more, t) \in [1 .. Ring -> Nat]
    BY EmittedType, RingAssumption
  <1>3. \A i, j \in 1 .. Ring : at(i) = at(j) => i = j
    <2> SUFFICES ASSUME NEW i \in 1 .. Ring, NEW j \in 1 .. Ring, at(i) = at(j), i < j
                 PROVE  FALSE
      BY RingAssumption
    <2>1. t - Ring + i \in Int /\ t - Ring + j \in Int /\ t - Ring + i < t - Ring + j
      BY RingAssumption
    <2>2. (t - Ring + j) - (t - Ring + i) >= Ring
      BY <2>1, SlotOnce, RingAssumption
    <2> QED
      BY <2>2, RingAssumption
  <1> HIDE DEF at
  <1>4. \E j \in Int : \A i \in 1 .. Ring : at(i) = place => i = j
    BY <1>3
  <1>5. PICK j \in Int : \A i \in 1 .. Ring : at(i) = place => i = j
    BY <1>4
  <1>6. NoLarger(Emitted(more, t), Emitted(ring, t), Ring, j, d)
    <2> SUFFICES ASSUME NEW i \in 1 .. Ring
                 PROVE  Emitted(more, t)[i] <= Emitted(ring, t)[i] + IF i = j THEN d ELSE 0
      BY DEF NoLarger
    <2>1. more[at(i)] <= ring[at(i)] + IF at(i) = place THEN d ELSE 0
      BY <1>1
    <2>2. ring[at(i)] \in Nat /\ more[at(i)] \in Nat
      BY <1>1
    <2>3. CASE at(i) = place
      BY <1>1, <1>5, <2>1, <2>2, <2>3
    <2>4. CASE at(i) # place
      BY <1>1, <2>1, <2>2, <2>4
    <2> QED
      BY <2>3, <2>4
  <1> QED
    BY <1>2, <1>6, SumGrowth

\* advanceBucketsLocked takes away only.
LEMMA SweptSums ==
    ASSUME IInv, NEW now \in Readings, NEW t \in Nat
    PROVE  /\ Sum(Emitted(Swept(rps, now), t)) <= Sum(Emitted(rps, t))
           /\ Sum(Emitted(Swept(bps, now), t)) <= Sum(Emitted(bps, t))
  <1>1. /\ rps \in [Slot -> Nat] /\ bps \in [Slot -> Nat]
        /\ Swept(rps, now) \in [Slot -> Nat] /\ Swept(bps, now) \in [Slot -> Nat]
    BY SweptTypes DEF IInv, TypeOK
  <1>2. 0 \in Slot /\ Ring \in Nat
    BY RingAssumption DEF Slot
  <1>3. \A i \in Slot : /\ Swept(rps, now)[i] <= rps[i] + IF i = 0 THEN 0 ELSE 0
                        /\ Swept(bps, now)[i] <= bps[i] + IF i = 0 THEN 0 ELSE 0
    BY <1>1 DEF Swept
  <1>4. /\ Sum(Emitted(Swept(rps, now), t)) <= Sum(Emitted(rps, t)) + 0
        /\ Sum(Emitted(Swept(bps, now), t)) <= Sum(Emitted(bps, t)) + 0
    BY <1>1, <1>2, <1>3, EmittedGrowth
  <1>5. Sum(Emitted(rps, t)) \in Nat /\ Sum(Emitted(bps, t)) \in Nat
    BY <1>1, <1>2, EmittedType, SumType
  <1> QED
    BY <1>4, <1>5

LEMMA BumpSums ==
    ASSUME IInv, NEW now \in Readings, NEW r \in Nat, NEW n \in Nat, Bump(now, r, n),
           NEW t \in Nat
    PROVE  /\ Sum(Emitted(rps', t)) <= Sum(Emitted(rps, t)) + r
           /\ Sum(Emitted(bps', t)) <= Sum(Emitted(bps, t)) + n
  <1>1. /\ rps \in [Slot -> Nat] /\ bps \in [Slot -> Nat]
        /\ Swept(rps, now) \in [Slot -> Nat] /\ Swept(bps, now) \in [Slot -> Nat]
        /\ rps' \in [Slot -> Nat] /\ bps' \in [Slot -> Nat]
    BY SweptTypes, BumpKeeps DEF IInv, TypeOK
  <1>2. now % Ring \in Slot
    BY ReadingsPast, SlotOf DEF IInv, Second
  <1>3. \A i \in Slot : Swept(rps, now)[i] <= rps[i] /\ Swept(bps, now)[i] <= bps[i]
    BY <1>1 DEF Swept
  <1>4. \A i \in Slot : /\ rps'[i] <= rps[i] + IF i = now % Ring THEN r ELSE 0
                        /\ bps'[i] <= bps[i] + IF i = now % Ring THEN n ELSE 0
    <2> TAKE i \in Slot
    <2>1. /\ rps'[i] = Swept(rps, now)[i] + IF i = now % Ring THEN r ELSE 0
          /\ bps'[i] = Swept(bps, now)[i] + IF i = now % Ring THEN n ELSE 0
      BY <1>1, <1>2 DEF Bump
    <2> QED
      BY <1>1, <1>3, <2>1
  <1> QED
    BY <1>1, <1>2, <1>4, EmittedGrowth

LEMMA FirstOnes == \A n \in Nat : IsFiniteSet(1 .. n) /\ Cardinality(1 .. n) = n
  <1> TAKE n \in Nat
  <1>1. 1 \in Int /\ n \in Int /\ (n = 0 \/ n >= 1)
    OBVIOUS
  <1>2. IsFiniteSet(1 .. n) /\ Cardinality(1 .. n) = IF 1 > n THEN 0 ELSE n - 1 + 1
    BY <1>1, FS_Interval
  <1> QED
    BY <1>1, <1>2

\* To owe n bytes more is to have n more pairs in Owed.
OwedOf(f) == {b \in Exchange \X Nat : b[2] \in 1 .. f[b[1]]}

LEMMA Owing ==
    ASSUME NEW f \in [Exchange -> Nat], NEW e \in Exchange, NEW n \in Nat, f[e] = 0
    PROVE  LET g == [f EXCEPT ![e] = n]
           IN  /\ IsFiniteSet(OwedOf(g)) <=> IsFiniteSet(OwedOf(f))
               /\ IsFiniteSet(OwedOf(f)) =>
                     Cardinality(OwedOf(g)) = Cardinality(OwedOf(f)) + n
  <1> DEFINE g == [f EXCEPT ![e] = n]
             own == {e} \X (1 .. n)
  <1>1. OwedOf(g) = OwedOf(f) \cup own
    <2>1. ASSUME NEW b \in OwedOf(g)  PROVE b \in OwedOf(f) \cup own
      <3>1. b \in Exchange \X Nat /\ b[2] \in 1 .. g[b[1]]
        BY DEF OwedOf
      <3>2. CASE b[1] = e
        BY <3>1, <3>2
      <3>3. CASE b[1] # e
        BY <3>1, <3>3 DEF OwedOf
      <3> QED
        BY <3>2, <3>3
    <2>2. own \subseteq OwedOf(g)
      BY DEF OwedOf
    <2>3. ASSUME NEW b \in OwedOf(f)  PROVE b \in OwedOf(g)
      <3>1. b \in Exchange \X Nat /\ b[2] \in 1 .. f[b[1]]
        BY DEF OwedOf
      <3>2. b[1] # e /\ b[1] \in Exchange
        BY <3>1
      <3> QED
        BY <3>1, <3>2 DEF OwedOf
    <2> QED
      BY <2>1, <2>2, <2>3
  <1>2. OwedOf(f) \cap own = {}
    BY DEF OwedOf
  <1>3. IsFiniteSet(own) /\ Cardinality(own) = n
    <2> HIDE DEF g
    <2>1. IsFiniteSet(1 .. n) /\ Cardinality(1 .. n) = n
      BY FirstOnes
    <2>2. IsFiniteSet({e}) /\ Cardinality({e}) = 1
      BY FS_Singleton
    <2>3. IsFiniteSet(own) /\ Cardinality(own) = 1 * n
      BY <2>1, <2>2, FS_Product
    <2> QED
      BY <2>3
  <1>4. OwedOf(f) \subseteq OwedOf(g)
    BY <1>1
  <1> HIDE DEF g, own
  <1>5. IsFiniteSet(OwedOf(g)) => IsFiniteSet(OwedOf(f))
    BY <1>4, FS_Subset
  <1>6. ASSUME IsFiniteSet(OwedOf(f))
        PROVE  /\ IsFiniteSet(OwedOf(g))
               /\ Cardinality(OwedOf(g)) = Cardinality(OwedOf(f)) + n
    <2>1. /\ IsFiniteSet(OwedOf(f) \cup own)
          /\ Cardinality(OwedOf(f) \cup own)
                = Cardinality(OwedOf(f)) + Cardinality(own) - Cardinality({})
      BY <1>2, <1>3, <1>6, FS_Union
    <2>2. Cardinality(OwedOf(f)) \in Nat /\ Cardinality({}) = 0
      BY <1>6, FS_CardinalityType, FS_EmptySet
    <2> QED
      BY <1>1, <1>3, <2>1, <2>2
  <1> QED
    BY <1>5, <1>6 DEF g

\* The sums over the ring are numbers.
LEMMA SumsOfRing ==
    ASSUME TypeOK, NEW t \in Nat
    PROVE  Sum(Emitted(rps, t)) \in Nat /\ Sum(Emitted(bps, t)) \in Nat
  BY EmittedType, SumType, RingAssumption DEF TypeOK

\* Counters only grow, so a copy they cover stays covered.
LEMMA LaterCopy ==
    ASSUME TypeOK, Copied, UNCHANGED <<snap, spc>>,
           httpRequests' \in Nat, httpRequests <= httpRequests', bytes' \in Nat, bytes <= bytes'
    PROVE  Copied'
  <1> SUFFICES ASSUME spc = "load"
               PROVE  /\ snap.rps \in [1 .. Ring -> Nat] /\ snap.bps \in [1 .. Ring -> Nat]
                      /\ Sum(snap.rps) <= httpRequests' /\ Sum(snap.bps) <= bytes'
    BY DEF Copied
  <1>1. /\ snap.rps \in [1 .. Ring -> Nat] /\ snap.bps \in [1 .. Ring -> Nat]
        /\ Sum(snap.rps) <= httpRequests /\ Sum(snap.bps) <= bytes
    BY DEF Copied
  <1>2. Sum(snap.rps) \in Nat /\ Sum(snap.bps) \in Nat /\ httpRequests \in Nat /\ bytes \in Nat
    BY <1>1, SumType, RingAssumption DEF TypeOK
  <1> QED
    BY <1>1, <1>2

LEMMA InitSums == Init => TotalsInv
  <1> SUFFICES ASSUME Init  PROVE TotalsInv
    OBVIOUS
  <1>1. Pending = {} /\ Owed = {}
    BY DEF Init, Pending, Owed
  <1>2. ASSUME NEW t \in Nat
        PROVE  Sum(Emitted(rps, t)) = 0 /\ Sum(Emitted(bps, t)) = 0
    <2> DEFINE none == Emitted([i \in Slot |-> 0], t)
    <2>1. /\ [i \in Slot |-> 0] \in [Slot -> Nat] /\ Ring \in Nat
          /\ rps = [i \in Slot |-> 0] /\ bps = [i \in Slot |-> 0]
      BY RingAssumption DEF Init
    <2>2. none \in [1 .. Ring -> Nat] /\ \A i \in 1 .. Ring : none[i] = 0
      BY <2>1, EmittedType
    <2> HIDE DEF none
    <2>3. Sum(none) = 0
      BY <2>1, <2>2, SumOfZeros
    <2> QED
      BY <2>1, <2>3 DEF none
  <1>3. IsFiniteSet({}) /\ Cardinality({}) = 0
    BY FS_EmptySet
  <1>4. CountersAhead
    BY <1>1, <1>2, <1>3 DEF Init, CountersAhead
  <1> QED
    BY <1>4 DEF Init, TotalsInv, Copied

-------------------------------------------------------------------------------
\* A step that puts r requests and n bytes into the ring keeps the counters
\* ahead when what is under way makes up for it.
LEMMA StaysAhead ==
    ASSUME TypeOK, TypeOK', CountersAhead, NEW r \in Nat, NEW n \in Nat,
           IsFiniteSet(Pending'), IsFiniteSet(Owed'),
           \A e \in Exchange : pc'[e] \in {"idle", "latency", "request"} => size'[e] = 0,
           \A t \in Nat : /\ Sum(Emitted(rps', t)) <= Sum(Emitted(rps, t)) + r
                          /\ Sum(Emitted(bps', t)) <= Sum(Emitted(bps, t)) + n,
           r + Cardinality(Pending') + httpRequests <= Cardinality(Pending) + httpRequests',
           n + Cardinality(Owed') + bytes <= Cardinality(Owed) + bytes'
    PROVE  CountersAhead'
  <1>1. ASSUME NEW t \in Nat
        PROVE  /\ Sum(Emitted(rps', t)) + Cardinality(Pending') <= httpRequests'
               /\ Sum(Emitted(bps', t)) + Cardinality(Owed') <= bytes'
    <2>1. /\ Sum(Emitted(rps, t)) + Cardinality(Pending) <= httpRequests
          /\ Sum(Emitted(bps, t)) + Cardinality(Owed) <= bytes
      BY DEF CountersAhead
    <2>2. /\ Sum(Emitted(rps, t)) \in Nat /\ Sum(Emitted(bps, t)) \in Nat
          /\ Sum(Emitted(rps', t)) \in Nat /\ Sum(Emitted(bps', t)) \in Nat
      BY EmittedType, SumType, RingAssumption DEF TypeOK
    <2>3. /\ Cardinality(Pending) \in Nat /\ Cardinality(Pending') \in Nat
          /\ Cardinality(Owed) \in Nat /\ Cardinality(Owed') \in Nat
      BY FS_CardinalityType DEF CountersAhead
    <2>4. /\ httpRequests \in Nat /\ httpRequests' \in Nat /\ bytes \in Nat /\ bytes' \in Nat
      BY DEF TypeOK
    <2>5. /\ Sum(Emitted(rps', t)) <= Sum(Emitted(rps, t)) + r
          /\ Sum(Emitted(bps', t)) <= Sum(Emitted(bps, t)) + n
      OBVIOUS
    <2> QED
      BY <2>1, <2>2, <2>3, <2>4, <2>5
  <1> QED
    BY <1>1 DEF CountersAhead

\* What is written to the counters before a bucket is owed to it.
LEMMA CountFirst ==
    ASSUME IInv, IInv', TotalsInv, NEW e \in Exchange, NEW n \in Sizes,
           \/ \E l \in Latency : Complete(e, n, l)
           \/ Report(e, n)
    PROVE  TotalsInv'
  <1>1. n \in Nat /\ TypeOK /\ TypeOK' /\ CountersAhead /\ Copied
    BY RingAssumption DEF IInv, TotalsInv
  <1>2. /\ pc[e] = "idle" /\ pc' = [pc EXCEPT ![e] = pc'[e]]
        /\ \/ pc'[e] = "bytes" /\ httpRequests' = httpRequests + 1
           \/ pc'[e] = "report" /\ httpRequests' = httpRequests
        /\ size' = [size EXCEPT ![e] = n] /\ bytes' = bytes + n
        /\ UNCHANGED <<rps, bps, snap, spc>>
    BY <1>1 DEF Complete, Report, TypeOK
  <1>3. httpRequests \in Nat /\ bytes \in Nat /\ size \in [Exchange -> Nat]
        /\ pc \in [Exchange -> {"idle", "bytes", "latency", "request", "report"}]
    BY <1>1 DEF TypeOK
  <1>4. /\ IsFiniteSet(Pending')
        /\ Cardinality(Pending') + httpRequests = Cardinality(Pending) + httpRequests'
    <2>1. IsFiniteSet(Pending) /\ Cardinality(Pending) \in Nat /\ e \notin Pending
      BY <1>1, <1>2, FS_CardinalityType DEF CountersAhead, Pending
    <2>2. CASE pc'[e] = "bytes"
      <3>1. Pending' = Pending \cup {e}
        BY <1>2, <1>3, <2>2 DEF Pending
      <3>2. IsFiniteSet(Pending') /\ Cardinality(Pending') = Cardinality(Pending) + 1
        BY <2>1, <3>1, FS_AddElement
      <3> QED
        BY <1>2, <1>3, <2>1, <2>2, <3>2
    <2>3. CASE pc'[e] = "report"
      <3>1. Pending' = Pending
        BY <1>2, <1>3, <2>3 DEF Pending
      <3> QED
        BY <1>2, <1>3, <2>1, <2>3, <3>1
    <2> QED
      BY <1>2, <2>2, <2>3
  <1>5. IsFiniteSet(Owed') /\ Cardinality(Owed') = Cardinality(Owed) + n
    <2>1. size[e] = 0 /\ IsFiniteSet(Owed)
      BY <1>1, <1>2 DEF CountersAhead
    <2>2. Owed = OwedOf(size) /\ Owed' = OwedOf(size')
      BY DEF Owed, OwedOf
    <2> QED
      BY <1>1, <1>2, <1>3, <2>1, <2>2, Owing
  <1>6. \A f \in Exchange : pc'[f] \in {"idle", "latency", "request"} => size'[f] = 0
    BY <1>1, <1>2, <1>3 DEF CountersAhead
  <1>7. \A t \in Nat : /\ Sum(Emitted(rps', t)) <= Sum(Emitted(rps, t)) + 0
                       /\ Sum(Emitted(bps', t)) <= Sum(Emitted(bps, t)) + 0
    BY <1>1, <1>2, SumsOfRing
  <1>8. CountersAhead'
    <2>1. /\ Cardinality(Pending) \in Nat /\ Cardinality(Pending') \in Nat
          /\ Cardinality(Owed) \in Nat /\ Cardinality(Owed') \in Nat
      BY <1>1, <1>4, <1>5, FS_CardinalityType DEF CountersAhead
    <2>2. /\ 0 + Cardinality(Pending') + httpRequests <= Cardinality(Pending) + httpRequests'
          /\ 0 + Cardinality(Owed') + bytes <= Cardinality(Owed) + bytes'
      BY <1>1, <1>2, <1>3, <1>4, <1>5, <2>1
    <2> QED
      BY <1>1, <1>4, <1>5, <1>6, <1>7, <2>2, StaysAhead
  <1>9. Copied'
    BY <1>1, <1>2, <1>3, LaterCopy
  <1> QED
    BY <1>8, <1>9 DEF TotalsInv

\* An addition to a bucket takes what was owed to it, and counts no more.
LEMMA Bumped ==
    ASSUME IInv, IInv', TotalsInv, NEW e \in Exchange, NEW now \in Readings,
           BumpBytes(e, now) \/ BumpRequest(e, now) \/ BumpReport(e, now)
    PROVE  TotalsInv'
  <1> DEFINE r == IF pc[e] = "request" THEN 1 ELSE 0
  <1>1. TypeOK /\ TypeOK' /\ CountersAhead /\ Copied
    BY DEF IInv, TotalsInv
  <1>2. /\ pc[e] \in {"bytes", "request", "report"} /\ pc' = [pc EXCEPT ![e] = pc'[e]]
        /\ pc'[e] = IF pc[e] = "bytes" THEN "latency" ELSE "idle"
        /\ size' = [size EXCEPT ![e] = 0]
        /\ Bump(now, r, size[e])
        /\ UNCHANGED <<httpRequests, bytes, snap, spc>>
    BY <1>1 DEF BumpBytes, BumpRequest, BumpReport, TypeOK, CountersAhead
  <1>3. httpRequests \in Nat /\ bytes \in Nat /\ size \in [Exchange -> Nat] /\ size[e] \in Nat
        /\ pc \in [Exchange -> {"idle", "bytes", "latency", "request", "report"}]
        /\ r \in Nat
    BY <1>1 DEF TypeOK
  <1>4. IsFiniteSet(Pending') /\ Cardinality(Pending') + r = Cardinality(Pending)
    <2>1. IsFiniteSet(Pending) /\ Cardinality(Pending) \in Nat
      BY <1>1, FS_CardinalityType DEF CountersAhead
    <2>2. CASE pc[e] = "request"
      <3>1. Pending' = Pending \ {e} /\ e \in Pending
        BY <1>2, <1>3, <2>2 DEF Pending
      <3>2. IsFiniteSet(Pending') /\ Cardinality(Pending') = Cardinality(Pending) - 1
        BY <2>1, <3>1, FS_RemoveElement
      <3> QED
        BY <2>1, <2>2, <3>2
    <2>3. CASE pc[e] # "request"
      <3>1. Pending' = Pending
        BY <1>2, <1>3, <2>3 DEF Pending
      <3> QED
        BY <2>1, <2>3, <3>1
    <2> QED
      BY <2>2, <2>3
  <1>5. IsFiniteSet(Owed') /\ Cardinality(Owed') + size[e] = Cardinality(Owed)
    <2>1. Owed = OwedOf(size) /\ Owed' = OwedOf(size') /\ IsFiniteSet(Owed)
      BY <1>1 DEF Owed, OwedOf, CountersAhead
    <2>2. /\ size' \in [Exchange -> Nat] /\ size'[e] = 0
          /\ size = [size' EXCEPT ![e] = size[e]]
      BY <1>2, <1>3
    <2>3. IsFiniteSet(Owed') /\ Cardinality(Owed) = Cardinality(Owed') + size[e]
      BY <1>3, <2>1, <2>2, Owing
    <2> QED
      BY <1>3, <2>3, FS_CardinalityType
  <1>6. \A f \in Exchange : pc'[f] \in {"idle", "latency", "request"} => size'[f] = 0
    BY <1>1, <1>2, <1>3 DEF CountersAhead
  <1>7. \A t \in Nat : /\ Sum(Emitted(rps', t)) <= Sum(Emitted(rps, t)) + r
                       /\ Sum(Emitted(bps', t)) <= Sum(Emitted(bps, t)) + size[e]
    BY <1>2, <1>3, BumpSums
  <1> HIDE DEF r
  <1>8. CountersAhead'
    <2>1. /\ Cardinality(Pending) \in Nat /\ Cardinality(Pending') \in Nat
          /\ Cardinality(Owed) \in Nat /\ Cardinality(Owed') \in Nat
      BY <1>1, <1>4, <1>5, FS_CardinalityType DEF CountersAhead
    <2>2. /\ r + Cardinality(Pending') + httpRequests <= Cardinality(Pending) + httpRequests'
          /\ size[e] + Cardinality(Owed') + bytes <= Cardinality(Owed) + bytes'
      BY <1>2, <1>3, <1>4, <1>5, <2>1
    <2> QED
      BY <1>1, <1>3, <1>4, <1>5, <1>6, <1>7, <2>2, StaysAhead
  <1>9. Copied'
    BY <1>1, <1>2, <1>3, LaterCopy
  <1> QED
    BY <1>8, <1>9 DEF TotalsInv

\* A snapshot copies a ring that sums to no more than before.
LEMMA Snapped ==
    ASSUME IInv, IInv', TotalsInv, NEW now \in Readings, SnapCopy(now)
    PROVE  TotalsInv'
  <1>1. TypeOK /\ TypeOK' /\ CountersAhead
    BY DEF IInv, TotalsInv
  <1>2. /\ UNCHANGED <<pc, size, httpRequests, bytes>>
        /\ rps' = Swept(rps, now) /\ bps' = Swept(bps, now)
        /\ snap'.rps = Emitted(rps', now) /\ snap'.bps = Emitted(bps', now)
    BY DEF SnapCopy
  <1>3. Pending' = Pending /\ Owed' = Owed
    BY <1>2 DEF Pending, Owed
  <1>4. /\ Cardinality(Pending) \in Nat /\ Cardinality(Owed) \in Nat
        /\ IsFiniteSet(Pending) /\ IsFiniteSet(Owed)
        /\ httpRequests \in Nat /\ bytes \in Nat
    BY <1>1, FS_CardinalityType DEF CountersAhead, TypeOK
  <1>5. \A t \in Nat : /\ Sum(Emitted(rps', t)) <= Sum(Emitted(rps, t)) + 0
                       /\ Sum(Emitted(bps', t)) <= Sum(Emitted(bps, t)) + 0
    BY <1>1, <1>2, SweptSums, SumsOfRing
  <1>6. CountersAhead'
    <2>1. /\ 0 + Cardinality(Pending') + httpRequests <= Cardinality(Pending) + httpRequests'
          /\ 0 + Cardinality(Owed') + bytes <= Cardinality(Owed) + bytes'
      BY <1>2, <1>3, <1>4
    <2>2. \A e \in Exchange : pc'[e] \in {"idle", "latency", "request"} => size'[e] = 0
      BY <1>1, <1>2 DEF CountersAhead
    <2> QED
      BY <1>1, <1>3, <1>4, <1>5, <2>1, <2>2, StaysAhead
  <1>7. Copied'
    <2>1. now \in Nat
      BY <1>1, ReadingsPast DEF Second
    <2>2. /\ snap'.rps \in [1 .. Ring -> Nat] /\ snap'.bps \in [1 .. Ring -> Nat]
          /\ Sum(snap'.rps) \in Nat /\ Sum(snap'.bps) \in Nat
      <3>1. rps' \in [Slot -> Nat] /\ bps' \in [Slot -> Nat] /\ Ring \in Nat
        BY <1>1, RingAssumption DEF TypeOK
      <3>2. /\ Emitted(rps', now) \in [1 .. Ring -> Nat]
            /\ Emitted(bps', now) \in [1 .. Ring -> Nat]
        BY <2>1, <3>1, EmittedType
      <3> QED
        BY <1>2, <3>1, <3>2, SumType
    <2>3. /\ Sum(snap'.rps) + Cardinality(Pending') <= httpRequests'
          /\ Sum(snap'.bps) + Cardinality(Owed') <= bytes'
      BY <1>2, <1>6, <2>1 DEF CountersAhead
    <2>4. Sum(snap'.rps) <= httpRequests' /\ Sum(snap'.bps) <= bytes'
      BY <1>2, <1>3, <1>4, <2>2, <2>3
    <2> QED
      BY <2>2, <2>4 DEF Copied
  <1> QED
    BY <1>6, <1>7 DEF TotalsInv

LEMMA TotalsStep == IInv /\ IInv' /\ TotalsInv /\ [Next]_vars => TotalsInv'
  <1> SUFFICES ASSUME IInv, IInv', TotalsInv, [Next]_vars  PROVE TotalsInv'
    OBVIOUS
  <1>1. ASSUME NEW e \in Exchange, Sample(e)  PROVE TotalsInv'
    <2>1. /\ pc[e] = "latency" /\ pc' = [pc EXCEPT ![e] = "request"]
          /\ UNCHANGED <<size, httpRequests, bytes, rps, bps, snap, spc>>
      BY <1>1 DEF Sample
    <2>2. Pending' = Pending
      BY <2>1 DEF Pending, IInv, TypeOK
    <2>3. Owed' = Owed
      BY <2>1 DEF Owed
    <2>4. \A f \in Exchange : pc'[f] \in {"idle", "latency", "request"} => size'[f] = 0
      BY <2>1 DEF TotalsInv, CountersAhead, IInv, TypeOK
    <2> QED
      BY <2>1, <2>2, <2>3, <2>4 DEF TotalsInv, CountersAhead, Copied
  <1>2. CASE SnapLoad
    <2>1. /\ spc' = "idle" /\ UNCHANGED <<pc, size, httpRequests, bytes, rps, bps>>
      BY <1>2 DEF SnapLoad
    <2> QED
      BY <2>1 DEF TotalsInv, CountersAhead, Copied, Pending, Owed
  <1>3. CASE Tick \/ UNCHANGED vars
    <2>1. UNCHANGED <<pc, size, httpRequests, bytes, rps, bps, snap, spc>>
      BY <1>3 DEF Tick, vars
    <2> QED
      BY <2>1 DEF TotalsInv, CountersAhead, Copied, Pending, Owed
  <1> QED
    BY <1>1, <1>2, <1>3, CountFirst, Bumped, Snapped DEF Next, Http, Upgraded

\* A snapshot's totals are never less than what its buckets add up to, for any
\* number of callers, a ring of any length and any sizes: the counters are ahead
\* of the buckets by what is under way, and the copy is read before them.
THEOREM TotalsAhead == Spec => []TotalsCoverWindow
  <1>1. IInv /\ TotalsInv /\ [Next]_vars => (IInv /\ TotalsInv)'
    BY IInvStep, TotalsStep
  <1>2. Init => IInv /\ TotalsInv
    BY InitIInv, InitSums
  <1>3. IInv /\ TotalsInv => TotalsCoverWindow
    <2> SUFFICES ASSUME IInv, TotalsInv, spc = "load"
                 PROVE  /\ httpRequests >= Sum(snap.rps)
                        /\ bytes >= Sum(snap.bps)
      BY DEF TotalsCoverWindow, Returned
    <2>1. /\ snap.rps \in [1 .. Ring -> Nat] /\ snap.bps \in [1 .. Ring -> Nat]
          /\ Sum(snap.rps) <= httpRequests /\ Sum(snap.bps) <= bytes
      BY DEF TotalsInv, Copied
    <2>2. Sum(snap.rps) \in Nat /\ Sum(snap.bps) \in Nat /\ httpRequests \in Nat /\ bytes \in Nat
      BY <2>1, SumType, RingAssumption DEF IInv, TypeOK
    <2> QED
      BY <2>1, <2>2
  <1> QED
    BY <1>1, <1>2, <1>3, PTL DEF Spec

(***************************************************************************)
(* Percentiles.                                                            *)
(***************************************************************************)

\* Sequences of n latencies.
Row(n) == [1 .. n -> Int]

\* The orders of n places.
Orders(n) == Bijection(1 .. n, 1 .. n)

LEMMA OrderIs ==
    ASSUME NEW n \in Nat, NEW f
    PROVE  f \in Orders(n) <=> /\ f \in [1 .. n -> 1 .. n]
                               /\ \A i, j \in 1 .. n : f[i] = f[j] => i = j
                               /\ \A k \in 1 .. n : \E i \in 1 .. n : f[i] = k
  BY DEF Orders, Bijection, Injection, Surjection, IsInjective

LEMMA OrderMeans ==
    \A n \in Nat : \A f \in Orders(n) :
        /\ f \in [1 .. n -> 1 .. n] /\ \A i, j \in 1 .. n : f[i] = f[j] => i = j
        /\ \A k \in 1 .. n : \E i \in 1 .. n : f[i] = k
  BY OrderIs

\* One order after another.
LEMMA OrderOfOrder ==
    ASSUME NEW n \in Nat, NEW f \in Orders(n), NEW g \in Orders(n)
    PROVE  [i \in 1 .. n |-> g[f[i]]] \in Orders(n)
  <1> DEFINE h == [i \in 1 .. n |-> g[f[i]]]
  <1>1. /\ f \in [1 .. n -> 1 .. n] /\ \A i, j \in 1 .. n : f[i] = f[j] => i = j
        /\ \A k \in 1 .. n : \E i \in 1 .. n : f[i] = k
    BY OrderIs
  <1>2. /\ g \in [1 .. n -> 1 .. n] /\ \A i, j \in 1 .. n : g[i] = g[j] => i = j
        /\ \A k \in 1 .. n : \E i \in 1 .. n : g[i] = k
    BY OrderIs
  <1>3. h \in [1 .. n -> 1 .. n]
    BY <1>1, <1>2
  <1>4. \A i, j \in 1 .. n : h[i] = h[j] => i = j
    BY <1>1, <1>2
  <1>5. ASSUME NEW k \in 1 .. n  PROVE \E i \in 1 .. n : h[i] = k
    <2>1. PICK m \in 1 .. n : g[m] = k
      BY <1>2
    <2>2. PICK i \in 1 .. n : f[i] = m
      BY <1>1
    <2> QED
      BY <2>1, <2>2
  <1> HIDE DEF h
  <1>6. h \in Orders(n)
    BY <1>3, <1>4, <1>5, OrderIs
  <1> QED
    BY <1>6 DEF h

\* A sequence that is not empty has a largest entry.
LEMMA Largest ==
    ASSUME NEW n \in Nat, n > 0, NEW xs \in [1 .. n -> Int]
    PROVE  \E m \in 1 .. n : \A i \in 1 .. n : xs[i] <= xs[m]
  <1> DEFINE T == {k \in Nat : k + 1 <= n =>
                      \E m \in 1 .. k + 1 : \A i \in 1 .. k + 1 : xs[i] <= xs[m]}
  <1>1. 0 \in T
    <2>1. \A i \in 1 .. 0 + 1 : i = 1
      OBVIOUS
    <2>2. 1 \in 1 .. n /\ xs[1] <= xs[1]
      OBVIOUS
    <2>3. \A i \in 1 .. 0 + 1 : xs[i] <= xs[1]
      BY <2>1, <2>2
    <2> QED
      BY <2>3
  <1>2. ASSUME NEW k \in Nat, k \in T  PROVE k + 1 \in T
    <2> SUFFICES ASSUME k + 2 <= n
                 PROVE  \E m \in 1 .. k + 2 : \A i \in 1 .. k + 2 : xs[i] <= xs[m]
      OBVIOUS
    <2>1. PICK m \in 1 .. k + 1 : \A i \in 1 .. k + 1 : xs[i] <= xs[m]
      BY <1>2
    <2>2. /\ xs[m] \in Int /\ xs[k + 2] \in Int
          /\ \A i \in 1 .. k + 2 : xs[i] \in Int /\ (i \in 1 .. k + 1 \/ i = k + 2)
      OBVIOUS
    <2>3. CASE xs[k + 2] <= xs[m]
      <3>1. m \in 1 .. k + 2
        OBVIOUS
      <3>2. \A i \in 1 .. k + 2 : xs[i] <= xs[m]
        BY <2>1, <2>2, <2>3
      <3> QED
        BY <3>1, <3>2
    <2>4. CASE xs[m] <= xs[k + 2]
      <3>1. k + 2 \in 1 .. k + 2
        OBVIOUS
      <3>2. \A i \in 1 .. k + 2 : xs[i] <= xs[k + 2]
        BY <2>1, <2>2, <2>4
      <3> QED
        BY <3>1, <3>2
    <2> QED
      BY <2>2, <2>3, <2>4
  <1> HIDE DEF T
  <1>3. Nat \subseteq T
    BY <1>1, <1>2, Induction
  <1>4. n - 1 \in T
    BY <1>3
  <1> QED
    BY <1>4 DEF T

Ascending(p, xs, n) == \A i, j \in 1 .. n : i < j => xs[p[i]] <= xs[p[j]]

\* Every sequence can be sorted: the largest entry goes to the last place.
LEMMA OrderExists ==
    ASSUME NEW n \in Nat, NEW xs \in [1 .. n -> Int]
    PROVE  \E p \in Orders(n) : Ascending(p, xs, n)
  <1> DEFINE T == {k \in Nat : \A ys \in [1 .. k -> Int] :
                                  \E p \in Orders(k) : Ascending(p, ys, k)}
  <1>1. 0 \in T
    <2> SUFFICES ASSUME NEW ys \in [1 .. 0 -> Int]
                 PROVE  \E p \in Orders(0) : Ascending(p, ys, 0)
      OBVIOUS
    <2>1. [i \in 1 .. 0 |-> i] \in Orders(0)
      BY OrderIs
    <2> QED
      BY <2>1 DEF Ascending
  <1>2. ASSUME NEW k \in Nat, k \in T  PROVE k + 1 \in T
    <2> SUFFICES ASSUME NEW ys \in [1 .. k + 1 -> Int]
                 PROVE  \E p \in Orders(k + 1) : Ascending(p, ys, k + 1)
      OBVIOUS
    <2>1. \A zs \in [1 .. k -> Int] : \E p \in Orders(k) : Ascending(p, zs, k)
      BY <1>2
    <2> HIDE DEF T
    <2>2. k + 1 \in Nat /\ k + 1 > 0
      OBVIOUS
    <2>3. PICK m \in 1 .. k + 1 : \A i \in 1 .. k + 1 : ys[i] <= ys[m]
      BY <2>2, Largest
    <2> DEFINE zs == [i \in 1 .. k |-> IF i = m THEN ys[k + 1] ELSE ys[i]]
               moved == [v \in 1 .. k |-> IF v = m THEN k + 1 ELSE v]
    <2>4. zs \in [1 .. k -> Int]
      OBVIOUS
    <2>5. /\ \A v \in 1 .. k : /\ moved[v] \in 1 .. k + 1 /\ moved[v] # m
                               /\ ys[moved[v]] = zs[v]
          /\ \A v, w \in 1 .. k : moved[v] = moved[w] => v = w
      OBVIOUS
    <2>6. ASSUME NEW v \in 1 .. k + 1, v # m  PROVE \E u \in 1 .. k : moved[u] = v
      <3>1. CASE v = k + 1
        <4>1. m \in 1 .. k /\ moved[m] = v
          BY <2>6, <3>1
        <4> QED
          BY <4>1
      <3>2. CASE v # k + 1
        <4>1. v \in 1 .. k /\ moved[v] = v
          BY <2>6, <3>2
        <4> QED
          BY <4>1
      <3> QED
        BY <3>1, <3>2
    <2> HIDE DEF zs, moved
    <2>7. PICK p \in Orders(k) : Ascending(p, zs, k)
      BY <2>1, <2>4
    <2>8. /\ p \in [1 .. k -> 1 .. k] /\ \A i, j \in 1 .. k : p[i] = p[j] => i = j
          /\ \A v \in 1 .. k : \E i \in 1 .. k : p[i] = v
      BY OrderIs
    <2> DEFINE q == [i \in 1 .. k + 1 |-> IF i = k + 1 THEN m ELSE moved[p[i]]]
    <2>9. \A i \in 1 .. k + 1 : i \in 1 .. k \/ i = k + 1
      OBVIOUS
    <2>10. \A i \in 1 .. k : i \in 1 .. k + 1 /\ i # k + 1
      OBVIOUS
    <2>11. /\ k + 1 \in 1 .. k + 1 /\ q[k + 1] = m
           /\ \A i \in 1 .. k : q[i] = moved[p[i]] /\ p[i] \in 1 .. k
      <3>1. k + 1 \in 1 .. k + 1
        OBVIOUS
      <3>2. \A i \in 1 .. k : p[i] \in 1 .. k
        BY <2>8
      <3> QED
        BY <2>10, <3>1, <3>2
    <2>12. q \in [1 .. k + 1 -> 1 .. k + 1]
      BY <2>5, <2>8, <2>9
    <2> HIDE DEF q
    <2>13. ASSUME NEW i \in 1 .. k + 1, NEW j \in 1 .. k + 1, q[i] = q[j]  PROVE i = j
      <3>1. CASE i \in 1 .. k /\ j \in 1 .. k
        <4>1. moved[p[i]] = moved[p[j]] /\ p[i] \in 1 .. k /\ p[j] \in 1 .. k
          BY <2>11, <2>13, <3>1
        <4>2. p[i] = p[j]
          BY <2>5, <4>1
        <4> QED
          BY <2>8, <3>1, <4>2
      <3>2. ASSUME NEW a \in 1 .. k  PROVE q[a] # q[k + 1]
        <4>1. p[a] \in 1 .. k /\ q[a] = moved[p[a]] /\ q[k + 1] = m
          BY <2>11
        <4>2. moved[p[a]] # m
          BY <2>5, <4>1
        <4> QED
          BY <4>1, <4>2
      <3> QED
        BY <2>9, <2>13, <3>1, <3>2
    <2>14. ASSUME NEW v \in 1 .. k + 1  PROVE \E i \in 1 .. k + 1 : q[i] = v
      <3>1. CASE v # m
        <4>1. PICK u \in 1 .. k : moved[u] = v
          BY <2>6, <3>1
        <4>2. PICK i \in 1 .. k : p[i] = u
          BY <2>8
        <4> QED
          BY <2>10, <2>11, <4>1, <4>2
      <3> QED
        BY <2>11, <3>1
    <2>15. Ascending(q, ys, k + 1)
      <3> SUFFICES ASSUME NEW i \in 1 .. k + 1, NEW j \in 1 .. k + 1, i < j
                   PROVE  ys[q[i]] <= ys[q[j]]
        BY DEF Ascending
      <3>1. CASE j = k + 1
        BY <2>3, <2>11, <2>12, <3>1
      <3>2. CASE j # k + 1
        <4>1. i \in 1 .. k /\ j \in 1 .. k
          BY <3>2
        <4>2. zs[p[i]] <= zs[p[j]]
          BY <2>7, <4>1 DEF Ascending
        <4> QED
          BY <2>5, <2>11, <4>1, <4>2
      <3> QED
        BY <3>1, <3>2
    <2>16. q \in Orders(k + 1)
      BY <2>2, <2>12, <2>13, <2>14, OrderIs
    <2> QED
      BY <2>15, <2>16
  <1> HIDE DEF T
  <1>3. n \in T
    BY <1>1, <1>2, Induction
  <1> QED
    BY <1>3 DEF T

\* What sort.Slice leaves: the same entries in some order, and ascending.
LEMMA SortedIs ==
    ASSUME NEW n \in Nat, NEW xs \in [1 .. n -> Int]
    PROVE  \E p \in Orders(n) : Ascending(p, xs, n) /\ Sorted(xs) = [i \in 1 .. n |-> xs[p[i]]]
  <1> DEFINE order == CHOOSE p \in Orders(n) : Ascending(p, xs, n)
  <1>1. order \in Orders(n) /\ Ascending(order, xs, n)
    BY OrderExists
  <1>2. DOMAIN xs = 1 .. n
    OBVIOUS
  <1>3. Sorted(xs) = [i \in 1 .. n |-> xs[order[i]]]
    BY <1>2 DEF Sorted, Orders, Ascending
  <1> QED
    BY <1>1, <1>3

LEMMA LenIs == ASSUME NEW n \in Nat, NEW S, NEW xs \in [1 .. n -> S]  PROVE Len(xs) = n
  OBVIOUS

LEMMA RankIs ==
    ASSUME NEW n \in Nat, n > 0, NEW p \in {50, 95, 99}
    PROVE  ((n - 1) * p) \div 100 \in 0 .. n - 1
  OBVIOUS

Below(ys, v) == {i \in DOMAIN ys : ys[i] < v}
UpTo(ys, v) == {i \in DOMAIN ys : ys[i] <= v}
HasRank(ys, v, m) == Cardinality(Below(ys, v)) < m /\ Cardinality(UpTo(ys, v)) >= m

\* In ascending order, fewer than m entries are below the m-th, and at least m are
\* not above it.
LEMMA Ranked ==
    \A n \in Nat : \A ys \in Row(n) : \A c \in Orders(n) :
        Ascending(c, ys, n) => \A m \in 1 .. n : HasRank(ys, ys[c[m]], m)
  <1> SUFFICES ASSUME NEW n \in Nat, NEW ys \in Row(n), NEW c \in Orders(n),
                      Ascending(c, ys, n), NEW m \in 1 .. n
               PROVE  HasRank(ys, ys[c[m]], m)
    OBVIOUS
  <1>0. ys \in [1 .. n -> Int]
    BY DEF Row
  <1>1. /\ c \in [1 .. n -> 1 .. n] /\ \A i, j \in 1 .. n : c[i] = c[j] => i = j
        /\ \A k \in 1 .. n : \E i \in 1 .. n : c[i] = k
    BY OrderMeans
  <1>2. c[m] \in 1 .. n /\ m - 1 \in Nat
    BY <1>1
  <1>3. PICK v \in Int : v = ys[c[m]]
    BY <1>0, <1>2
  <1>4. ASSUME NEW k \in 1 .. n
        PROVE  /\ c[k] \in 1 .. n /\ ys[c[k]] \in Int
               /\ k <= m => ys[c[k]] <= v
               /\ k >= m => v <= ys[c[k]]
    <2>1. c[k] \in 1 .. n
      BY <1>1
    <2>2. ys[c[k]] \in Int
      BY <1>0, <2>1
    <2>3. k < m => ys[c[k]] <= v
      BY <1>2, <1>3 DEF Ascending
    <2>4. k > m => v <= ys[c[k]]
      BY <1>2, <1>3 DEF Ascending
    <2> QED
      BY <1>3, <2>1, <2>2, <2>3, <2>4
  <1> DEFINE below == {i \in 1 .. n : ys[i] < v}
             upto == {i \in 1 .. n : ys[i] <= v}
  <1>7. Below(ys, v) = below /\ UpTo(ys, v) = upto
    BY <1>0 DEF Below, UpTo
  <1>5. Cardinality(below) < m
    <2> DEFINE image == {c[k] : k \in 1 .. m - 1}
               f == [k \in 1 .. m - 1 |-> c[k]]
    <2>1. f \in Surjection(1 .. m - 1, image)
      BY DEF Surjection
    <2>2. IsFiniteSet(1 .. m - 1) /\ Cardinality(1 .. m - 1) = m - 1
      BY <1>2, FirstOnes
    <2> HIDE DEF f
    <2>3. below \subseteq image
      <3> SUFFICES ASSUME NEW i \in 1 .. n, ys[i] < v  PROVE i \in image
        OBVIOUS
      <3>1. PICK k \in 1 .. n : c[k] = i
        BY <1>1
      <3>2. ~(v <= ys[c[k]])
        BY <1>0, <3>1
      <3>3. k \in 1 .. m - 1
        BY <1>4, <3>2
      <3> QED
        BY <3>1, <3>3
    <2> HIDE DEF image, below
    <2>4. IsFiniteSet(image) /\ Cardinality(image) <= m - 1
      BY <2>1, <2>2, FS_Surjection
    <2>5. IsFiniteSet(below) /\ Cardinality(below) <= Cardinality(image)
      BY <2>3, <2>4, FS_Subset
    <2>6. Cardinality(below) \in Nat /\ Cardinality(image) \in Nat
      BY <2>4, <2>5, FS_CardinalityType
    <2> QED
      BY <2>4, <2>5, <2>6
  <1>6. Cardinality(upto) >= m
    <2> DEFINE f == [k \in 1 .. m |-> c[k]]
    <2>1. \A k \in 1 .. m : k \in 1 .. n /\ k <= m
      OBVIOUS
    <2>2. ASSUME NEW k \in 1 .. m  PROVE c[k] \in upto
      BY <1>4, <2>1
    <2> HIDE DEF upto
    <2>3. f \in Injection(1 .. m, upto)
      <3>1. f \in [1 .. m -> upto]
        BY <2>2
      <3>2. \A i, j \in 1 .. m : f[i] = f[j] => i = j
        BY <1>1, <2>1
      <3> QED
        BY <3>1, <3>2 DEF Injection, IsInjective
    <2> HIDE DEF f
    <2>4. IsFiniteSet(upto)
      <3>1. IsFiniteSet(1 .. n) /\ upto \subseteq 1 .. n
        BY FirstOnes DEF upto
      <3> QED
        BY <3>1, FS_Subset
    <2>5. Cardinality(1 .. m) = m
      BY FirstOnes
    <2>6. Cardinality(1 .. m) <= Cardinality(upto) /\ Cardinality(upto) \in Nat
      BY <2>3, <2>4, FS_Injection, FS_CardinalityType
    <2> QED
      BY <2>5, <2>6
  <1> HIDE DEF below, upto
  <1> QED
    BY <1>3, <1>5, <1>6, <1>7 DEF HasRank

Reordered(xs, ys, b, n) == \A i \in 1 .. n : xs[i] = ys[b[i]]

\* The percentile of some latencies is that of the same ones in any order.
LEMMA PercentileIs ==
    ASSUME NEW n \in Nat, n > 0, NEW xs \in Row(n), NEW ys \in Row(n),
           NEW b \in Orders(n), Reordered(xs, ys, b, n), NEW p \in {50, 95, 99}
    PROVE  IsPercentile(Percentile(xs, p), ys, p)
  <1>1. PICK o \in Orders(n) :
            Ascending(o, xs, n) /\ Sorted(xs) = [i \in 1 .. n |-> xs[o[i]]]
    BY SortedIs DEF Row
  <1> DEFINE rank == ((n - 1) * p) \div 100
             c == [i \in 1 .. n |-> b[o[i]]]
  <1>2. rank \in 0 .. n - 1 /\ rank + 1 \in 1 .. n
    <2>1. rank \in 0 .. n - 1
      BY RankIs
    <2> HIDE DEF rank
    <2> QED
      BY <2>1
  <1>3. Len(xs) = n /\ Len(ys) = n /\ DOMAIN ys = 1 .. n /\ xs # << >>
    BY LenIs DEF Row
  <1>4. c \in Orders(n)
    BY OrderOfOrder
  <1>5. ASSUME NEW i \in 1 .. n  PROVE Sorted(xs)[i] = ys[c[i]] /\ xs[o[i]] = ys[c[i]]
    <2>1. o[i] \in 1 .. n
      BY OrderMeans
    <2>2. xs[o[i]] = ys[b[o[i]]]
      BY <2>1 DEF Reordered
    <2> QED
      BY <1>1, <2>2
  <1> HIDE DEF c
  <1>6. Ascending(c, ys, n)
    BY <1>1, <1>5 DEF Ascending
  <1>7. Percentile(xs, p) = ys[c[rank + 1]]
    BY <1>2, <1>3, <1>5 DEF Percentile
  <1> HIDE DEF rank
  <1>8. /\ Cardinality(Below(ys, ys[c[rank + 1]])) < rank + 1
        /\ Cardinality(UpTo(ys, ys[c[rank + 1]])) >= rank + 1
    <2>1. \A m \in 1 .. n : HasRank(ys, ys[c[m]], m)
      BY <1>4, <1>6, Ranked
    <2>2. HasRank(ys, ys[c[rank + 1]], rank + 1)
      BY <1>2, <2>1
    <2> QED
      BY <2>2 DEF HasRank
  <1>9. /\ Cardinality(Below(ys, ys[c[rank + 1]])) \in Nat
        /\ Cardinality(UpTo(ys, ys[c[rank + 1]])) \in Nat
    <2>1. /\ Below(ys, ys[c[rank + 1]]) \subseteq 1 .. n
          /\ UpTo(ys, ys[c[rank + 1]]) \subseteq 1 .. n
      BY <1>3 DEF Below, UpTo
    <2>2. IsFiniteSet(1 .. n)
      BY FirstOnes
    <2> QED
      BY <2>1, <2>2, FS_Subset, FS_CardinalityType
  <1>10. /\ Cardinality(Below(ys, ys[c[rank + 1]])) <= rank
         /\ Cardinality(UpTo(ys, ys[c[rank + 1]])) > rank
    BY <1>2, <1>8, <1>9
  <1> QED
    BY <1>3, <1>7, <1>10 DEF IsPercentile, Below, UpTo, rank

-------------------------------------------------------------------------------
\* The place k after place h in the latency ring.
After(h, k) == IF h + k < Samples THEN h + k ELSE h + k - Samples

\* Where the oldest latency is: the ring is filled from its first place.
Oldest == IF latencyN < Samples THEN 0 ELSE latencyHead

LatestInRing ==
    /\ latest \in Seq(0 .. MaxUsec) /\ Len(latest) = latencyN
    /\ latencyN < Samples => latencyHead = latencyN
    /\ \A i \in 1 .. latencyN : latest[i] = latencyRing[After(Oldest, i - 1)]

LEMMA NextPlace ==
    ASSUME NEW h \in Place
    PROVE  (h + 1) % Samples = After(h, 1) /\ After(h, 1) \in Place
  <1>1. h + 1 < Samples => (h + 1) % Samples = h + 1
    BY RingAssumption DEF Place
  <1>2. Samples % Samples = 0
    BY RingAssumption
  <1>3. ~(h + 1 < Samples) => h + 1 = Samples
    BY RingAssumption DEF Place
  <1> QED
    BY <1>1, <1>2, <1>3, RingAssumption DEF After, Place

LEMMA LatestSample ==
    ASSUME IInv, LatestInRing, NEW e \in Exchange, Sample(e)
    PROVE  LatestInRing'
  <1> DEFINE l == Clamped(usec[e])
             xs == Append(latest, l)
  <1>1. /\ latencyHead \in Place /\ latencyN \in 0 .. Samples /\ Samples \in Nat \ {0}
        /\ latencyRing \in [Place -> 0 .. MaxUsec]
    BY RingAssumption DEF IInv, TypeOK
  <1>2. l \in 0 .. MaxUsec
    BY RingAssumption DEF IInv, TypeOK, Clamped
  <1> HIDE DEF l
  <1>3. /\ latest \in Seq(0 .. MaxUsec) /\ Len(latest) = latencyN
        /\ latencyN < Samples => latencyHead = latencyN
        /\ \A i \in 1 .. latencyN : latest[i] = latencyRing[After(Oldest, i - 1)]
    BY DEF LatestInRing
  <1>4. /\ xs \in Seq(0 .. MaxUsec) /\ Len(xs) = latencyN + 1 /\ xs[latencyN + 1] = l
        /\ \A i \in 1 .. latencyN : xs[i] = latest[i]
    BY <1>1, <1>2, <1>3
  <1> HIDE DEF xs
  <1>5. /\ latencyRing' = [latencyRing EXCEPT ![latencyHead] = l]
        /\ latencyHead' = After(latencyHead, 1) /\ latencyHead' \in Place
        /\ latencyN' = OneMore(latencyN)
        /\ latest' = IF Len(xs) > Samples THEN Tail(xs) ELSE xs
    BY <1>1, NextPlace DEF Sample, l, xs
  <1>6. CASE latencyN < Samples
    <2>1. latencyN' = latencyN + 1 /\ latest' = xs /\ Oldest = 0
      BY <1>1, <1>4, <1>5, <1>6 DEF OneMore, Oldest
    <2>2. latencyN' < Samples => latencyHead' = latencyN'
      BY <1>1, <1>3, <1>5, <1>6, <2>1 DEF After, Place
    <2>3. Oldest' = 0
      BY <1>1, <1>3, <1>5, <1>6, <2>1 DEF After, Place, Oldest
    <2>4. ASSUME NEW i \in 1 .. latencyN + 1
          PROVE  xs[i] = latencyRing'[After(0, i - 1)]
      <3>1. After(0, i - 1) = i - 1 /\ i - 1 \in Place
        BY <1>1, <1>6 DEF After, Place
      <3>2. CASE i = latencyN + 1
        BY <1>1, <1>3, <1>4, <1>5, <1>6, <3>1, <3>2
      <3>3. CASE i # latencyN + 1
        <4>1. i \in 1 .. latencyN /\ i - 1 # latencyHead
          BY <1>1, <1>3, <1>6, <3>3 DEF Place
        <4>2. xs[i] = latencyRing[i - 1]
          BY <1>3, <1>4, <2>1, <3>1, <4>1
        <4> QED
          BY <1>1, <1>5, <3>1, <4>1, <4>2
      <3> QED
        BY <3>2, <3>3
    <2> QED
      BY <1>4, <2>1, <2>2, <2>3, <2>4 DEF LatestInRing, After
  <1>7. CASE latencyN = Samples
    <2>1. latencyN' = Samples /\ latest' = Tail(xs) /\ Oldest = latencyHead
      BY <1>1, <1>4, <1>5, <1>7 DEF OneMore, Oldest
    <2>2. Oldest' = After(latencyHead, 1)
      BY <1>1, <1>5, <2>1 DEF Oldest
    <2>3. /\ Tail(xs) \in Seq(0 .. MaxUsec) /\ Len(Tail(xs)) = Samples
          /\ \A i \in 1 .. Samples : Tail(xs)[i] = xs[i + 1]
      BY <1>1, <1>4, <1>7
    <2>4. ASSUME NEW i \in 1 .. Samples
          PROVE  xs[i + 1] = latencyRing'[After(After(latencyHead, 1), i - 1)]
      <3>1. CASE i = Samples
        <4>1. After(After(latencyHead, 1), i - 1) = latencyHead
          BY <1>1, <3>1 DEF After, Place
        <4> QED
          BY <1>1, <1>4, <1>5, <1>7, <3>1, <4>1
      <3>2. CASE i # Samples
        <4>1. /\ After(After(latencyHead, 1), i - 1) = After(latencyHead, i)
              /\ After(latencyHead, i) \in Place /\ After(latencyHead, i) # latencyHead
          BY <1>1, <3>2 DEF After, Place
        <4>2. i + 1 \in 1 .. latencyN /\ (i + 1) - 1 = i
          BY <1>1, <1>7, <3>2
        <4>3. xs[i + 1] = latencyRing[After(latencyHead, i)]
          BY <1>3, <1>4, <2>1, <4>2
        <4> QED
          BY <1>1, <1>5, <4>1, <4>3
      <3> QED
        BY <3>1, <3>2
    <2> QED
      BY <2>1, <2>2, <2>3, <2>4, <1>5, <1>7 DEF LatestInRing, After
  <1> QED
    BY <1>1, <1>6, <1>7

LEMMA LatestStep == IInv /\ LatestInRing /\ [Next]_vars => LatestInRing'
  <1> SUFFICES ASSUME IInv, LatestInRing, [Next]_vars  PROVE LatestInRing'
    OBVIOUS
  <1>1. ASSUME UNCHANGED <<latencyVars, latest>>  PROVE LatestInRing'
    BY <1>1 DEF LatestInRing, Oldest
  <1>2. (\E e \in Exchange : Sample(e)) \/ UNCHANGED <<latencyVars, latest>>
    BY DEF Next, Http, Upgraded, Complete, BumpBytes, BumpRequest, Report, BumpReport,
           SnapCopy, SnapLoad, Tick, vars
  <1> QED
    BY <1>1, <1>2, LatestSample

\* What a snapshot copies is the latest latencies, in the ring's order.
LEMMA FilledIsLatest ==
    ASSUME IInv, LatestInRing
    PROVE  /\ latencyN \in Nat /\ Filled \in Row(latencyN)
           /\ latest \in Row(latencyN)
           /\ \E b \in Orders(latencyN) : Reordered(Filled, latest, b, latencyN)
  <1>1. /\ latencyHead \in Place /\ latencyN \in 0 .. Samples /\ Samples \in Nat \ {0}
        /\ latencyRing \in [Place -> 0 .. MaxUsec] /\ latencyN \in Nat
    BY RingAssumption DEF IInv, TypeOK
  <1>2. /\ latest \in Seq(0 .. MaxUsec) /\ Len(latest) = latencyN
        /\ \A i \in 1 .. latencyN : latest[i] = latencyRing[After(Oldest, i - 1)]
    BY DEF LatestInRing
  <1>3. latest \in Row(latencyN)
    <2>1. latest \in [1 .. latencyN -> 0 .. MaxUsec]
      BY <1>2, LenProperties
    <2> QED
      BY <2>1 DEF Row
  <1>4. \A i \in 1 .. latencyN : i - 1 \in Place
    BY <1>1 DEF Place
  <1>5. Filled \in Row(latencyN) /\ \A i \in 1 .. latencyN : Filled[i] = latencyRing[i - 1]
    BY <1>1, <1>4 DEF Filled, Row
  <1>6. Oldest \in 0 .. Samples - 1 /\ (Oldest = 0 \/ latencyN = Samples)
    BY <1>1 DEF Oldest, Place
  <1> DEFINE rank(i) == IF i > Oldest THEN i - Oldest ELSE i - Oldest + Samples
             b == [i \in 1 .. latencyN |-> rank(i)]
  <1>7. ASSUME NEW i \in 1 .. latencyN
        PROVE  rank(i) \in 1 .. latencyN /\ After(Oldest, rank(i) - 1) = i - 1
    <2>1. CASE i > Oldest
      BY <1>1, <1>6, <2>1 DEF After
    <2>2. CASE ~(i > Oldest)
      BY <1>1, <1>6, <2>2 DEF After
    <2> QED
      BY <2>1, <2>2
  <1>8. ASSUME NEW k \in 1 .. latencyN  PROVE \E i \in 1 .. latencyN : rank(i) = k
    <2>1. CASE Oldest + k <= Samples
      <3>1. Oldest + k \in 1 .. latencyN
        BY <1>1, <1>6, <2>1
      <3>2. rank(Oldest + k) = k
        BY <1>1, <1>6
      <3> QED
        BY <3>1, <3>2
    <2>2. CASE ~(Oldest + k <= Samples)
      <3>1. Oldest + k - Samples \in 1 .. latencyN
        BY <1>1, <1>6, <2>2
      <3>2. rank(Oldest + k - Samples) = k
        BY <1>1, <1>6, <2>2
      <3> QED
        BY <3>1, <3>2
    <2> QED
      BY <2>1, <2>2
  <1> HIDE DEF rank
  <1>9. \A i \in 1 .. latencyN : b[i] = rank(i)
    OBVIOUS
  <1>10. b \in [1 .. latencyN -> 1 .. latencyN]
    BY <1>7
  <1> HIDE DEF b
  <1>11. ASSUME NEW i \in 1 .. latencyN, NEW j \in 1 .. latencyN, b[i] = b[j]  PROVE i = j
    <2>1. i - 1 = j - 1
      BY <1>7, <1>9, <1>11
    <2> QED
      BY <1>1, <2>1
  <1>12. b \in Orders(latencyN)
    <2>1. \A k \in 1 .. latencyN : \E i \in 1 .. latencyN : b[i] = k
      BY <1>8, <1>9
    <2>2. \A i, j \in 1 .. latencyN : b[i] = b[j] => i = j
      BY <1>11
    <2> QED
      BY <1>1, <1>10, <2>1, <2>2, OrderIs
  <1>13. Reordered(Filled, latest, b, latencyN)
    BY <1>2, <1>5, <1>7, <1>9 DEF Reordered
  <1> QED
    BY <1>1, <1>3, <1>5, <1>12, <1>13

\* A snapshot's percentiles are those of the latest latencies, as many as the
\* ring holds: none of an older request, and none of a place never filled.
THEOREM PercentilesShown == Spec => PercentilesOfLatest
  <1>1. Init => IInv /\ LatestInRing
    <2>1. Init => LatestInRing
      BY RingAssumption DEF Init, LatestInRing
    <2> QED
      BY <2>1, InitIInv
  <1>2. IInv /\ LatestInRing /\ [Next]_vars => (IInv /\ LatestInRing)'
    BY IInvStep, LatestStep
  <1>3. ASSUME IInv, LatestInRing, [Next]_vars, spc = "idle", spc' = "load", latest # << >>
        PROVE  /\ IsPercentile(Returned'.p50, latest, 50)
               /\ IsPercentile(Returned'.p95, latest, 95)
               /\ IsPercentile(Returned'.p99, latest, 99)
    <2>1. PICK now \in Readings : SnapCopy(now)
      BY <1>3 DEF Next, Http, Upgraded, Complete, BumpBytes, BumpRequest, BumpReport,
                  Sample, Report, SnapLoad, Tick, vars
    <2>2. snap'.samples = Filled
      BY <2>1 DEF SnapCopy
    <2>3. /\ Returned'.p50 = Percentile(Filled, 50) /\ Returned'.p95 = Percentile(Filled, 95)
          /\ Returned'.p99 = Percentile(Filled, 99)
      BY <2>2 DEF Returned
    <2>4. latencyN > 0
      BY <1>3 DEF LatestInRing
    <2>5. PICK b \in Orders(latencyN) : Reordered(Filled, latest, b, latencyN)
      BY <1>3, FilledIsLatest
    <2>6. /\ latencyN \in Nat /\ Filled \in Row(latencyN)
          /\ latest \in Row(latencyN)
      BY <1>3, FilledIsLatest
    <2>7. \A p \in {50, 95, 99} : IsPercentile(Percentile(Filled, p), latest, p)
      BY <2>4, <2>5, <2>6, PercentileIs
    <2> QED
      BY <2>3, <2>7
  <1>4. IInv /\ LatestInRing /\ [Next]_vars =>
            [spc = "idle" /\ spc' = "load" /\ latest # << >> =>
                /\ IsPercentile(Returned'.p50, latest, 50)
                /\ IsPercentile(Returned'.p95, latest, 95)
                /\ IsPercentile(Returned'.p99, latest, 99)]_vars
    BY <1>3
  <1> QED
    BY <1>1, <1>2, <1>4, PTL DEF Spec, PercentilesOfLatest
===============================================================================
