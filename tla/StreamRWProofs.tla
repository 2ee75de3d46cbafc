---------------------------- MODULE StreamRWProofs ----------------------------
(***************************************************************************)
(* What streamRW guarantees of one stream, for any number of units and any *)
(* order of a handler's calls.                                             *)
(*                                                                         *)
(* Two facts carry the rest: nothing has been sent or buffered before the  *)
(* status is chosen, and a head that is buffered is the first thing to     *)
(* leave (Heads).  What the server decodes once the head has left depends  *)
(* on the framing that was chosen with it (Framed), and what it cannot     *)
(* decode comes where nothing can be decoded any more (Spoilt).            *)
(***************************************************************************)
EXTENDS StreamRW, TLAPS

\* Before the status nothing was written; a head in bw is ahead of everything;
\* the framing the server is told of is the one WriteHeader chose.
Heads ==
    /\ hijacked => status = "none"
    /\ status = "none" => ~buffered /\ stage = "head" /\ ~garbled /\ accepted = 0
    /\ buffered => stage = "head"
    /\ stage = "head" => read = 0
    /\ stage = "counting" => header = "length"
    /\ read =< accepted

\* Where a server stands that was sent an honest handler's head.
Framed ==
    Honest /\ ~broken /\ ~hijacked =>
        /\ ~garbled /\ read = accepted
        /\ buffered => accepted = 0
        /\ serve = "done" => ~buffered /\ status # "none"
        /\ status = "empty" => accepted = 0 /\ (~buffered => stage = "complete")
        /\ status = "final" /\ header = "none" /\ ~buffered =>
               stage = IF serve = "done" THEN "complete" ELSE "chunks"
        /\ status = "final" /\ header = "length" /\ ~buffered =>
               stage = IF accepted = length THEN "complete" ELSE "counting"

IInv == TypeOK /\ Heads

\* TypeOK in three parts, which different steps disturb.
Flags == {hijacked, buffered, garbled, broken} \subseteq BOOLEAN
Counts == {length, accepted, read, raw} \subseteq 0 .. MaxUnits
Places ==
    /\ serve \in {"request", "handler", "done", "panicked", "unserved"}
    /\ header \in {"none", "length", "chunked"}
    /\ status \in Code \cup {"none"}
    /\ stage \in {"head", "chunks", "counting", "complete"}

USE UnitsAssumption DEF rwVars, peerVars, Code

-------------------------------------------------------------------------------
LEMMA TypeParts == TypeOK <=> Flags /\ Counts /\ Places
  <1>1. TypeOK => Flags
    BY DEF TypeOK, Flags
  <1>2. TypeOK => Counts /\ Places
    BY DEF TypeOK, Counts, Places
  <1>3. Flags /\ Counts /\ Places => TypeOK
    BY DEF TypeOK, Flags, Counts, Places
  <1> QED
    BY <1>1, <1>2, <1>3

LEMMA InitIInv == Init => IInv /\ Framed /\ TruncationShows
  <1> SUFFICES ASSUME Init  PROVE IInv /\ Framed /\ TruncationShows
    OBVIOUS
  <1>1. Flags
    BY DEF Init, Flags
  <1>2. Counts
    BY DEF Init, Counts
  <1>3. Places
    BY DEF Init, Places
  <1>4. Heads
    BY DEF Init, Heads
  <1>5. Framed /\ TruncationShows
    BY DEF Init, Framed, TruncationShows
  <1> QED
    BY <1>1, <1>2, <1>3, <1>4, <1>5, TypeParts DEF IInv

\* A flush takes the server past the head, or changes nothing.
LEMMA FlushPassesHead ==
    ASSUME IInv
    PROVE  /\ Status \in Code
           /\ Flushed \in {"head", "chunks", "counting", "complete"}
           /\ Flushed = stage \/ (stage = "head" /\ Flushed # "head")
           /\ Flushed = "counting" => header = "length"
  <1>1. /\ status \in Code \cup {"none"}
        /\ header \in {"none", "length", "chunked"}
        /\ stage \in {"head", "chunks", "counting", "complete"}
    BY DEF IInv, TypeOK
  <1>2. /\ status = "none" \/ buffered => stage = "head"
        /\ stage = "counting" => header = "length"
    BY DEF IInv, Heads
  <1>3. Status \in Code
    BY <1>1 DEF Status
  <1>4. /\ AfterHead(Status) \in {"chunks", "counting", "complete"}
        /\ AfterHead(Status) = "counting" => header = "length"
    BY DEF AfterHead
  <1>5. CASE (status = "none" \/ buffered) /\ ~broken
    <2>1. Flushed = AfterHead(Status) /\ stage = "head"
      BY <1>2, <1>5 DEF Flushed
    <2> QED
      BY <1>3, <1>4, <2>1
  <1>6. CASE ~((status = "none" \/ buffered) /\ ~broken)
    <2>1. Flushed = stage
      BY <1>6 DEF Flushed
    <2>2. Flushed \in {"head", "chunks", "counting", "complete"}
      BY <1>1, <2>1
    <2>3. Flushed = "counting" => header = "length"
      BY <1>2, <2>1
    <2> QED
      BY <1>3, <2>1, <2>2, <2>3
  <1> QED
    BY <1>5, <1>6

\* Types and Heads, one step per action.
LEMMA IInvStep == IInv /\ [Next]_vars => IInv'
  <1> SUFFICES ASSUME IInv, [Next]_vars  PROVE Flags' /\ Counts' /\ Places' /\ Heads'
    BY TypeParts DEF IInv, TypeOK, Flags, Counts, Places
  <1>0. Flags /\ Counts /\ Places /\ Heads
    BY TypeParts DEF IInv
  <1>1. CASE UNCHANGED <<status, header, hijacked, buffered, accepted, read, garbled, stage>>
             /\ UNCHANGED <<length, raw>>
             /\ serve' \in {"request", "handler", "done", "panicked", "unserved"}
             /\ broken' \in BOOLEAN
    <2>1. Flags'
      BY <1>0, <1>1 DEF Flags
    <2>2. Counts' /\ Places' /\ Heads'
      BY <1>0, <1>1 DEF Counts, Places, Heads
    <2> QED
      BY <2>1, <2>2
  <1>2. CASE SetHeader
    <2>1. Flags'
      BY <1>0, <1>2 DEF Flags, SetHeader
    <2>2. Counts' /\ Places'
      BY <1>0, <1>2 DEF Counts, Places, SetHeader
    <2>3. Heads'
      BY <1>0, <1>2 DEF Heads, SetHeader
    <2> QED
      BY <2>1, <2>2, <2>3
  <1>3. ASSUME NEW code \in Code, WriteHeader(code)
        PROVE  Flags' /\ Counts' /\ Places' /\ Heads'
    <2>1. Flags'
      BY <1>0, <1>3 DEF Flags, WriteHeader
    <2>2. Counts' /\ Places'
      BY <1>0, <1>3 DEF Counts, Places, WriteHeader
    <2>3. Heads'
      BY <1>0, <1>3 DEF Heads, WriteHeader, MayWriteHeader
    <2> QED
      BY <2>1, <2>2, <2>3
  <1>4. CASE Write
    <2>1. /\ UNCHANGED <<serve, header, length, hijacked, raw, broken>>
          /\ ~hijacked /\ status' = Status /\ buffered' = FALSE
          /\ accepted' = accepted + 1 /\ accepted < MaxUnits
          /\ UnitArrives(Flushed, Chunked(Status))
      BY <1>4 DEF Write
    <2>2. /\ read' \in {read, read + 1} /\ garbled' \in BOOLEAN
          /\ stage' = "head" => read' = read /\ Flushed = "head"
          /\ stage' = "complete" \/ stage' = Flushed
      BY <2>1 DEF UnitArrives
    <2>3. Flags'
      BY <1>0, <2>1, <2>2 DEF Flags
    <2>4. Counts'
      BY <1>0, <2>1, <2>2 DEF Counts, Heads
    <2>5. Places'
      BY <1>0, <2>1, <2>2, FlushPassesHead DEF Places
    <2>6. Heads'
      BY <1>0, <2>1, <2>2, FlushPassesHead DEF Heads, Counts
    <2> QED
      BY <2>3, <2>4, <2>5, <2>6
  <1>5. CASE WriteLost
    <2>1. Flags'
      BY <1>0, <1>5 DEF Flags, WriteLost
    <2>2. Counts'
      BY <1>0, <1>5 DEF Counts, WriteLost
    <2>3. Places' /\ Heads'
      BY <1>0, <1>5, FlushPassesHead DEF Counts, Places, Heads, WriteLost
    <2> QED
      BY <2>1, <2>2, <2>3
  <1>6. CASE Flush
    <2>1. Flags'
      BY <1>0, <1>6 DEF Flags, Flush
    <2>2. Counts' /\ Places' /\ Heads'
      BY <1>0, <1>6, FlushPassesHead DEF Counts, Places, Heads, Flush
    <2> QED
      BY <2>1, <2>2
  <1>7. CASE Hijack
    <2>1. Flags'
      BY <1>0, <1>7 DEF Flags, Hijack
    <2>2. Counts' /\ Places' /\ Heads'
      BY <1>0, <1>7 DEF Counts, Places, Heads, Hijack, MayHijack
    <2> QED
      BY <2>1, <2>2
  <1>8. CASE WriteRaw
    <2>1. Flags'
      BY <1>0, <1>8 DEF Flags, WriteRaw
    <2>2. Counts' /\ Places'
      BY <1>0, <1>8 DEF Counts, Places, WriteRaw
    <2>3. Heads'
      BY <1>0, <1>8 DEF Heads, WriteRaw
    <2> QED
      BY <2>1, <2>2, <2>3
  <1>9. CASE Returns
    <2>1. /\ UNCHANGED <<header, length, hijacked, accepted, read, raw, broken>>
          /\ serve' = "done"
      BY <1>9 DEF Returns
    <2>2. CASE hijacked
      <3>1. UNCHANGED <<status, buffered, stage, garbled>>
        BY <1>9, <2>2 DEF Returns, Finishes
      <3> QED
        BY <1>0, <1>1, <2>1, <3>1 DEF Flags
    <2>3. CASE ~hijacked
      <3>1. /\ status' = Status /\ buffered' = FALSE
            /\ stage' \in {"complete", Flushed} /\ garbled' \in BOOLEAN
        BY <1>9, <2>3 DEF Returns, Finishes
      <3>2. Flags'
        BY <1>0, <2>1, <3>1 DEF Flags
      <3>3. Counts' /\ Places'
        BY <1>0, <2>1, <3>1, FlushPassesHead DEF Counts, Places
      <3>4. Heads'
        BY <1>0, <2>1, <2>3, <3>1, FlushPassesHead DEF Heads
      <3> QED
        BY <3>2, <3>3, <3>4
    <2> QED
      BY <2>2, <2>3
  <1>10. CASE ReadRequest \/ NoRequest \/ Panics \/ Breaks
    BY <1>0, <1>1, <1>10 DEF ReadRequest, NoRequest, Panics, Breaks, Flags, Places
  <1>11. CASE UNCHANGED vars
    BY <1>0, <1>1, <1>11 DEF vars, Flags, Places
  <1> QED
    BY <1>2, <1>3, <1>4, <1>5, <1>6, <1>7, <1>8, <1>9, <1>10, <1>11 DEF Next

\* The types and what precedes what hold of every handler.
THEOREM Invariance == Spec => []IInv
  BY InitIInv, IInvStep, PTL DEF Spec

\* streamRW's fields and what the server has decoded keep their types: no more is
\* read than was accepted.
THEOREM TypeCorrect == Spec => []TypeOK
  <1>1. IInv => TypeOK
    BY DEF IInv
  <1> QED
    BY Invariance, <1>1, PTL

\* A stream that was taken over carries what the handler writes and nothing else
\* (Hijack, and the tests of hijacked in WriteHeader, Write, Flush and finish).
THEOREM RawStaysRaw == Spec => []HijackedRaw
  <1>1. IInv => HijackedRaw
    BY DEF IInv, Heads, HijackedRaw
  <1> QED
    BY Invariance, <1>1, PTL

-------------------------------------------------------------------------------
\* A response becomes complete by its length, by its status, or by finish.
LEMMA TruncationStep == IInv /\ TruncationShows /\ [Next]_vars => TruncationShows'
  <1> SUFFICES ASSUME IInv, TruncationShows, [Next]_vars  PROVE TruncationShows'
    OBVIOUS
  <1> USE DEF TruncationShows
  <1> DEFINE Complete == \/ Status \in {"empty", "info"}
                         \/ header = "length" /\ read = length
  <1>1. serve = "handler" /\ Flushed = "complete" => Complete
    <2>1. CASE Flushed = stage /\ stage # "head"
      BY <2>1 DEF IInv, Heads, TypeOK, Status, Flushed, AfterHead
    <2>2. CASE Flushed # stage
      BY <2>2 DEF IInv, Heads, TypeOK, Status, Flushed, AfterHead
    <2> QED
      BY <2>1, <2>2
  <1>2. CASE Write
    <2>1. UnitArrives(Flushed, Chunked(Status)) /\ status' = Status
          /\ UNCHANGED <<header, length, serve>> /\ serve = "handler"
      BY <1>2 DEF Write
    <2>2. CASE Flushed = "complete"
      BY <1>1, <2>1, <2>2 DEF UnitArrives
    <2>3. CASE Flushed # "complete"
      BY <2>1, <2>3, FlushPassesHead DEF UnitArrives
    <2> QED
      BY <2>2, <2>3
  <1>3. CASE Flush
    BY <1>1, <1>3 DEF Flush
  <1>4. CASE Returns
    BY <1>4 DEF Returns
  <1>5. CASE SetHeader
    BY <1>5 DEF SetHeader, IInv, Heads
  <1>6. ASSUME NEW code \in Code, WriteHeader(code)  PROVE TruncationShows'
    BY <1>6 DEF WriteHeader, MayWriteHeader, IInv, Heads
  <1>7. CASE WriteLost
    BY <1>7 DEF WriteLost, Status, IInv, Heads
  <1>8. CASE ReadRequest \/ NoRequest \/ Hijack \/ WriteRaw \/ Panics \/ Breaks
    BY <1>8 DEF ReadRequest, NoRequest, Hijack, WriteRaw, Panics, Breaks, IInv, Heads
  <1>9. CASE UNCHANGED vars
    BY <1>9 DEF vars
  <1> QED
    BY <1>2, <1>3, <1>4, <1>5, <1>6, <1>7, <1>8, <1>9 DEF Next

\* No panic and no cut makes a response look complete (Serve defers Close, and
\* not finish).
THEOREM CutsShow == Spec => []TruncationShows
  BY InitIInv, Invariance, TruncationStep, PTL DEF Spec

-------------------------------------------------------------------------------
\* A handler that is honest after a step was honest before it.
LEMMA HonestBefore ==
    ASSUME IInv, [Next]_vars, Honest'
    PROVE  Honest
  <1> USE DEF IInv, Heads, Honest
  <1>0. accepted \in Nat /\ accepted' \in Nat /\ length \in Nat
    BY IInvStep DEF TypeOK
  <1>1. CASE status = "none"
    <2>1. header # "none" => header' = header
      BY <1>1 DEF Next, ReadRequest, NoRequest, SetHeader, WriteHeader, Write,
                  WriteLost, Flush, Hijack, WriteRaw, Returns, Panics, Breaks, vars
    <2> QED
      BY <1>1, <2>1 DEF TypeOK
  <1>2. CASE status # "none"
    <2>1. UNCHANGED <<header, length, status>>
      BY <1>2 DEF Next, ReadRequest, NoRequest, SetHeader, WriteHeader,
                  MayWriteHeader, Write, WriteLost, Flush, Hijack, MayHijack,
                  WriteRaw, Returns, Panics, Breaks, vars, Status
    <2>2. accepted =< accepted'
      BY <1>0 DEF Next, ReadRequest, NoRequest, SetHeader, WriteHeader, Write,
             WriteLost, Flush, Hijack, WriteRaw, Returns, Panics, Breaks, vars
    <2>3. serve = "done" => serve' = "done" /\ accepted' = accepted
      BY DEF Next, ReadRequest, NoRequest, SetHeader, WriteHeader, Write,
             WriteLost, Flush, Hijack, WriteRaw, Returns, Panics, Breaks, vars
    <2>4. CASE header = "length" /\ status = "final"
      <3>1. accepted' =< length /\ (serve' = "done" => accepted' = length)
        BY <2>1, <2>4
      <3> QED
        BY <1>0, <2>2, <2>3, <2>4, <3>1
    <2>5. CASE ~(header = "length" /\ status = "final")
      BY <2>1, <2>5
    <2> QED
      BY <2>4, <2>5
  <1> QED
    BY <1>1, <1>2

LEMMA FramedStep == IInv /\ Framed /\ [Next]_vars => Framed'
  <1> SUFFICES ASSUME IInv, Framed, [Next]_vars, Honest', ~broken', ~hijacked'
               PROVE  Framed'
    BY DEF Framed
  <1>1. Honest
    BY HonestBefore
  <1>2. ~broken /\ ~hijacked
    BY DEF Next, ReadRequest, NoRequest, SetHeader, WriteHeader, Write,
           WriteLost, Flush, Hijack, WriteRaw, Returns, Panics, Breaks, vars
  <1> USE <1>1, <1>2 DEF IInv, TypeOK, Heads, Framed, Honest
  <1>3. CASE ReadRequest \/ NoRequest \/ SetHeader
    BY <1>3 DEF ReadRequest, NoRequest, SetHeader
  <1>4. ASSUME NEW code \in Code, WriteHeader(code)  PROVE Framed'
    BY <1>4 DEF WriteHeader, MayWriteHeader
  <1>5. CASE Write
    <2>1. /\ UnitArrives(Flushed, Chunked(Status))
          /\ status' = Status /\ buffered' = FALSE /\ accepted' = accepted + 1
          /\ serve = "handler" /\ Status # "empty"
          /\ UNCHANGED <<serve, header, length>>
      BY <1>5 DEF Write
    <2>2. Status = "final" /\ Status' = "final"
      BY <2>1 DEF Status
    <2>3. CASE header = "none"
      <3>1. Flushed = "chunks" /\ Chunked(Status)
        BY <2>1, <2>2, <2>3 DEF Flushed, AfterHead, Chunked, Status
      <3> QED
        BY <2>1, <2>2, <2>3, <3>1 DEF UnitArrives
    <2>4. CASE header = "length"
      <3>1. Flushed = "counting" /\ ~Chunked(Status)
        BY <2>1, <2>2, <2>4 DEF Flushed, AfterHead, Chunked, Status
      <3> QED
        BY <2>1, <2>2, <2>4, <3>1 DEF UnitArrives
    <2> QED
      BY <2>1, <2>3, <2>4
  <1>6. CASE Flush
    <2>1. /\ stage' = Flushed
          /\ status' = Status /\ buffered' = FALSE
          /\ UNCHANGED <<serve, header, length, accepted, read, garbled>>
          /\ serve = "handler"
      BY <1>6 DEF Flush
    <2> QED
      BY <2>1 DEF Flushed, AfterHead, Status
  <1>7. CASE Returns
    <2>1. /\ serve' = "done" /\ serve = "handler"
          /\ status' = Status /\ buffered' = FALSE
          /\ stage' = (IF Flushed = "chunks" /\ Chunked(Status) THEN "complete" ELSE Flushed)
          /\ garbled' = (garbled \/ (Flushed # "chunks" /\ Chunked(Status)))
          /\ UNCHANGED <<header, length, accepted, read>>
      BY <1>7 DEF Returns, Finishes
    <2> QED
      BY <2>1 DEF Flushed, AfterHead, Status, Chunked
  <1>8. CASE WriteLost \/ Hijack \/ WriteRaw \/ Breaks
    BY <1>8 DEF WriteLost, Hijack, WriteRaw, Breaks
  <1>9. CASE Panics
    BY <1>9 DEF Panics
  <1>10. CASE UNCHANGED vars
    BY <1>10 DEF vars
  <1> QED
    BY <1>3, <1>4, <1>5, <1>6, <1>7, <1>8, <1>9, <1>10 DEF Next

\* The server decodes what Write has accepted, and all of it once the handler
\* has returned (WriteHeader's choice of framing, Write, Flush and finish).
THEOREM FramingHolds == Spec => []FramingAgrees
  <1>1. IInv /\ Framed => FramingAgrees
    BY DEF IInv, TypeOK, Framed, FramingAgrees, Honest
  <1> QED
    BY InitIInv, Invariance, FramedStep, <1>1, PTL DEF Spec

-------------------------------------------------------------------------------
\* A head that has left has arrived, and what cannot be placed came after a
\* complete response, or as an unframed body where chunks were announced.
Spoilt ==
    /\ ~broken /\ status # "none" /\ ~buffered => stage # "head"
    /\ stage = "chunks" => header # "length"
    /\ garbled => /\ ~buffered
                  /\ stage = "complete" \/ (stage = "chunks" /\ header = "chunked")

\* What Flushed is under the invariants, once the head is on its way.
LEMMA FlushArrives ==
    ASSUME IInv, Spoilt, ~broken
    PROVE  /\ Flushed # "head"
           /\ Flushed = "chunks" => header # "length"
           /\ garbled => Flushed = stage
  BY DEF IInv, TypeOK, Heads, Spoilt, Flushed, Status, AfterHead

\* Where a unit cannot be placed it is lost, and leaves the server where it is.
LEMMA WriteSpoils ==
    ASSUME IInv, Spoilt, Write
    PROVE  garbled' => /\ stage' = Flushed /\ read' = read
                       /\ Flushed = "complete" \/ (Flushed = "chunks" /\ header = "chunked")
  <1>1. /\ UnitArrives(Flushed, Chunked(Status)) /\ ~broken /\ Status # "empty"
        /\ garbled \in BOOLEAN /\ header \in {"none", "length", "chunked"}
    BY DEF Write, IInv, TypeOK
  <1>2. Flushed \in {"chunks", "counting", "complete"} /\ (Flushed = "counting" => header = "length")
    BY <1>1, FlushArrives, FlushPassesHead
  <1>3. Flushed = "chunks" => header # "length"
    BY <1>1, FlushArrives
  <1>4. Chunked(Status) <=> header = "none"
    BY <1>1 DEF Chunked
  <1>5. garbled => Flushed = "complete" \/ (Flushed = "chunks" /\ header = "chunked")
    BY <1>1, FlushArrives DEF Spoilt
  <1> QED
    BY <1>1, <1>2, <1>3, <1>4, <1>5 DEF UnitArrives

\* The same of the last chunk, under a status that has no body.
LEMMA ReturnSpoils ==
    ASSUME IInv, Spoilt, Returns
    PROVE  garbled' => \/ UNCHANGED <<stage, garbled>>
                       \/ ~broken /\ ~hijacked /\ stage' = Flushed /\ Flushed = "complete"
  <1>1. CASE hijacked \/ broken \/ garbled
    <2>1. garbled => ~(Flushed = "chunks" /\ Chunked(Status))
      BY FlushArrives DEF Spoilt, Chunked, Flushed, Heads, IInv
    <2>2. garbled => Flushed = stage
      BY DEF Spoilt, Flushed, Heads, IInv
    <2> QED
      BY <1>1, <2>1, <2>2 DEF Returns, Finishes, IInv, Heads, TypeOK, Spoilt
  <1>2. CASE ~hijacked /\ ~broken /\ ~garbled
    <2>1. garbled' = (Flushed # "chunks" /\ Chunked(Status))
          /\ stage' = (IF Flushed = "chunks" /\ Chunked(Status) THEN "complete" ELSE Flushed)
      BY <1>2 DEF Returns, Finishes
    <2>2. Flushed \in {"chunks", "counting", "complete"} /\ (Flushed = "counting" => header = "length")
      BY <1>2, FlushArrives, FlushPassesHead
    <2>3. Chunked(Status) => header = "none"
      BY DEF Chunked
    <2> QED
      BY <1>2, <2>1, <2>2, <2>3
  <1> QED
    BY <1>1, <1>2

LEMMA SpoiltStep == IInv /\ Spoilt /\ [Next]_vars => Spoilt'
  <1> SUFFICES ASSUME IInv, Spoilt, [Next]_vars  PROVE Spoilt'
    OBVIOUS
  <1>0. Heads /\ TypeOK
    BY DEF IInv
  <1>1. CASE Write
    <2>1. /\ UnitArrives(Flushed, Chunked(Status)) /\ ~broken /\ buffered' = FALSE
          /\ header' = header
      BY <1>1 DEF Write
    <2>2. stage' # "head" /\ (stage' = "chunks" => Flushed = "chunks")
      BY <2>1, FlushArrives DEF UnitArrives
    <2> QED
      BY <1>1, <2>1, <2>2, FlushArrives, WriteSpoils DEF Spoilt
  <1>2. CASE Flush
    <2>1. /\ stage' = Flushed /\ buffered' = FALSE
          /\ UNCHANGED <<header, garbled, broken>>
      BY <1>2 DEF Flush
    <2>2. CASE broken
      BY <2>1, <2>2 DEF Flushed, Spoilt
    <2>3. CASE ~broken
      BY <2>1, <2>3, FlushArrives DEF Spoilt
    <2> QED
      BY <2>2, <2>3
  <1>3. CASE Returns
    <2>1. UNCHANGED <<header, broken, hijacked>>
      BY <1>3 DEF Returns
    <2>2. CASE hijacked
      <3>1. UNCHANGED <<status, buffered, stage, garbled>>
        BY <1>3, <2>2 DEF Returns, Finishes
      <3> QED
        BY <2>1, <3>1 DEF Spoilt
    <2>3. CASE ~hijacked
      <3>1. buffered' = FALSE /\ stage' \in {"complete", Flushed}
        BY <1>3, <2>3 DEF Returns, Finishes
      <3>2. ~broken => stage' # "head" /\ (Flushed = "chunks" => header # "length")
        BY <3>1, FlushArrives
      <3>3. broken => Flushed = stage
        BY DEF Flushed
      <3> QED
        BY <1>3, <2>1, <3>1, <3>2, <3>3, ReturnSpoils DEF Spoilt
    <2> QED
      BY <2>2, <2>3
  <1>4. CASE SetHeader \/ (\E code \in Code : WriteHeader(code))
    BY <1>0, <1>4 DEF SetHeader, WriteHeader, MayWriteHeader, Spoilt, Heads
  <1>5. CASE WriteLost
    BY <1>0, <1>5 DEF WriteLost, Spoilt, Heads
  <1>6. CASE WriteRaw
    BY <1>0, <1>6 DEF WriteRaw, Spoilt, Heads
  <1>7. CASE ReadRequest \/ NoRequest \/ Hijack \/ Panics \/ Breaks
    BY <1>7 DEF ReadRequest, NoRequest, Hijack, Panics, Breaks, Spoilt
  <1>8. CASE UNCHANGED vars
    BY <1>8 DEF vars, Spoilt
  <1> QED
    BY <1>1, <1>2, <1>3, <1>4, <1>5, <1>6, <1>7, <1>8 DEF Next

-------------------------------------------------------------------------------
\* What each step is to the server.
LEMMA SeenStep == IInv /\ Framed /\ Spoilt /\ [Next]_vars => [Seen!Next]_(Seen!vars)
  <1> SUFFICES ASSUME IInv, Framed, Spoilt, [Next]_vars  PROVE [Seen!Next]_(Seen!vars)
    OBVIOUS
  <1> DEFINE answer == IF stage = "head" THEN "none" ELSE IF stage = "complete" THEN "end" ELSE "head"
             shut == broken \/ serve \notin {"request", "handler"}
  <1>0. /\ garbled \in BOOLEAN /\ garbled' \in BOOLEAN /\ Honest \in BOOLEAN /\ Honest' \in BOOLEAN
        /\ Honest' => Honest
        /\ garbled' /\ ~broken' /\ ~hijacked' => ~Honest'
    BY IInvStep, HonestBefore, FramedStep DEF IInv, TypeOK, Framed, Honest
  <1>1. ASSUME UNCHANGED <<stage, read, garbled, hijacked>>, shut' = shut
        PROVE  [Seen!Next]_(Seen!vars)
    BY <1>0, <1>1 DEF Seen!Next, Seen!Misbehave, Seen!vars
  <1>2. ASSUME UNCHANGED <<stage, read, garbled, hijacked>>, shut' = TRUE
        PROVE  [Seen!Next]_(Seen!vars)
    BY <1>0, <1>2 DEF Seen!Next, Seen!Shut, Seen!Honesty
  <1>3. ASSUME ~hijacked, hijacked' = hijacked, ~shut, ~garbled, ~garbled',
               stage # "complete", stage' # "head",
               \/ read' \in {read, read + 1} /\ ~shut'
               \/ read' = read /\ shut'
        PROVE  [Seen!Next]_(Seen!vars)
    BY <1>0, <1>3 DEF Seen!Next, Seen!Respond, Seen!Honesty
  <1>4. ASSUME ~hijacked, hijacked' = hijacked, ~shut, ~broken', garbled', read' = read,
               stage' = stage \/ (stage = "head" /\ stage' # "head")
        PROVE  [Seen!Next]_(Seen!vars)
    BY <1>0, <1>4 DEF Seen!Next, Seen!Spoil
  <1> HIDE DEF answer
  <1>5. CASE ReadRequest \/ SetHeader \/ (\E code \in Code : WriteHeader(code)) \/ WriteLost
    BY <1>1, <1>5 DEF ReadRequest, SetHeader, WriteHeader, WriteLost
  <1>6. CASE WriteRaw
    <2>1. ~buffered /\ ~garbled
      BY <1>6 DEF WriteRaw, IInv, Heads
    <2> QED
      BY <1>0, <1>1, <1>6, <2>1 DEF WriteRaw
  <1>7. CASE NoRequest \/ Panics \/ Breaks
    BY <1>2, <1>7 DEF NoRequest, Panics, Breaks
  <1>8. CASE Write
    <2>1. /\ UnitArrives(Flushed, Chunked(Status))
          /\ serve = "handler" /\ ~broken /\ ~hijacked
          /\ UNCHANGED <<serve, hijacked, broken>>
      BY <1>8 DEF Write
    <2>2. Flushed = stage \/ (stage = "head" /\ Flushed # "head")
      BY FlushPassesHead
    <2>3. CASE garbled'
      BY <1>4, <1>8, <2>1, <2>2, <2>3, WriteSpoils
    <2>4. CASE ~garbled'
      <3>1. ~garbled /\ read' = read + 1 /\ stage' \in {"complete", Flushed}
            /\ Flushed \in {"chunks", "counting"}
        BY <1>0, <2>1, <2>4 DEF UnitArrives
      <3> QED
        BY <1>3, <2>1, <2>2, <2>4, <3>1
    <2> QED
      BY <2>3, <2>4
  <1>9. CASE Flush
    <2>1. /\ serve = "handler" /\ ~hijacked /\ stage' = Flushed
          /\ UNCHANGED <<serve, hijacked, broken, read, garbled>>
      BY <1>9 DEF Flush
    <2>2. CASE stage' = stage
      BY <1>1, <2>1, <2>2
    <2>3. CASE stage' # stage
      <3>1. ~broken /\ stage = "head" /\ stage' # "head"
        BY <2>1, <2>3, FlushPassesHead DEF Flushed
      <3>2. ~garbled
        BY <3>1 DEF Spoilt
      <3> QED
        BY <1>3, <2>1, <3>1, <3>2
    <2> QED
      BY <2>2, <2>3
  <1>10. CASE Hijack
    <2>1. /\ stage = "head" /\ stage' = stage /\ hijacked' = TRUE
          /\ UNCHANGED <<serve, header, length, status, accepted, read, garbled, broken>>
      BY <1>10 DEF Hijack, MayHijack, IInv, Heads
    <2>2. Honest' = Honest
      BY <2>1 DEF Honest
    <2> QED
      BY <2>1, <2>2 DEF Seen!Next, Seen!Take
  <1>11. CASE Returns
    <2>1. /\ serve' = "done" /\ serve = "handler"
          /\ UNCHANGED <<hijacked, broken, read>>
      BY <1>11 DEF Returns
    <2>2. CASE UNCHANGED <<stage, garbled>>
      BY <1>2, <2>1, <2>2
    <2>3. CASE ~UNCHANGED <<stage, garbled>> /\ garbled'
      BY <1>4, <1>11, <2>1, <2>3, ReturnSpoils, FlushPassesHead
    <2>4. CASE stage' # stage /\ ~garbled'
      <3>1. ~hijacked /\ ~garbled /\ stage' \in {"complete", Flushed}
        BY <1>0, <1>11, <2>4 DEF Returns, Finishes
      <3>2. ~broken
        BY <1>11, <2>4, <3>1 DEF Returns, Finishes, Flushed
      <3>3. stage # "complete" /\ stage' # "head"
        BY <1>11, <2>4, <3>1, <3>2, FlushPassesHead, FlushArrives
      <3> QED
        BY <1>3, <2>1, <2>4, <3>1, <3>2, <3>3
    <2>5. CASE stage' = stage /\ garbled' # garbled /\ ~garbled'
      BY <1>0, <1>11, <2>5 DEF Returns
    <2> QED
      BY <1>0, <2>2, <2>3, <2>4, <2>5
  <1>12. CASE UNCHANGED vars
    BY <1>1, <1>12 DEF vars
  <1> QED
    BY <1>5, <1>6, <1>7, <1>8, <1>9, <1>10, <1>11, <1>12 DEF Next

\* Serve and streamRW implement Response, what cannot be placed included: it comes
\* from handlers that break their own framing, and changes nothing that was read.
THEOREM Implements == Spec => ImplementsResponse
  <1>1. Init => Seen!Init /\ Spoilt
    BY DEF Init, Seen!Init, Spoilt, Honest
  <1> QED
    BY <1>1, InitIInv, Invariance, FramedStep, SpoiltStep, SeenStep, PTL
    DEF Spec, ImplementsResponse, Seen!Spec
===============================================================================
