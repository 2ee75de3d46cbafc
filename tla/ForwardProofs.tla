----------------------------- MODULE ForwardProofs ----------------------------
(***************************************************************************)
(* A response that was read to its end is whole, and a 502 is honest, for  *)
(* windows of any size and bodies of any length.                           *)
(*                                                                         *)
(* A response is the sequence whose k-th item is ItemAt(wrote, k).  The    *)
(* buffers hold consecutive parts of it: the stream from what forwardHTTP  *)
(* has taken, the upstream's connection up to what has been written.       *)
(* While the session lives there is no gap between the two.                *)
(***************************************************************************)
EXTENDS Forward, TLAPS

ItemAt(w, k) == IF k = 1 THEN "head" ELSE IF k =< w + 1 THEN "unit" ELSE "end"

\* Items the application has written, and items forwardHTTP has read: one more
\* than it has copied while it writes.
Total == IF answer = "none" THEN 0 ELSE IF answer = "head" THEN wrote + 1 ELSE wrote + 2
Taken == IF code # "ok" THEN 0 ELSE IF main = "write" THEN got + 2 ELSE got + 1

Reading == main \in {"open", "read", "copy", "write"}

DownInOrder == Reading => \A i \in 1 .. Len(down) : down[i] = ItemAt(wrote, Taken + i)
BackInOrder == \A i \in 1 .. Len(back) : back[i] = ItemAt(wrote, Total - Len(back) + i)

NoGap ==
    Reading => /\ Taken + Len(down) + Len(back) =< Total
               /\ cut = "no" => Taken + Len(down) + Len(back) = Total

\* What forwardHTTP has answered at each of its stages.
Stages ==
    /\ main \in {"open", "read"} => code = "none" /\ got = 0
    /\ main \in {"copy", "write"} => code = "ok"
    /\ main = "write" => got < wrote
    /\ Reading => ~complete
    /\ complete => answer = "end" /\ got = wrote
    /\ answer = "none" => wrote = 0
    /\ Len(back) =< Total

\* Who writes the response: the handler, the upstream, or writeBadGateway.
Sides ==
    /\ serve \in {"handler", "finish"} => mode = "handler"
    /\ mode = "handler" \/ app = "off" => back = << >>
    /\ serve \in {"request", "dial", "refuse"} => app = "off"

Chain == DownInOrder /\ BackInOrder /\ NoGap /\ Stages /\ Sides

\* A 502 is sent when no stream was opened or the router-client has left; what
\* the application had begun by then is an answer to half a request.
Refused ==
    code = "bad" => /\ main \in {"await", "done"}
                    /\ cut = "no" =>
                          /\ answer # "none" => mode = "proxy" /\ ~heard
                          /\ \/ serve = "done"
                             \/ main = "done" /\ serve = "request" /\ writer = "off"
                                /\ up = << >> /\ closed = {}

\* The router-client's end is closed when Serve has returned, and nothing has
\* happened to a stream that was not opened.
Left ==
    /\ "client" \in closed <=> serve = "done"
    /\ main = "open" => /\ writer = "off" /\ serve = "request" /\ closed = {} /\ cut = "no"
                        /\ up = << >> /\ down = << >> /\ answer = "none"

\* Proxy mode's Serve: the pump starts once the whole request was passed on, and
\* from then on Serve leaves a live stream only when it has passed on the answer.
Passed ==
    /\ pump # "off" => serve \in {"copy", "done"}
    /\ serve = "done" => app # "on"
    /\ serve = "done" /\ cut = "no" /\ pump # "off" => back = << >>

\* Before that the upstream cannot have heard the request's end.
Unheard ==
    mode = "proxy" /\ pump = "off" => ~heard /\ \A i \in 1 .. Len(out) : out[i] # "end"

IInv == TypeOK /\ Chain

USE DEF serverVars, clientVars, appVars, wires

-------------------------------------------------------------------------------
(***************************************************************************)
(* Buffers.                                                                *)
(***************************************************************************)

LEMMA AppendFits ==
    ASSUME NEW s, Fits(s), Room(s), NEW x \in Item
    PROVE  /\ Fits(Append(s, x))
           /\ Len(Append(s, x)) = Len(s) + 1
           /\ \A i \in 1 .. Len(s) : Append(s, x)[i] = s[i]
           /\ Append(s, x)[Len(s) + 1] = x
  BY WindowAssumption DEF Room, Fits

LEMMA TailFits ==
    ASSUME NEW s, Fits(s), s # << >>
    PROVE  /\ Fits(Tail(s)) /\ Head(s) \in Item /\ Head(s) = s[1]
           /\ Len(Tail(s)) = Len(s) - 1 /\ Len(s) \in Nat \ {0}
           /\ \A i \in 1 .. Len(s) - 1 : Tail(s)[i] = s[i + 1]
  BY WindowAssumption DEF Fits

LEMMA PrefixFits ==
    ASSUME NEW s, Fits(s), NEW n \in 0 .. Len(s)
    PROVE  /\ Fits(SubSeq(s, 1, n)) /\ Len(SubSeq(s, 1, n)) = n
           /\ \A i \in 1 .. n : SubSeq(s, 1, n)[i] = s[i]
  BY WindowAssumption DEF Fits

LEMMA Lengths ==
    ASSUME NEW s, Fits(s)
    PROVE  Len(s) \in Nat /\ (s = << >> <=> Len(s) = 0)
  BY DEF Fits

\* Numbers and buffers; the rest of TypeOK is in Positions.
Measures ==
    /\ held \in 0 .. MaxUnits /\ got \in 0 .. MaxUnits /\ wrote \in 0 .. MaxUnits
    /\ Fits(up) /\ Fits(down) /\ Fits(out) /\ Fits(back)

Positions ==
    /\ mode \in Modes
    /\ pub \in {"uploading", "finished", "gone"}
    /\ main \in {"open", "read", "copy", "write", "await", "done"}
    /\ writer \in {"off", "head", "body", "unit", "end", "sent", "failed"}
    /\ code \in {"none", "ok", "bad"}
    /\ serve \in {"request", "dial", "write", "copy", "refuse", "handler", "finish", "done"}
    /\ pump \in {"off", "copy", "done"}
    /\ app \in {"off", "on", "closed"}
    /\ answer \in {"none", "head", "end"}
    /\ closed \subseteq {"server", "client"}
    /\ cut \in {"no", "died", "reset"}

Flags == patient \in BOOLEAN /\ complete \in BOOLEAN /\ heard \in BOOLEAN

LEMMA TypeParts == TypeOK <=> Measures /\ Positions /\ Flags
  BY DEF TypeOK, Measures, Positions, Flags

LEMMA FlagsStep == ASSUME Flags, [Next]_vars  PROVE Flags'
  <1> USE DEF Flags
  <1>1. CASE CopyBody
    BY <1>1 DEF CopyBody
  <1>2. CASE HandlerReads
    <2>1. heard' \in BOOLEAN
      BY <1>2, Zenon DEF HandlerReads
    <2> QED
      BY <1>2, <2>1 DEF HandlerReads
  <1>3. CASE UpstreamReads
    BY <1>3 DEF UpstreamReads
  <1>4. CASE UNCHANGED vars
    BY <1>4 DEF vars
  <1> QED
    BY <1>1, <1>2, <1>3, <1>4
    DEF Next, Server, Client, Application, PublicGone, PublicFinishes, OpenStream, OpenFails,
        WriterReads, Writes, WriterSends, WriterFails, ReadResponse, ReadFails, WriteBody, Returns,
        ReadRequest, NoRequest, Dial, DialFails, WriteUpstream, WriteUpstreamFails, CopyBack,
        CopyBackEnds, PumpEnds, Refuse, Finish, HandlerWrites, HandlerReturns, UpstreamWrites,
        UpstreamCloses, SessionDies, CloseTimeout

LEMMA PositionsStep == ASSUME Positions, [Next]_vars  PROVE Positions'
  <1> USE DEF Positions
  <1>1. CASE PublicGone \/ PublicFinishes
    BY <1>1 DEF PublicGone, PublicFinishes
  <1>2. CASE Server
    <2>1. CASE OpenStream \/ OpenFails \/ WriterReads
      BY <2>1 DEF OpenStream, OpenFails, WriterReads
    <2>2. CASE Writes
      BY <2>2 DEF Writes, WriterSends, WriterFails
    <2>3. CASE ReadResponse \/ ReadFails
      BY <2>3 DEF ReadResponse, ReadFails
    <2>4. CASE CopyBody \/ WriteBody
      BY <2>4 DEF CopyBody, WriteBody
    <2>5. CASE Returns
      BY <2>5 DEF Returns
    <2> QED
      BY <1>2, <2>1, <2>2, <2>3, <2>4, <2>5 DEF Server
  <1>3. CASE Client
    <2>1. CASE ReadRequest
      BY <2>1 DEF ReadRequest
    <2>2. CASE NoRequest
      BY <2>2 DEF NoRequest, Leave
    <2>3. CASE Dial \/ DialFails
      BY <2>3 DEF Dial, DialFails
    <2>4. CASE WriteUpstream
      BY <2>4 DEF WriteUpstream
    <2>5. CASE WriteUpstreamFails
      BY <2>5 DEF WriteUpstreamFails, Leave
    <2>6. CASE CopyBack \/ PumpEnds
      BY <2>6 DEF CopyBack, PumpEnds
    <2>7. CASE CopyBackEnds
      BY <2>7 DEF CopyBackEnds, Leave
    <2>8. CASE Refuse
      <3>1. UNCHANGED <<serve, closed, app>> \/ Leave
        BY <2>8 DEF Refuse
      <3>2. UNCHANGED <<mode, pub, main, writer, code, pump, cut>> /\ answer' \in {"head", "end"}
        BY <2>8 DEF Refuse
      <3>3. CASE UNCHANGED <<serve, closed, app>>
        BY <3>2, <3>3
      <3>4. CASE Leave
        BY <3>2, <3>4 DEF Leave
      <3> QED
        BY <3>1, <3>3, <3>4
    <2>9. CASE Finish
      <3>1. UNCHANGED <<serve, closed, app>> \/ Leave
        BY <2>9 DEF Finish
      <3>2. UNCHANGED <<mode, pub, main, writer, code, pump, cut>> /\ answer' \in {"head", "end"}
        BY <2>9 DEF Finish
      <3>3. CASE UNCHANGED <<serve, closed, app>>
        BY <3>2, <3>3
      <3>4. CASE Leave
        BY <3>2, <3>4 DEF Leave
      <3> QED
        BY <3>1, <3>3, <3>4
    <2> QED
      BY <1>3, <2>1, <2>2, <2>3, <2>4, <2>5, <2>6, <2>7, <2>8, <2>9 DEF Client
  <1>4. CASE Application
    <2>1. CASE HandlerReads
      BY <2>1 DEF HandlerReads
    <2>2. CASE HandlerWrites
      BY <2>2 DEF HandlerWrites
    <2>3. CASE HandlerReturns
      BY <2>3 DEF HandlerReturns
    <2>4. CASE UpstreamReads
      BY <2>4 DEF UpstreamReads
    <2>5. CASE UpstreamWrites
      BY <2>5 DEF UpstreamWrites
    <2>6. CASE UpstreamCloses
      BY <2>6 DEF UpstreamCloses
    <2> QED
      BY <1>4, <2>1, <2>2, <2>3, <2>4, <2>5, <2>6 DEF Application
  <1>5. CASE SessionDies
    BY <1>5 DEF SessionDies
  <1>6. CASE CloseTimeout
    BY <1>6 DEF CloseTimeout
  <1>7. CASE UNCHANGED vars
    BY <1>7 DEF vars
  <1> QED
    BY <1>1, <1>2, <1>3, <1>4, <1>5, <1>6, <1>7 DEF Next

LEMMA MeasuresStep == ASSUME TypeOK, Chain, [Next]_vars  PROVE Measures'
  <1> USE TypeParts DEF Measures
  <1>1. CASE PublicGone \/ PublicFinishes
    BY <1>1 DEF PublicGone, PublicFinishes
  <1>2. CASE Server
    <2>1. CASE OpenStream \/ OpenFails \/ ReadFails \/ Returns
      BY <2>1 DEF OpenStream, OpenFails, ReadFails, Returns
    <2>2. CASE WriterReads
      BY <2>2, WindowAssumption DEF WriterReads
    <2>3. CASE Writes
      BY <2>3, AppendFits DEF Writes, WriterSends, WriterFails, Item
    <2>4. CASE ReadResponse
      BY <2>4, TailFits DEF ReadResponse
    <2>5. CASE CopyBody
      BY <2>5, TailFits DEF CopyBody
    <2>6. CASE WriteBody
      <3>1. got' = got \/ (got < wrote /\ got' = got + 1)
        BY <2>6 DEF WriteBody, Copied, Chain, Stages
      <3>2. UNCHANGED <<held, wrote, up, down, out, back>>
        BY <2>6 DEF WriteBody
      <3> QED
        BY <3>1, <3>2, WindowAssumption
    <2> QED
      BY <1>2, <2>1, <2>2, <2>3, <2>4, <2>5, <2>6 DEF Server
  <1>3. CASE Client
    <2>1. CASE ReadRequest
      BY <2>1, TailFits DEF ReadRequest
    <2>2. CASE NoRequest \/ WriteUpstreamFails \/ CopyBackEnds \/ PumpEnds \/ DialFails
      BY <2>2 DEF NoRequest, WriteUpstreamFails, CopyBackEnds, PumpEnds, DialFails
    <2>3. CASE Dial
      BY <2>3, WindowAssumption DEF Dial, Fits, Item
    <2>4. CASE WriteUpstream
      BY <2>4, TailFits, AppendFits DEF WriteUpstream
    <2>5. CASE CopyBack
      BY <2>5, TailFits, AppendFits DEF CopyBack
    <2>6. CASE Refuse
      BY <2>6, AppendFits DEF Refuse, Puts, Item
    <2>7. CASE Finish
      BY <2>7, AppendFits DEF Finish, Puts, Item
    <2> QED
      BY <1>3, <2>1, <2>2, <2>3, <2>4, <2>5, <2>6, <2>7 DEF Client
  <1>4. CASE Application
    <2>1. CASE HandlerReads
      BY <2>1, TailFits DEF HandlerReads
    <2>2. CASE HandlerWrites
      <3>1. wrote' \in 0 .. MaxUnits
        BY <2>2, WindowAssumption DEF HandlerWrites
      <3>2. Fits(down')
        BY <2>2, AppendFits DEF HandlerWrites, Puts, Item
      <3>3. UNCHANGED <<held, got, up, out, back>>
        BY <2>2 DEF HandlerWrites
      <3> QED
        BY <3>1, <3>2, <3>3
    <2>3. CASE HandlerReturns \/ UpstreamCloses
      BY <2>3 DEF HandlerReturns, UpstreamCloses
    <2>4. CASE UpstreamReads
      BY <2>4, TailFits DEF UpstreamReads
    <2>5. CASE UpstreamWrites
      <3>1. wrote' \in 0 .. MaxUnits
        BY <2>5, WindowAssumption DEF UpstreamWrites
      <3>2. Fits(back')
        BY <2>5, AppendFits DEF UpstreamWrites, Item
      <3>3. UNCHANGED <<held, got, up, out, down>>
        BY <2>5 DEF UpstreamWrites
      <3> QED
        BY <3>1, <3>2, <3>3
    <2> QED
      BY <1>4, <2>1, <2>2, <2>3, <2>4, <2>5 DEF Application
  <1>5. CASE SessionDies
    BY <1>5, PrefixFits DEF SessionDies
  <1>6. CASE CloseTimeout
    BY <1>6 DEF CloseTimeout
  <1>7. CASE UNCHANGED vars
    BY <1>7 DEF vars
  <1> QED
    BY <1>1, <1>2, <1>3, <1>4, <1>5, <1>6, <1>7 DEF Next

-------------------------------------------------------------------------------
(***************************************************************************)
(* The chain from the application to the public client.                    *)
(***************************************************************************)

LEMMA SidesStep == ASSUME Sides, Positions, Measures, [Next]_vars  PROVE Sides'
  <1> USE DEF Sides
  <1>1. CASE Server
    BY <1>1 DEF Server, OpenStream, OpenFails, WriterReads, Writes, WriterSends, WriterFails,
                ReadResponse, ReadFails, CopyBody, WriteBody, Returns
  <1>2. CASE Client
    <2>1. CASE ReadRequest
      BY <2>1 DEF ReadRequest
    <2>2. CASE NoRequest
      BY <2>2 DEF NoRequest, Leave
    <2>3. CASE Dial \/ DialFails
      BY <2>3 DEF Dial, DialFails
    <2>4. CASE WriteUpstream
      BY <2>4 DEF WriteUpstream
    <2>5. CASE WriteUpstreamFails
      BY <2>5 DEF WriteUpstreamFails, Leave
    <2>6. CASE CopyBack
      BY <2>6 DEF CopyBack
    <2>7. CASE CopyBackEnds
      BY <2>7 DEF CopyBackEnds, Leave
    <2>8. CASE PumpEnds
      BY <2>8 DEF PumpEnds
    <2>9. CASE Refuse
      BY <2>9 DEF Refuse, Leave
    <2>10. CASE Finish
      BY <2>10 DEF Finish, Leave
    <2> QED
      BY <1>2, <2>1, <2>2, <2>3, <2>4, <2>5, <2>6, <2>7, <2>8, <2>9, <2>10 DEF Client
  <1>3. CASE Application
    BY <1>3 DEF Application, HandlerReads, HandlerWrites, HandlerReturns,
                UpstreamReads, UpstreamWrites, UpstreamCloses
  <1>4. CASE PublicGone \/ PublicFinishes \/ SessionDies \/ CloseTimeout \/ UNCHANGED vars
    BY <1>4 DEF PublicGone, PublicFinishes, SessionDies, CloseTimeout, vars
  <1> QED
    BY <1>1, <1>2, <1>3, <1>4 DEF Next

Links == DownInOrder /\ BackInOrder /\ NoGap /\ Stages

\* The application writes one more item, x.
Written(x) ==
    \/ answer = "none" /\ x = "head" /\ answer' = "head" /\ wrote' = wrote
    \/ answer = "head" /\ x = "unit" /\ answer' = "head" /\ wrote' = wrote + 1
    \/ answer = "head" /\ x = "end" /\ answer' = "end" /\ wrote' = wrote

\* It goes to the end, and what was written before stays what it was.
LEMMA WrittenLast ==
    ASSUME TypeOK, Links, NEW x, Written(x)
    PROVE  /\ Total \in Nat /\ Total' = Total + 1
           /\ ItemAt(wrote', Total + 1) = x
           /\ \A k \in 1 .. Total : ItemAt(wrote', k) = ItemAt(wrote, k)
           /\ Stages /\ ~complete
  <1>1. wrote \in Nat /\ (answer = "none" => wrote = 0) /\ Stages /\ ~complete
    BY DEF TypeOK, Links, Stages, Written
  <1>2. CASE answer = "none" /\ x = "head" /\ answer' = "head" /\ wrote' = wrote
    <2>1. Total = 0 /\ Total' = 1
      BY <1>1, <1>2 DEF Total
    <2> QED
      BY <1>1, <1>2, <2>1 DEF ItemAt
  <1>3. CASE answer = "head" /\ x = "unit" /\ answer' = "head" /\ wrote' = wrote + 1
    <2>1. Total = wrote + 1 /\ Total' = wrote + 2
      BY <1>1, <1>3 DEF Total
    <2> QED
      BY <1>1, <1>3, <2>1 DEF ItemAt
  <1>4. CASE answer = "head" /\ x = "end" /\ answer' = "end" /\ wrote' = wrote
    <2>1. Total = wrote + 1 /\ Total' = wrote + 2
      BY <1>1, <1>4 DEF Total
    <2> QED
      BY <1>1, <1>4, <2>1 DEF ItemAt
  <1> QED
    BY <1>2, <1>3, <1>4 DEF Written

\* Straight onto the stream: a handler, or writeBadGateway.
LEMMA PutKeeps ==
    ASSUME TypeOK, Links, NEW x \in Item, Written(x), Puts(x), back = << >>,
           UNCHANGED <<main, code, got, complete, back, cut>>
    PROVE  Links'
  <1>1. Taken' = Taken /\ Taken \in Nat /\ (Reading <=> Reading')
    BY DEF Taken, Reading, TypeOK
  <1>2. /\ Total \in Nat /\ Total' = Total + 1 /\ ItemAt(wrote', Total + 1) = x
        /\ \A k \in 1 .. Total : ItemAt(wrote', k) = ItemAt(wrote, k)
        /\ Stages /\ ~complete
    BY WrittenLast
  <1>3. Len(down) \in Nat /\ Len(back) = 0 /\ back' = back
    BY Lengths DEF TypeOK
  <1>4. \/ cut = "no" /\ down' = Append(down, x) /\ Len(down') = Len(down) + 1
           /\ (\A i \in 1 .. Len(down) : down'[i] = down[i]) /\ down'[Len(down) + 1] = x
        \/ cut # "no" /\ down' = down
    BY AppendFits DEF Puts, TypeOK
  <1>5. Reading => /\ Taken + Len(down) =< Total /\ (cut = "no" => Taken + Len(down) = Total)
    BY <1>3, <1>1 DEF Links, NoGap
  <1>6. DownInOrder'
    <2> SUFFICES ASSUME Reading', NEW i \in 1 .. Len(down')  PROVE down'[i] = ItemAt(wrote', Taken + i)
      BY <1>1 DEF DownInOrder
    <2>1. CASE i \in 1 .. Len(down)
      <3>1. down'[i] = down[i] /\ down[i] = ItemAt(wrote, Taken + i) /\ Taken + i \in 1 .. Total
        BY <1>1, <1>2, <1>3, <1>4, <1>5, <2>1 DEF Links, DownInOrder
      <3> QED
        BY <1>1, <1>2, <3>1
    <2>2. CASE i \notin 1 .. Len(down)
      <3>1. cut = "no" /\ i = Len(down) + 1 /\ down'[i] = x
        BY <1>3, <1>4, <2>2
      <3>2. Taken + i = Total + 1
        BY <1>1, <1>2, <1>3, <1>5, <3>1
      <3> QED
        BY <1>2, <3>1, <3>2
    <2> QED
      BY <2>1, <2>2
  <1>7. BackInOrder'
    BY <1>3 DEF BackInOrder
  <1>8. NoGap'
    BY <1>1, <1>2, <1>3, <1>4, <1>5 DEF NoGap
  <1>9. Stages'
    <2>1. got \in Nat /\ wrote \in Nat /\ wrote' \in {wrote, wrote + 1}
      BY DEF TypeOK, Written
    <2> QED
      BY <1>1, <1>2, <1>3, <2>1 DEF Stages, Written, Reading
  <1> QED
    BY <1>6, <1>7, <1>8, <1>9 DEF Links

\* Onto the upstream's connection.
LEMMA UpstreamKeeps == ASSUME TypeOK, Links, UpstreamWrites  PROVE Links'
  <1>1. PICK x \in Item : Written(x) /\ back' = Append(back, x)
    BY DEF UpstreamWrites, Written, Item
  <1>2. /\ Total \in Nat /\ Total' = Total + 1 /\ ItemAt(wrote', Total + 1) = x
        /\ \A k \in 1 .. Total : ItemAt(wrote', k) = ItemAt(wrote, k)
        /\ Stages /\ ~complete
    BY <1>1, WrittenLast
  <1>3. UNCHANGED <<main, code, got, complete, down, cut>> /\ Room(back)
    BY DEF UpstreamWrites
  <1>4. /\ Len(back') = Len(back) + 1 /\ back'[Len(back) + 1] = x
        /\ \A i \in 1 .. Len(back) : back'[i] = back[i]
    BY <1>1, <1>3, AppendFits DEF TypeOK
  <1>5. Len(down) \in Nat /\ Len(back) \in Nat /\ Len(back) =< Total
    BY <1>2, Lengths DEF TypeOK, Stages
  <1>6. Taken' = Taken /\ Taken \in Nat /\ (Reading <=> Reading')
    BY <1>3 DEF Taken, Reading, TypeOK
  <1>7. DownInOrder'
    <2> SUFFICES ASSUME Reading', NEW i \in 1 .. Len(down)  PROVE down[i] = ItemAt(wrote', Taken + i)
      BY <1>3, <1>6 DEF DownInOrder
    <2>1. down[i] = ItemAt(wrote, Taken + i) /\ Taken + Len(down) + Len(back) =< Total
      BY <1>6 DEF Links, DownInOrder, NoGap
    <2>2. Taken + i \in 1 .. Total
      BY <1>2, <1>5, <1>6, <2>1
    <2> QED
      BY <1>2, <1>6, <2>1, <2>2
  <1>8. BackInOrder'
    <2> SUFFICES ASSUME NEW i \in 1 .. Len(back) + 1
                 PROVE  back'[i] = ItemAt(wrote', Total' - Len(back') + i)
      BY <1>4 DEF BackInOrder
    <2>1. Total' - Len(back') + i = Total - Len(back) + i
      BY <1>2, <1>4, <1>5
    <2>2. CASE i \in 1 .. Len(back)
      <3>1. back'[i] = ItemAt(wrote, Total - Len(back) + i)
        BY <1>4, <2>2 DEF Links, BackInOrder
      <3>2. Total - Len(back) + i \in 1 .. Total
        BY <1>2, <1>5, <2>2
      <3> QED
        BY <1>2, <2>1, <3>1, <3>2
    <2>3. CASE i = Len(back) + 1
      <3>1. Total - Len(back) + i = Total + 1
        BY <1>2, <1>5, <2>3
      <3> QED
        BY <1>2, <1>4, <2>1, <2>3, <3>1
    <2> QED
      BY <1>5, <2>2, <2>3
  <1>9. NoGap'
    BY <1>2, <1>3, <1>4, <1>5, <1>6 DEF Links, NoGap
  <1>10. Stages'
    <2>1. got \in Nat /\ wrote \in Nat /\ wrote' \in {wrote, wrote + 1}
      BY <1>1 DEF TypeOK, Written
    <2> QED
      BY <1>1, <1>2, <1>3, <1>4, <1>5, <1>6, <2>1 DEF Stages, Written, Reading
  <1> QED
    BY <1>7, <1>8, <1>9, <1>10 DEF Links

\* io.Copy from the upstream moves an item across.
LEMMA CopyBackKeeps == ASSUME TypeOK, Links, CopyBack  PROVE Links'
  <1>1. /\ back # << >> /\ cut = "no" /\ Room(down)
        /\ back' = Tail(back) /\ down' = Append(down, Head(back))
        /\ UNCHANGED <<main, code, got, complete, answer, wrote, cut>>
    BY DEF CopyBack
  <1>2. /\ Len(back) \in Nat \ {0} /\ Len(back') = Len(back) - 1 /\ Head(back) = back[1]
        /\ Head(back) \in Item /\ \A i \in 1 .. Len(back') : back'[i] = back[i + 1]
    BY <1>1, TailFits DEF TypeOK
  <1>3. /\ Len(down) \in Nat /\ Len(down') = Len(down) + 1 /\ down'[Len(down) + 1] = back[1]
        /\ \A i \in 1 .. Len(down) : down'[i] = down[i]
    BY <1>1, <1>2, AppendFits, Lengths DEF TypeOK
  <1>4. /\ Taken' = Taken /\ Taken \in Nat /\ Total' = Total /\ Total \in Nat
        /\ (Reading <=> Reading') /\ wrote' = wrote
    BY <1>1 DEF Taken, Total, Reading, TypeOK
  <1>5. DownInOrder'
    <2> SUFFICES ASSUME Reading, NEW i \in 1 .. Len(down) + 1
                 PROVE  down'[i] = ItemAt(wrote, Taken + i)
      BY <1>3, <1>4 DEF DownInOrder
    <2>1. CASE i \in 1 .. Len(down)
      BY <1>3, <2>1 DEF Links, DownInOrder
    <2>2. CASE i = Len(down) + 1
      <3>1. Taken + Len(down) + Len(back) = Total
        BY <1>1 DEF Links, NoGap
      <3>2. back[1] = ItemAt(wrote, Total - Len(back) + 1)
        BY <1>2 DEF Links, BackInOrder
      <3>3. Total - Len(back) + 1 = Taken + i
        <4>1. Taken \in Nat /\ Len(down) \in Nat /\ Len(back) \in Nat
          BY <1>2, <1>3, <1>4
        <4>2. \A t, d, b \in Nat : (t + d + b) - b + 1 = t + (d + 1)
          OBVIOUS
        <4> QED
          BY <2>2, <3>1, <4>1, <4>2
      <3> QED
        BY <1>3, <2>2, <3>2, <3>3
    <2> QED
      BY <1>3, <2>1, <2>2
  <1>6. BackInOrder'
    <2> SUFFICES ASSUME NEW i \in 1 .. Len(back')
                 PROVE  back'[i] = ItemAt(wrote, Total - Len(back') + i)
      BY <1>4 DEF BackInOrder
    <2>1. back'[i] = back[i + 1] /\ i + 1 \in 1 .. Len(back)
      BY <1>2
    <2>2. back[i + 1] = ItemAt(wrote, Total - Len(back) + (i + 1))
      BY <2>1 DEF Links, BackInOrder
    <2>3. Total - Len(back) + (i + 1) = Total - Len(back') + i
      BY <1>2, <1>4
    <2> QED
      BY <2>1, <2>2, <2>3
  <1>7. NoGap'
    BY <1>1, <1>2, <1>3, <1>4 DEF Links, NoGap
  <1>8. Stages'
    BY <1>1, <1>2, <1>4 DEF Links, Stages, Reading
  <1> QED
    BY <1>5, <1>6, <1>7, <1>8 DEF Links

\* forwardHTTP takes the first item, and goes on reading.
LEMMA TakeKeeps ==
    ASSUME TypeOK, Links, Reading, Reading', down # << >>, down' = Tail(down),
           Taken' = Taken + 1, UNCHANGED <<back, answer, wrote, cut>>
    PROVE  DownInOrder' /\ BackInOrder' /\ NoGap'
  <1>1. /\ Len(down) \in Nat \ {0} /\ Len(down') = Len(down) - 1 /\ Len(back) \in Nat
        /\ \A i \in 1 .. Len(down') : down'[i] = down[i + 1]
    BY TailFits, Lengths DEF TypeOK
  <1>2. Taken \in Nat /\ Total' = Total /\ Total \in Nat
    BY DEF Taken, Total, TypeOK
  <1>3. DownInOrder'
    <2> SUFFICES ASSUME NEW i \in 1 .. Len(down')
                 PROVE  down'[i] = ItemAt(wrote, Taken + 1 + i)
      BY DEF DownInOrder
    <2>1. down'[i] = down[i + 1] /\ i + 1 \in 1 .. Len(down)
      BY <1>1
    <2>2. down[i + 1] = ItemAt(wrote, Taken + (i + 1))
      BY <2>1 DEF Links, DownInOrder
    <2>3. Taken + (i + 1) = Taken + 1 + i
      BY <1>1, <1>2
    <2> QED
      BY <2>1, <2>2, <2>3
  <1>4. BackInOrder'
    BY <1>2 DEF Links, BackInOrder
  <1>5. NoGap'
    BY <1>1, <1>2 DEF Links, NoGap
  <1> QED
    BY <1>3, <1>4, <1>5

LEMMA ReadResponseKeeps == ASSUME TypeOK, Links, ReadResponse  PROVE Links'
  <1>1. /\ main = "read" /\ down # << >> /\ down' = Tail(down) /\ main' = "copy" /\ code' = "ok"
        /\ UNCHANGED <<got, complete, back, answer, wrote, cut>>
    BY DEF ReadResponse
  <1>2. code = "none" /\ got = 0 /\ ~complete
    BY <1>1 DEF Links, Stages, Reading
  <1>3. Taken = 0 /\ Taken' = 1 /\ Reading /\ Reading'
    BY <1>1, <1>2 DEF Taken, Reading
  <1>4. DownInOrder' /\ BackInOrder' /\ NoGap'
    BY <1>1, <1>3, TakeKeeps
  <1>5. Stages'
    BY <1>1, <1>2 DEF Links, Stages, Reading, Total
  <1> QED
    BY <1>4, <1>5 DEF Links

\* A unit that is read was written.
LEMMA UnitCounts ==
    ASSUME TypeOK, Links, main = "copy", down # << >>, Head(down) = "unit"
    PROVE  got < wrote
  <1>1. Len(down) \in Nat \ {0} /\ Head(down) = down[1]
    BY TailFits, Lengths DEF TypeOK
  <1>2. Taken = got + 1 /\ got \in Nat /\ wrote \in Nat
    BY DEF Links, Stages, Taken, TypeOK
  <1>3. down[1] = ItemAt(wrote, Taken + 1)
    BY <1>1 DEF Links, DownInOrder, Reading
  <1> QED
    BY <1>1, <1>2, <1>3 DEF ItemAt

\* The end is the last item: with it, everything has been read.
LEMMA EndIsLast ==
    ASSUME TypeOK, Links, main = "copy", down # << >>, Head(down) = "end"
    PROVE  answer = "end" /\ got = wrote
  <1>1. Len(down) \in Nat \ {0} /\ Head(down) = down[1] /\ Len(back) \in Nat
    BY TailFits, Lengths DEF TypeOK
  <1>2. Taken = got + 1 /\ got \in Nat /\ wrote \in Nat
    BY DEF Links, Stages, Taken, TypeOK
  <1>3. down[1] = ItemAt(wrote, Taken + 1)
    BY <1>1 DEF Links, DownInOrder, Reading
  <1>4. got + 1 > wrote
    BY <1>1, <1>2, <1>3 DEF ItemAt
  <1>5. Taken + 1 =< Total
    BY <1>1, <1>2 DEF Links, NoGap, Reading, Total, TypeOK
  <1> QED
    BY <1>2, <1>4, <1>5 DEF Total, TypeOK

LEMMA CopyBodyKeeps == ASSUME TypeOK, Links, CopyBody  PROVE Links'
  <1>1. UNCHANGED <<back, answer, wrote, code, cut>> /\ main = "copy"
    BY DEF CopyBody
  <1>2. Reading /\ code = "ok" /\ ~complete /\ got \in Nat
    BY <1>1 DEF Links, Stages, Reading, TypeOK
  <1>3. Total' = Total
    BY <1>1 DEF Total
  <1>4. CASE down # << >> /\ Head(down) = "unit" /\ down' = Tail(down) /\ got' = got
             /\ main' = "write" /\ complete' = complete
    <2>1. Reading' /\ Taken' = Taken + 1
      BY <1>1, <1>2, <1>4 DEF Reading, Taken
    <2>2. DownInOrder' /\ BackInOrder' /\ NoGap'
      BY <1>1, <1>2, <1>4, <2>1, TakeKeeps
    <2>3. Stages'
      BY <1>1, <1>2, <1>3, <1>4, UnitCounts DEF Links, Stages, Reading
    <2> QED
      BY <2>2, <2>3 DEF Links
  <1>5. CASE main' = "await" /\ complete' = complete /\ got' = got
    BY <1>1, <1>2, <1>3, <1>5 DEF Links, Stages, Reading, DownInOrder, BackInOrder, NoGap
  <1>6. CASE down # << >> /\ Head(down) = "end" /\ main' = "await" /\ complete' = TRUE /\ got' = got
    <2>1. answer = "end" /\ got = wrote
      BY <1>1, <1>6, EndIsLast
    <2> QED
      BY <1>1, <1>2, <1>3, <1>6, <2>1
      DEF Links, Stages, Reading, DownInOrder, BackInOrder, NoGap
  <1> QED
    BY <1>4, <1>5, <1>6 DEF CopyBody

\* A write moves nothing of the stream.
LEMMA WriteBodyKeeps == ASSUME TypeOK, Links, WriteBody  PROVE Links'
  <1>1. UNCHANGED <<down, back, answer, wrote, code, complete, cut>> /\ main = "write"
    BY DEF WriteBody
  <1>2. Reading /\ code = "ok" /\ ~complete /\ got \in Nat /\ got < wrote /\ Total' = Total
    BY <1>1 DEF Links, Stages, Reading, TypeOK, Total
  <1>3. CASE got' = got + 1 /\ main' = "copy"
    <2>1. Reading' /\ Taken' = Taken
      BY <1>1, <1>2, <1>3 DEF Reading, Taken
    <2> QED
      BY <1>1, <1>2, <1>3, <2>1 DEF Links, Stages, DownInOrder, BackInOrder, NoGap
  <1>4. CASE got' = got /\ main' = "await"
    BY <1>1, <1>2, <1>4 DEF Links, Stages, Reading, DownInOrder, BackInOrder, NoGap
  <1> QED
    BY <1>3, <1>4 DEF WriteBody, Copied

\* What is left of the stream when the session dies is a first part of it.
LEMMA SessionDiesKeeps == ASSUME TypeOK, Links, SessionDies  PROVE Links'
  <1>1. PICK j \in 0 .. Len(down) : down' = SubSeq(down, 1, j)
    BY DEF SessionDies
  <1>2. UNCHANGED <<main, code, got, complete, answer, wrote, back>> /\ cut' # "no"
    BY DEF SessionDies
  <1>3. /\ Len(down) \in Nat /\ Len(down') = j /\ Len(back) \in Nat
        /\ \A i \in 1 .. j : down'[i] = down[i]
    BY <1>1, PrefixFits, Lengths DEF TypeOK
  <1>4. Taken' = Taken /\ Taken \in Nat /\ Total' = Total /\ Total \in Nat /\ (Reading <=> Reading')
    BY <1>2 DEF Taken, Total, Reading, TypeOK
  <1>5. DownInOrder'
    BY <1>2, <1>3, <1>4 DEF Links, DownInOrder
  <1>6. BackInOrder'
    BY <1>2, <1>4 DEF Links, BackInOrder
  <1>7. NoGap'
    BY <1>2, <1>3, <1>4 DEF Links, NoGap
  <1>8. Stages'
    BY <1>2, <1>4 DEF Links, Stages, Reading
  <1> QED
    BY <1>5, <1>6, <1>7, <1>8 DEF Links

\* A step that moves nothing.
LEMMA SameLinks ==
    ASSUME Links, UNCHANGED <<main, code, got, complete, answer, wrote, down, back>>,
           cut' = "no" => cut = "no"
    PROVE  Links'
  BY DEF Links, DownInOrder, BackInOrder, NoGap, Stages, Reading, Taken, Total

LEMMA LinksStep == ASSUME TypeOK, Links, Sides, [Next]_vars  PROVE Links'
  <1>1. CASE Server
    <2>1. CASE OpenStream
      <3>1. UNCHANGED <<code, got, complete, answer, wrote, down, back, cut>> /\ Reading /\ Reading'
            /\ main = "open" /\ main' = "read"
        BY <2>1 DEF OpenStream, Reading
      <3> QED
        BY <3>1 DEF Links, DownInOrder, BackInOrder, NoGap, Stages, Taken, Total
    <2>2. CASE OpenFails \/ ReadFails \/ Returns
      <3>1. UNCHANGED <<complete, got, answer, wrote, back>> /\ main' \in {"await", "done"}
        BY <2>2 DEF OpenFails, ReadFails, Returns
      <3> QED
        BY <3>1 DEF Links, DownInOrder, BackInOrder, NoGap, Stages, Reading, Total
    <2>3. CASE WriterReads \/ Writes
      BY <2>3, SameLinks DEF WriterReads, Writes, WriterSends, WriterFails
    <2>4. CASE ReadResponse
      BY <2>4, ReadResponseKeeps
    <2>5. CASE CopyBody
      BY <2>5, CopyBodyKeeps
    <2>6. CASE WriteBody
      BY <2>6, WriteBodyKeeps
    <2> QED
      BY <1>1, <2>1, <2>2, <2>3, <2>4, <2>5, <2>6 DEF Server
  <1>2. CASE Client
    <2>1. CASE ReadRequest \/ NoRequest \/ Dial \/ DialFails \/ WriteUpstream
               \/ WriteUpstreamFails \/ CopyBackEnds \/ PumpEnds
      BY <2>1, SameLinks DEF ReadRequest, NoRequest, Dial, DialFails, WriteUpstream,
                             WriteUpstreamFails, CopyBackEnds, PumpEnds
    <2>2. CASE CopyBack
      BY <2>2, CopyBackKeeps
    <2>3. CASE Refuse
      <3>1. PICK x \in {"head", "end"} : Written(x) /\ Puts(x)
        BY <2>3 DEF Refuse, Written
      <3>2. UNCHANGED <<main, code, got, complete, back, cut>> /\ back = << >>
        BY <2>3 DEF Refuse, Sides
      <3> QED
        BY <3>1, <3>2, PutKeeps DEF Item
    <2>4. CASE Finish
      <3>1. PICK x \in {"head", "end"} : Written(x) /\ Puts(x)
        BY <2>4 DEF Finish, Written
      <3>2. UNCHANGED <<main, code, got, complete, back, cut>> /\ back = << >>
        BY <2>4 DEF Finish, Sides
      <3> QED
        BY <3>1, <3>2, PutKeeps DEF Item
    <2> QED
      BY <1>2, <2>1, <2>2, <2>3, <2>4 DEF Client
  <1>3. CASE Application
    <2>1. CASE HandlerReads \/ HandlerReturns \/ UpstreamReads \/ UpstreamCloses
      BY <2>1, SameLinks DEF HandlerReads, HandlerReturns, UpstreamReads, UpstreamCloses
    <2>2. CASE HandlerWrites
      <3>1. PICK x \in {"head", "unit"} : Written(x) /\ Puts(x)
        BY <2>2 DEF HandlerWrites, Written
      <3>2. UNCHANGED <<main, code, got, complete, back, cut>> /\ back = << >>
        BY <2>2 DEF HandlerWrites, Sides
      <3> QED
        BY <3>1, <3>2, PutKeeps DEF Item
    <2>3. CASE UpstreamWrites
      BY <2>3, UpstreamKeeps
    <2> QED
      BY <1>3, <2>1, <2>2, <2>3 DEF Application
  <1>4. CASE SessionDies
    BY <1>4, SessionDiesKeeps
  <1>5. CASE PublicGone \/ PublicFinishes \/ CloseTimeout \/ UNCHANGED vars
    BY <1>5, SameLinks DEF PublicGone, PublicFinishes, CloseTimeout, vars
  <1> QED
    BY <1>1, <1>2, <1>3, <1>4, <1>5 DEF Next

-------------------------------------------------------------------------------
\* The inductive invariant holds initially and is kept by every step.
THEOREM Invariance == Spec => []IInv
  <1>1. Init => IInv
    <2> SUFFICES ASSUME Init  PROVE IInv
      OBVIOUS
    <2>1. TypeOK
      <3>1. Measures
        BY WindowAssumption DEF Init, Measures, Fits
      <3>2. Positions /\ Flags
        BY DEF Init, Positions, Flags
      <3> QED
        BY <3>1, <3>2, TypeParts
    <2>2. Chain
      BY DEF Init, Chain, DownInOrder, BackInOrder, NoGap, Stages, Sides, Reading, Taken, Total
    <2> QED
      BY <2>1, <2>2 DEF IInv
  <1>2. IInv /\ [Next]_vars => IInv'
    <2> SUFFICES ASSUME IInv, [Next]_vars  PROVE IInv'
      OBVIOUS
    <2>1. TypeOK /\ Chain /\ Links /\ Sides /\ Measures /\ Positions /\ Flags
      BY TypeParts DEF IInv, Chain, Links
    <2>2. Measures' /\ Positions' /\ Flags'
      BY <2>1, MeasuresStep, PositionsStep, FlagsStep
    <2>3. TypeOK'
      BY <2>2 DEF TypeOK, Measures, Positions, Flags
    <2>4. Links' /\ Sides'
      BY <2>1, LinksStep, SidesStep
    <2> QED
      BY <2>3, <2>4 DEF IInv, Chain, Links
  <1> QED
    BY <1>1, <1>2, PTL DEF Spec

\* Buffers never hold more than a window, and no more is copied than was
\* written.
THEOREM TypeCorrect == Spec => []TypeOK
  <1>1. IInv => TypeOK
    BY DEF IInv
  <1> QED
    BY <1>1, Invariance, PTL

\* A response that forwardHTTP read to its end reached the public client whole.
THEOREM WholeResponses == Spec => []NothingLost
  <1>1. IInv => NothingLost
    BY DEF IInv, Chain, Stages, NothingLost
  <1> QED
    BY <1>1, Invariance, PTL

\* Once the router-client's Serve has returned, nothing is put on the stream.
LEMMA LeftStep == ASSUME TypeOK, Sides, Left, [Next]_vars  PROVE Left'
  <1> USE DEF Left, Sides
  <1>1. CASE Server
    BY <1>1 DEF Server, OpenStream, OpenFails, WriterReads, Writes, WriterSends, WriterFails,
                ReadResponse, ReadFails, CopyBody, WriteBody, Returns
  <1>2. CASE Client
    <2>1. CASE ReadRequest
      BY <2>1 DEF ReadRequest
    <2>2. CASE NoRequest
      BY <2>2 DEF NoRequest, Leave, Ended
    <2>3. CASE Dial \/ DialFails \/ WriteUpstream
      BY <2>3 DEF Dial, DialFails, WriteUpstream
    <2>4. CASE WriteUpstreamFails
      BY <2>4 DEF WriteUpstreamFails, Leave
    <2>5. CASE CopyBack \/ PumpEnds
      BY <2>5 DEF CopyBack, PumpEnds
    <2>6. CASE CopyBackEnds
      BY <2>6 DEF CopyBackEnds, Leave
    <2>7. CASE Refuse
      BY <2>7 DEF Refuse, Leave
    <2>8. CASE Finish
      BY <2>8 DEF Finish, Leave
    <2> QED
      BY <1>2, <2>1, <2>2, <2>3, <2>4, <2>5, <2>6, <2>7, <2>8 DEF Client
  <1>3. CASE Application
    BY <1>3 DEF Application, HandlerReads, HandlerWrites, HandlerReturns,
                UpstreamReads, UpstreamWrites, UpstreamCloses
  <1>4. CASE PublicGone \/ PublicFinishes \/ SessionDies \/ CloseTimeout \/ UNCHANGED vars
    BY <1>4 DEF PublicGone, PublicFinishes, SessionDies, CloseTimeout, vars
  <1> QED
    BY <1>1, <1>2, <1>3, <1>4 DEF Next

LEMMA PassedStep == ASSUME TypeOK, Sides, Passed, [Next]_vars  PROVE Passed'
  <1> USE DEF Passed, Sides
  <1>1. CASE Server
    BY <1>1 DEF Server, OpenStream, OpenFails, WriterReads, Writes, WriterSends, WriterFails,
                ReadResponse, ReadFails, CopyBody, WriteBody, Returns
  <1>2. CASE Client
    <2>1. CASE ReadRequest
      BY <2>1 DEF ReadRequest
    <2>2. CASE NoRequest
      BY <2>2 DEF NoRequest, Leave
    <2>3. CASE Dial \/ DialFails
      BY <2>3 DEF Dial, DialFails
    <2>4. CASE WriteUpstream
      BY <2>4 DEF WriteUpstream
    <2>5. CASE WriteUpstreamFails
      BY <2>5 DEF WriteUpstreamFails, Leave
    <2>6. CASE CopyBack
      BY <2>6 DEF CopyBack
    <2>7. CASE CopyBackEnds
      BY <2>7 DEF CopyBackEnds, Leave
    <2>8. CASE PumpEnds
      BY <2>8 DEF PumpEnds
    <2>9. CASE Refuse
      BY <2>9 DEF Refuse, Leave
    <2>10. CASE Finish
      BY <2>10 DEF Finish, Leave
    <2> QED
      BY <1>2, <2>1, <2>2, <2>3, <2>4, <2>5, <2>6, <2>7, <2>8, <2>9, <2>10 DEF Client
  <1>3. CASE Application
    BY <1>3 DEF Application, HandlerReads, HandlerWrites, HandlerReturns,
                UpstreamReads, UpstreamWrites, UpstreamCloses
  <1>4. CASE PublicGone \/ PublicFinishes \/ SessionDies \/ CloseTimeout \/ UNCHANGED vars
    BY <1>4 DEF PublicGone, PublicFinishes, SessionDies, CloseTimeout, vars
  <1> QED
    BY <1>1, <1>2, <1>3, <1>4 DEF Next

LEMMA UnheardStep == ASSUME TypeOK, Sides, Passed, Unheard, [Next]_vars  PROVE Unheard'
  <1> USE DEF Unheard
  <1>1. ASSUME UNCHANGED <<mode, heard, out>>, pump' = "off" => pump = "off"  PROVE Unheard'
    BY <1>1
  <1>2. CASE Server
    BY <1>1, <1>2 DEF Server, OpenStream, OpenFails, WriterReads, Writes, WriterSends,
                      WriterFails, ReadResponse, ReadFails, CopyBody, WriteBody, Returns
  <1>3. CASE Client
    <2>1. CASE Dial
      BY <2>1 DEF Dial
    <2>2. CASE WriteUpstream
      <3>1. /\ up # << >> /\ Room(out) /\ out' = Append(out, Head(up)) /\ Head(up) \in Item
            /\ UNCHANGED <<mode, heard>>
        BY <2>2, TailFits DEF WriteUpstream, TypeOK
      <3>2. CASE Head(up) = "end"
        BY <2>2, <3>2 DEF WriteUpstream
      <3>3. CASE Head(up) # "end"
        <4>1. /\ Len(out') = Len(out) + 1 /\ out'[Len(out) + 1] = Head(up) /\ Len(out) \in Nat
              /\ \A i \in 1 .. Len(out) : out'[i] = out[i]
          BY <3>1, AppendFits, Lengths DEF TypeOK
        <4>2. \A i \in 1 .. Len(out) + 1 : i \in 1 .. Len(out) \/ i = Len(out) + 1
          BY <4>1
        <4>3. pump' = pump
          BY <2>2, <3>3 DEF WriteUpstream
        <4> QED
          BY <3>1, <3>3, <4>1, <4>2, <4>3
      <3> QED
        BY <3>2, <3>3
    <2>3. CASE ReadRequest \/ NoRequest \/ DialFails \/ WriteUpstreamFails \/ CopyBack
               \/ CopyBackEnds \/ PumpEnds \/ Refuse \/ Finish
      BY <1>1, <2>3 DEF ReadRequest, NoRequest, DialFails, WriteUpstreamFails, CopyBack,
                        CopyBackEnds, PumpEnds, Refuse, Finish
    <2> QED
      BY <1>3, <2>1, <2>2, <2>3 DEF Client
  <1>4. CASE Application
    <2>1. CASE UpstreamReads
      <3>1. /\ out # << >> /\ out' = Tail(out) /\ (heard' <=> Head(out) = "end")
            /\ UNCHANGED <<mode, pump>>
        BY <2>1 DEF UpstreamReads
      <3>2. /\ Len(out) \in Nat \ {0} /\ Head(out) = out[1] /\ Len(out') = Len(out) - 1
            /\ \A i \in 1 .. Len(out) - 1 : out'[i] = out[i + 1]
        BY <3>1, TailFits DEF TypeOK
      <3>3. 1 \in 1 .. Len(out) /\ \A i \in 1 .. Len(out) - 1 : i + 1 \in 1 .. Len(out)
        BY <3>2
      <3> QED
        BY <3>1, <3>2, <3>3
    <2>2. CASE HandlerReads
      BY <2>2 DEF HandlerReads, Sides
    <2>3. CASE HandlerWrites \/ HandlerReturns \/ UpstreamWrites \/ UpstreamCloses
      BY <1>1, <2>3 DEF HandlerWrites, HandlerReturns, UpstreamWrites, UpstreamCloses
    <2> QED
      BY <1>4, <2>1, <2>2, <2>3 DEF Application
  <1>5. CASE PublicGone \/ PublicFinishes \/ SessionDies \/ CloseTimeout \/ UNCHANGED vars
    BY <1>1, <1>5 DEF PublicGone, PublicFinishes, SessionDies, CloseTimeout, vars
  <1> QED
    BY <1>2, <1>3, <1>4, <1>5 DEF Next

\* When a response cannot be read on a live session, an answer the application
\* has begun is still on the upstream's connection, and half a request was sent.
LEMMA NothingToRead ==
    ASSUME TypeOK, Chain, Left, Passed, Unheard, ReadFails, cut = "no"
    PROVE  serve = "done" /\ (answer # "none" => mode = "proxy" /\ ~heard)
  <1>1. main = "read" /\ down = << >> /\ "client" \in closed
    BY DEF ReadFails, NoResponse, Ended
  <1>2. serve = "done"
    BY <1>1 DEF Left
  <1>3. Taken = 0 /\ Taken + Len(down) + Len(back) = Total /\ Len(down) = 0 /\ Len(back) \in Nat
    BY <1>1, Lengths DEF Chain, Stages, NoGap, Reading, Taken, TypeOK
  <1>4. answer # "none" => Total > 0
    BY DEF Total, TypeOK
  <1>5. answer # "none" => back # << >>
    BY <1>3, <1>4, Lengths DEF TypeOK
  <1>6. answer # "none" => mode # "handler" /\ pump = "off"
    BY <1>2, <1>5 DEF Chain, Sides, Passed
  <1>7. mode # "handler" => mode = "proxy"
    BY WindowAssumption DEF TypeOK
  <1> QED
    BY <1>2, <1>6, <1>7 DEF Unheard

LEMMA RefusedStep ==
    ASSUME TypeOK, Chain, Left, Passed, Unheard, Refused, [Next]_vars
    PROVE  Refused'
  <1> USE DEF Refused, Passed, Sides
  <1>0. Sides
    BY DEF Chain
  <1>1. CASE Server
    <2>1. CASE OpenFails
      BY <2>1 DEF OpenFails, Left
    <2>2. CASE ReadFails
      BY <2>2, NothingToRead DEF ReadFails
    <2>3. CASE OpenStream \/ ReadResponse
      BY <2>3 DEF OpenStream, ReadResponse
    <2>4. CASE WriterReads
      BY <2>4 DEF WriterReads
    <2>5. CASE Writes
      BY <2>5 DEF Writes, WriterSends, WriterFails
    <2>6. CASE CopyBody \/ WriteBody
      BY <2>6 DEF CopyBody, WriteBody
    <2>7. CASE Returns
      BY <2>7 DEF Returns
    <2> QED
      BY <1>1, <2>1, <2>2, <2>3, <2>4, <2>5, <2>6, <2>7 DEF Server
  <1>2. CASE Client
    <2>1. CASE ReadRequest
      BY <1>0, <2>1 DEF ReadRequest
    <2>2. CASE NoRequest
      BY <1>0, <2>2 DEF NoRequest, Leave
    <2>3. CASE Dial \/ DialFails
      BY <1>0, <2>3 DEF Dial, DialFails
    <2>4. CASE WriteUpstream
      BY <1>0, <2>4 DEF WriteUpstream
    <2>5. CASE WriteUpstreamFails
      BY <1>0, <2>5 DEF WriteUpstreamFails, Leave
    <2>6. CASE CopyBack \/ PumpEnds
      BY <1>0, <2>6 DEF CopyBack, PumpEnds
    <2>7. CASE CopyBackEnds
      BY <1>0, <2>7 DEF CopyBackEnds, Leave
    <2>8. CASE Refuse
      BY <1>0, <2>8 DEF Refuse, Leave
    <2>9. CASE Finish
      BY <1>0, <2>9 DEF Finish, Leave
    <2> QED
      BY <1>2, <2>1, <2>2, <2>3, <2>4, <2>5, <2>6, <2>7, <2>8, <2>9 DEF Client
  <1>3. CASE Application
    BY <1>0, <1>3 DEF Application, HandlerReads, HandlerWrites, HandlerReturns,
                UpstreamReads, UpstreamWrites, UpstreamCloses
  <1>4. CASE PublicGone \/ PublicFinishes \/ SessionDies \/ CloseTimeout \/ UNCHANGED vars
    BY <1>4 DEF PublicGone, PublicFinishes, SessionDies, CloseTimeout, vars
  <1> QED
    BY <1>1, <1>2, <1>3, <1>4 DEF Next

\* While the session lives a 502 never takes the place of an answer that was
\* begun, but for an upstream that answered before it was sent all of the request.
THEOREM HonestRefusals == Spec => []BadGatewayHonest
  <1>1. Init => Left /\ Refused /\ Passed /\ Unheard
    BY DEF Init, Left, Refused, Passed, Unheard
  <1>2. IInv /\ Left /\ Refused /\ Passed /\ Unheard /\ [Next]_vars
            => (Left /\ Refused /\ Passed /\ Unheard)'
    BY LeftStep, RefusedStep, PassedStep, UnheardStep DEF IInv, Chain
  <1>3. Refused => BadGatewayHonest
    BY DEF Refused, BadGatewayHonest
  <1> QED
    BY <1>1, <1>2, <1>3, Invariance, PTL DEF Spec
===============================================================================
