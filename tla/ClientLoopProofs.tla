--------------------------- MODULE ClientLoopProofs ---------------------------
(***************************************************************************)
(* The client's loop leaves no connection behind, and its delays stay      *)
(* within their bounds, for any number of connections and any delays.      *)
(***************************************************************************)
EXTENDS ClientLoop, TLAPS

USE DEF loopVars, wireVars

\* The delay; TypeOK's other parts are in Places.
DelayOK == backoff \in 1 .. ReconnectMax \cup {ReconnectMin}

Places ==
    /\ ctx \in {"live", "cancelled"}
    /\ run \in {"top", "dial", "failed", "backoff", "returned"} \cup Connected
    /\ conn \in Conn \cup {None}
    /\ open \subseteq Conn /\ cut \subseteq Conn /\ greeted \subseteq Conn
    /\ reply \in [Conn -> {"none", "ok", "bad"}]
    /\ far \in [Conn -> {"hello", "ack", "register", "serve", "closed"}]
    /\ owner \in Conn \cup {None}
    /\ faults \in BOOLEAN

\* runOnce has a connection while it is under way.
HasConn == run \in Connected => conn \in Conn

IInv == DelayOK /\ Places /\ HasConn /\ NothingLeftOpen

LEMMA TypeParts == TypeOK <=> DelayOK /\ Places
  BY DEF TypeOK, DelayOK, Places

\* Doubling ends at ReconnectMax, wherever it starts.
LEMMA DelayStep == ASSUME DelayOK, [Next]_vars  PROVE DelayOK'
  <1>1. backoff' = backoff \/ backoff' = Doubled
    BY DEF Next, Loop, Top, AfterRunOnce, Wait, RunOnce, Dial, DialFails, WriteHello,
           WriteHelloFails, Accepted, Rejected, ReadAckFails, AcceptFails, ClosesAndFails, Fails,
           SessionOver, CloserFires, Handler, ReadHello, ReadHelloFails, WriteAck, Register,
           SessionEnds, Cancel, Break, Restart, Toggle, vars
  <1>2. Doubled \in 1 .. ReconnectMax
    BY DelayAssumption DEF DelayOK, Doubled
  <1> QED
    BY <1>1, <1>2 DEF DelayOK

LEMMA LoopStep ==
    ASSUME Places, HasConn, NothingLeftOpen, Loop \/ CloserFires
    PROVE  Places' /\ HasConn' /\ NothingLeftOpen'
  <1> USE DEF Places, HasConn, NothingLeftOpen, Connected
  <1>1. CASE Top \/ AfterRunOnce
    BY <1>1 DEF Top, AfterRunOnce
  <1>2. CASE Wait
    BY <1>2 DEF Wait
  <1>3. CASE CloserFires
    BY <1>3 DEF CloserFires
  <1> QED
    BY <1>1, <1>2, <1>3 DEF Loop

LEMMA RunOnceStep ==
    ASSUME Places, HasConn, NothingLeftOpen, RunOnce
    PROVE  Places' /\ HasConn' /\ NothingLeftOpen'
  <1> USE DEF Places, HasConn, NothingLeftOpen, Connected
  <1>1. CASE Dial
    <2>1. PICK c \in Conn :
              /\ conn' = c
              /\ open' = open \cup {c} /\ cut' = cut \ {c} /\ greeted' = greeted \ {c}
              /\ reply' = [reply EXCEPT ![c] = "none"]
              /\ far' = [far EXCEPT ![c] = "hello"]
      BY <1>1 DEF Dial
    <2>2. run = "dial" /\ run' = "hello" /\ UNCHANGED <<ctx, backoff, owner, faults>>
      BY <1>1 DEF Dial
    <2> QED
      BY <2>1, <2>2
  <1>2. CASE DialFails
    BY <1>2 DEF DialFails, Fails
  <1>3. CASE WriteHello \/ Accepted
    BY <1>3 DEF WriteHello, Accepted
  <1>4. CASE WriteHelloFails
    BY <1>4 DEF WriteHelloFails, ClosesAndFails, Fails
  <1>5. CASE Rejected
    BY <1>5 DEF Rejected, ClosesAndFails, Fails
  <1>6. CASE ReadAckFails
    BY <1>6 DEF ReadAckFails, ClosesAndFails, Fails
  <1>7. CASE AcceptFails
    BY <1>7 DEF AcceptFails, SessionOver, Fails
  <1> QED
    BY <1>1, <1>2, <1>3, <1>4, <1>5, <1>6, <1>7 DEF RunOnce

\* The server's handlers, and what happens to the network, close nothing here.
LEMMA FarStep ==
    ASSUME Places, NEW c \in Conn, Handler(c)
    PROVE  Places' /\ UNCHANGED <<run, conn, open>>
  <1> USE DEF Places
  <1>1. CASE ReadHello(c)
    BY <1>1 DEF ReadHello
  <1>2. CASE ReadHelloFails(c)
    BY <1>2 DEF ReadHelloFails
  <1>3. CASE WriteAck(c)
    BY <1>3 DEF WriteAck
  <1>4. CASE Register(c)
    BY <1>4 DEF Register
  <1>5. CASE SessionEnds(c)
    BY <1>5 DEF SessionEnds
  <1> QED
    BY <1>1, <1>2, <1>3, <1>4, <1>5 DEF Handler

LEMMA WorldStep ==
    ASSUME Places, Cancel \/ Restart \/ Toggle \/ (\E c \in Conn : Break(c)) \/ UNCHANGED vars
    PROVE  Places' /\ UNCHANGED <<run, conn, open>>
  BY DEF Places, Cancel, Restart, Toggle, Break, vars

\* The inductive invariant holds initially and is kept by every step.
THEOREM Invariance == Spec => []IInv
  <1>1. Init => IInv
    BY DelayAssumption DEF Init, IInv, DelayOK, Places, HasConn, NothingLeftOpen, Connected
  <1>2. IInv /\ [Next]_vars => IInv'
    <2> SUFFICES ASSUME IInv, [Next]_vars  PROVE IInv'
      OBVIOUS
    <2>1. DelayOK'
      BY DelayStep DEF IInv
    <2>2. CASE Loop \/ CloserFires
      BY <2>1, <2>2, LoopStep DEF IInv
    <2>3. CASE RunOnce
      BY <2>1, <2>3, RunOnceStep DEF IInv
    <2>4. CASE Places' /\ UNCHANGED <<run, conn, open>>
      BY <2>1, <2>4 DEF IInv, HasConn, NothingLeftOpen, Connected
    <2> QED
      BY <2>2, <2>3, <2>4, FarStep, WorldStep DEF IInv, Next
  <1> QED
    BY <1>1, <1>2, PTL DEF Spec

\* The delay is never more than the larger of its two bounds, nor 0.
THEOREM TypeCorrect == Spec => []TypeOK
  <1>1. IInv => TypeOK
    BY TypeParts DEF IInv
  <1> QED
    BY <1>1, Invariance, PTL

\* However runOnce ends, and however often, no connection is left open.
THEOREM NoneLeftOpen == Spec => []NothingLeftOpen
  <1>1. IInv => NothingLeftOpen
    BY DEF IInv
  <1> QED
    BY <1>1, Invariance, PTL
===============================================================================
