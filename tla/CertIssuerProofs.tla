--------------------------- MODULE CertIssuerProofs ---------------------------
(***************************************************************************)
(* What certIssuer guarantees for any clients, names and hosts: one        *)
(* issuance of a host at a time, and no way back from a certificate.       *)
(*                                                                         *)
(* That a host is pending exactly while one goroutine works on it is       *)
(* inductive once the tables' types are known: Issue starts a goroutine    *)
(* only for a host that is not pending, and nothing but the goroutine's    *)
(* own end takes a host out of that state.                                 *)
(***************************************************************************)
EXTENDS CertIssuer, SequenceTheorems, TLAPS

\* The types of what Issue and run write, and of the name Issue reads.
Tables ==
    /\ \A c \in Client : cpc[c] \in {"register", "issue"} => name[c] \in Service
    /\ name \in [Client -> Service \cup {None}]
    /\ status \in [CertHosts -> {"unknown", "pending", "ready", "error"}]
    /\ asking \in [CertHosts -> Nat]
    /\ ordering \in [CertHosts -> Nat]

\* A host a goroutine is about to ask the policy for belongs to a service that
\* was registered.
Remembered ==
    /\ known \subseteq Service
    /\ \A c \in Client : cpc[c] = "issue" => name[c] \in known
    /\ \A h \in CertHosts : asking[h] > 0 => \E n \in known : CertHost(n) = h

IInv == Tables /\ OneAtATime

USE DEF clientVars, issueVars

-------------------------------------------------------------------------------
\* A wildcard client is given its claim in lower case, any other client the
\* name its token is bound to.
LEMMA SettleLower ==
    ASSUME NEW bound \in Service \cup {Wildcard}, NEW claim \in Name \cup {Empty},
           NEW n \in Settle(bound, claim)
    PROVE  n \in Service
  <1>1. CASE bound # Wildcard
    BY <1>1 DEF Settle
  <1>2. CASE bound = Wildcard
    <2>1. n = ToLower(claim) /\ ValidName(ToLower(claim))
      BY <1>2 DEF Settle
    <2>2. claim # Empty
      <3>1. ToLower(Empty)[1] = Blank
        BY LabelAssumption DEF Empty, ToLower
      <3> QED
        BY <2>1, <3>1, LabelAssumption DEF ValidName
    <2>3. claim \in Name /\ claim \in Seq(Label)
      BY <2>2, NameAssumption
    <2>4. ToLower(ToLower(claim)) = ToLower(claim)
      BY <2>3, LabelAssumption DEF ToLower
    <2> QED
      BY <2>1, <2>3, <2>4, NameAssumption DEF Service
  <1> QED
    BY <1>1, <1>2

LEMMA Concat ==
    ASSUME NEW s \in Seq(Label), NEW t \in Seq(Label)
    PROVE  /\ s \o t \in Seq(Label) /\ Len(s \o t) = Len(s) + Len(t)
           /\ \A i \in 1 .. Len(s) : (s \o t)[i] = s[i]
           /\ \A i \in 1 .. Len(t) : (s \o t)[Len(s) + i] = t[i]
  OBVIOUS

LEMMA Lowered ==
    ASSUME NEW s \in Seq(Label)
    PROVE  /\ ToLower(s) \in Seq(Label) /\ Len(ToLower(s)) = Len(s)
           /\ \A i \in 1 .. Len(s) : ToLower(s)[i] = Lower[s[i]]
  BY LabelAssumption DEF ToLower

\* Base has no final dot: the host of a name in lower case is the name's labels
\* before those of Base.
LEMMA HostOfName ==
    ASSUME NEW n \in Seq(Label), ToLower(n) = n
    PROVE  /\ CertHost(n) = n \o Base
           /\ ToLower(n \o Base) = n \o Base
           /\ ToLower(TrimDot(CertHost(n))) = CertHost(n)
           /\ n # << >> => Below(CertHost(n))
           /\ Inner(CertHost(n)) = n
  <1>1. n \in Seq(Label) /\ ToLower(n) = n
    OBVIOUS
  <1>2. Base \in Seq(Label) /\ Len(Base) > 0 /\ Base[Len(Base)] # Blank
    BY LabelAssumption DEF Last
  <1> DEFINE h == n \o Base
  <1>3. /\ h \in Seq(Label) /\ Len(h) = Len(n) + Len(Base)
        /\ \A i \in 1 .. Len(n) : h[i] = n[i]
        /\ \A i \in 1 .. Len(Base) : h[Len(n) + i] = Base[i]
    BY <1>1, <1>2
  <1>4. TrimDot(h) = h
    BY <1>2, <1>3 DEF TrimDot, Last
  <1>5. ToLower(h) = h
    <2>1. \A i \in 1 .. Len(n) : Lower[n[i]] = n[i]
      BY <1>1 DEF ToLower
    <2>2. \A i \in 1 .. Len(Base) : Lower[Base[i]] = Base[i]
      BY <1>2, LabelAssumption
    <2>3. ASSUME NEW i \in 1 .. Len(h)  PROVE Lower[h[i]] = h[i]
      <3>1. CASE i <= Len(n)
        BY <1>3, <2>1, <3>1
      <3>2. CASE i > Len(n)
        <4>1. i - Len(n) \in 1 .. Len(Base) /\ i = Len(n) + (i - Len(n))
          BY <1>1, <1>2, <1>3, <3>2
        <4> QED
          BY <1>3, <2>2, <4>1
      <3> QED
        BY <1>1, <3>1, <3>2
    <2>4. h \in [1 .. Len(h) -> Label] /\ DOMAIN h = 1 .. Len(h)
      BY <1>3, LenProperties
    <2>5. [i \in 1 .. Len(h) |-> Lower[h[i]]] = h
      BY <2>3, <2>4
    <2> QED
      BY <2>4, <2>5 DEF ToLower
  <1>6. SubSeq(h, 1, Len(n)) = n
    BY <1>1, <1>2, <1>3
  <1>7. SubSeq(h, Len(n) + 1, Len(h)) = Base
    BY <1>1, <1>2, <1>3
  <1>8. CertHost(n) = h
    BY <1>4, <1>5 DEF CertHost
  <1>9. n # << >> => Len(n) > 0
    BY <1>1
  <1>10. Len(h) - Len(Base) = Len(n)
    BY <1>1, <1>2, <1>3
  <1>11. Inner(h) = n
    BY <1>6, <1>10 DEF Inner
  <1>12. n # << >> => Below(h)
    <2>1. n # << >> => Len(h) > Len(Base)
      BY <1>1, <1>2, <1>3, <1>9
    <2> QED
      BY <1>7, <1>10, <2>1 DEF Below
  <1> HIDE DEF h
  <1> QED
    BY <1>4, <1>5, <1>8, <1>11, <1>12 DEF h

\* Services are in lower case.
LEMMA HostOfService ==
    ASSUME NEW n \in Service
    PROVE  /\ CertHost(n) = n \o Base
           /\ ToLower(TrimDot(CertHost(n))) = CertHost(n)
           /\ n # << >> => Below(CertHost(n))
           /\ Inner(CertHost(n)) = n
  <1>1. n \in Seq(Label) /\ ToLower(n) = n
    BY NameAssumption DEF Service
  <1> QED
    BY <1>1, HostOfName

LEMMA InitIInv == Init => IInv
  BY DEF Init, IInv, Tables, OneAtATime

\* Hello gives the only new names; Issue, AskPolicy and RunEnds move one
\* goroutine of one host.
LEMMA IInvStep == IInv /\ [Next]_vars => IInv'
  <1> SUFFICES ASSUME IInv, [Next]_vars  PROVE IInv'
    OBVIOUS
  <1> USE DEF IInv, Tables, OneAtATime
  <1>1. ASSUME NEW c \in Client, NEW bound \in Service \cup {Wildcard},
               NEW claim \in Name \cup {Empty}, Hello(c, bound, claim)
        PROVE  IInv'
    <2>1. PICK n \in Service : name' = [name EXCEPT ![c] = n]
      BY <1>1, SettleLower DEF Hello
    <2> QED
      BY <1>1, <2>1 DEF Hello
  <1>2. ASSUME NEW c \in Client, Register(c)  PROVE IInv'
    BY <1>2 DEF Register
  <1>3. ASSUME NEW c \in Client, Issue(c)  PROVE IInv'
    <2> DEFINE h == CertHost(name[c])
    <2>1. h \in CertHosts
      BY <1>3 DEF Issue, CertHosts
    <2>2. CASE UNCHANGED <<status, asking>>
      BY <1>3, <2>2 DEF Issue
    <2>3. CASE /\ status[h] \notin {"pending", "ready"}
               /\ status' = [status EXCEPT ![h] = "pending"]
               /\ asking' = [asking EXCEPT ![h] = @ + 1]
      <3>1. UNCHANGED <<name, ordering>> /\ cpc' = [cpc EXCEPT ![c] = "serve"]
        BY <1>3 DEF Issue
      <3> HIDE DEF h
      <3> QED
        BY <2>1, <2>3, <3>1
    <2> QED
      BY <1>3, <2>2, <2>3 DEF Issue, Settled
  <1>4. ASSUME NEW c \in Client, Leave(c)  PROVE IInv'
    BY <1>4 DEF Leave
  <1>5. ASSUME NEW h \in CertHosts, AskPolicy(h)  PROVE IInv'
    <2>1. asking[h] = 1 /\ ordering[h] = 0 /\ status[h] = "pending"
      <3>1. asking[h] > 0
        BY <1>5 DEF AskPolicy
      <3>2. asking[h] \in Nat /\ ordering[h] \in Nat
        OBVIOUS
      <3>3. asking[h] + ordering[h] = IF status[h] = "pending" THEN 1 ELSE 0
        OBVIOUS
      <3>4. CASE status[h] = "pending"
        <4>1. asking[h] + ordering[h] = 1
          BY <3>3, <3>4
        <4>2. \A x, y \in Nat : x > 0 /\ x + y = 1 => x = 1 /\ y = 0
          OBVIOUS
        <4> QED
          BY <3>1, <3>2, <3>4, <4>1, <4>2
      <3>5. CASE status[h] # "pending"
        BY <3>1, <3>2, <3>3, <3>5
      <3> QED
        BY <3>4, <3>5
    <2>2. asking' = [asking EXCEPT ![h] = 0] /\ UNCHANGED <<cpc, name>>
      BY <1>5, <2>1 DEF AskPolicy
    <2>3. \/ ordering' = [ordering EXCEPT ![h] = 1] /\ UNCHANGED status
          \/ status' = [status EXCEPT ![h] = "error"] /\ UNCHANGED ordering
      BY <1>5, <2>1 DEF AskPolicy
    <2> QED
      BY <2>1, <2>2, <2>3
  <1>6. ASSUME NEW h \in CertHosts, RunEnds(h)  PROVE IInv'
    BY <1>6 DEF RunEnds
  <1>8. CASE UNCHANGED vars
    BY <1>8 DEF vars
  <1> QED
    BY <1>1, <1>2, <1>3, <1>4, <1>5, <1>6, <1>8 DEF Next, Handler, Run

\* The inductive invariant holds from startup on.
THEOREM Invariance == Spec => []IInv
  BY InitIInv, IInvStep, PTL DEF Spec

\* At most one goroutine issues a host's certificate, and the host is pending
\* exactly while it does (certIssuer.Issue and run).
THEOREM OneIssuance == Spec => []OneAtATime
  <1>1. IInv => OneAtATime
    BY DEF IInv
  <1> QED
    BY Invariance, <1>1, PTL

\* Register comes before Issue and a service is never forgotten, so whoever asks
\* the policy asks for a service it knows.
LEMMA RememberedStep ==
    IInv /\ Remembered /\ [Next]_vars => Remembered'
  <1> SUFFICES ASSUME IInv, Remembered, [Next]_vars  PROVE Remembered'
    OBVIOUS
  <1> USE DEF IInv, Tables, Remembered
  <1>1. ASSUME NEW c \in Client, NEW bound \in Service \cup {Wildcard},
               NEW claim \in Name \cup {Empty}, Hello(c, bound, claim)
        PROVE  Remembered'
    BY <1>1 DEF Hello
  <1>2. ASSUME NEW c \in Client, Register(c)  PROVE Remembered'
    BY <1>2 DEF Register
  <1>3. ASSUME NEW c \in Client, Issue(c)  PROVE Remembered'
    <2>1. name[c] \in known
      BY <1>3 DEF Issue
    <2>2. \A h \in CertHosts : asking'[h] > 0 => asking[h] > 0 \/ h = CertHost(name[c])
      BY <1>3 DEF Issue
    <2> QED
      BY <1>3, <2>1, <2>2 DEF Issue
  <1>4. ASSUME NEW c \in Client, Leave(c)  PROVE Remembered'
    BY <1>4 DEF Leave
  <1>5. ASSUME NEW g \in CertHosts, AskPolicy(g)  PROVE Remembered'
    <2>1. /\ asking' = [asking EXCEPT ![g] = @ - 1]
          /\ UNCHANGED <<known, cpc, name>>
      BY <1>5 DEF AskPolicy
    <2>2. \A h \in CertHosts : asking'[h] > 0 => asking[h] > 0
      BY <2>1
    <2> QED
      BY <2>1, <2>2
  <1>6. ASSUME NEW h \in CertHosts, RunEnds(h)  PROVE Remembered'
    BY <1>6 DEF RunEnds
  <1>8. CASE UNCHANGED vars
    BY <1>8 DEF vars
  <1> QED
    BY <1>1, <1>2, <1>3, <1>4, <1>5, <1>6, <1>8 DEF Next, Handler, Run

\* The policy lets every well-formed service pass that was registered.
LEMMA PolicyKnows ==
    ASSUME NEW n \in Service, n \in known, ValidName(n)
    PROVE  Passes(CertHost(n))
  <1>1. n # << >>
    BY DEF ValidName
  <1> QED
    BY <1>1, HostOfService DEF Passes, Allowed, HasService

LEMMA RefusedStep ==
    IInv /\ Remembered /\ NeverRefused /\ [Next]_vars => NeverRefused'
  <1> SUFFICES ASSUME IInv, Remembered, NeverRefused, [Next]_vars  PROVE NeverRefused'
    OBVIOUS
  <1>1. CASE UNCHANGED refused
    BY <1>1 DEF NeverRefused
  <1>2. ASSUME NEW h \in CertHosts, AskPolicy(h)  PROVE NeverRefused'
    <2>1. CASE Passes(h)
      <3>1. UNCHANGED refused
        BY <1>2, <2>1 DEF AskPolicy
      <3> QED
        BY <3>1, <1>1
    <2>2. CASE ~Passes(h)
      <3>1. refused' = refused \cup {h} /\ asking[h] > 0
        BY <1>2, <2>2 DEF AskPolicy
      <3>2. PICK m \in known : CertHost(m) = h
        BY <3>1 DEF Remembered
      <3>3. \A n \in Service : CertHost(n) = h => n = m
        BY <3>2, HostOfService DEF Remembered
      <3>4. ~ValidName(m)
        BY <2>2, <3>2, PolicyKnows DEF Remembered
      <3> QED
        BY <3>1, <3>3, <3>4 DEF NeverRefused
    <2> QED
      BY <2>1, <2>2
  <1>3. CASE ~\E h \in CertHosts : AskPolicy(h)
    <2>1. UNCHANGED refused
      BY <1>3 DEF Next, Handler, Run, Hello, Register, Issue, Leave, RunEnds, vars
    <2> QED
      BY <2>1, <1>1
  <1> QED
    BY <1>2, <1>3

\* A well-formed service that was registered is never refused a certificate by
\* the host policy (autocertHostPolicy against handleControl's order).
THEOREM PolicyAgrees == Spec => []NeverRefused
  <1>1. Init => Remembered /\ NeverRefused
    BY DEF Init, Remembered, NeverRefused
  <1> QED
    BY <1>1, Invariance, RememberedStep, RefusedStep, PTL DEF Spec

\* mode, the clients and the tables keep their types: what is known or refused is
\* a service's, and a Hello leaves a name in lower case.
THEOREM TypeCorrect == Spec => []TypeOK
  <1> DEFINE Rest == /\ mode \in Mode
                     /\ cpc \in [Client -> {"idle", "register", "issue", "serve"}]
                     /\ connects \in 0 .. MaxConnects
                     /\ refused \subseteq CertHosts
  <1>1. Init => Rest
    BY ConnectsAssumption DEF Init
  <1>2. Rest /\ [Next]_vars => Rest'
    <2> SUFFICES ASSUME Rest, [Next]_vars  PROVE Rest'
      OBVIOUS
    <2>1. ASSUME NEW c \in Client, NEW bound, NEW claim, Hello(c, bound, claim)
          PROVE  Rest'
      BY <2>1, ConnectsAssumption DEF Hello
    <2>2. ASSUME NEW c \in Client, Handler(c) \/ Leave(c)  PROVE Rest'
      BY <2>2 DEF Handler, Register, Issue, Leave
    <2>3. ASSUME NEW h \in CertHosts, Run(h)  PROVE Rest'
      BY <2>3 DEF Run, AskPolicy, RunEnds
    <2>4. CASE UNCHANGED vars
      BY <2>4 DEF vars
    <2> QED
      BY <2>1, <2>2, <2>3, <2>4 DEF Next
  <1>3. IInv /\ Remembered /\ Rest => TypeOK
    BY DEF IInv, Tables, Remembered, TypeOK
  <1>4. Init => Remembered
    BY DEF Init, Remembered
  <1> HIDE DEF Rest
  <1> QED
    BY <1>1, <1>2, <1>3, <1>4, Invariance, RememberedStep, PTL DEF Spec

-------------------------------------------------------------------------------
\* A host and the same host as extractService compares it differ by case and by
\* one final dot.
LEMMA Trimmed ==
    ASSUME NEW host \in Seq(Label)
    PROVE  LET g == ToLower(host)
               t == ToLower(TrimDot(host))
           IN  /\ g \in Seq(Label) /\ t \in Seq(Label)
               /\ \A i \in 1 .. Len(g) : Lower[g[i]] = g[i]
               /\ \/ /\ Len(g) = Len(t) + 1 /\ Len(t) > 0 /\ g[Len(g)] = Blank
                     /\ \A i \in 1 .. Len(t) : t[i] = g[i]
                  \/ t = g /\ (Len(g) > 1 => g[Len(g)] # Blank)
  <1> DEFINE g == ToLower(host)
             t == ToLower(TrimDot(host))
  <1>1. /\ g \in Seq(Label) /\ Len(g) = Len(host)
        /\ \A i \in 1 .. Len(g) : g[i] = Lower[host[i]]
    BY LabelAssumption DEF ToLower
  <1>2. \A i \in 1 .. Len(g) : Lower[g[i]] = g[i] /\ (g[i] = Blank <=> host[i] = Blank)
    BY <1>1, LabelAssumption
  <1>3. CASE Len(host) > 1 /\ host[Len(host)] = Blank
    <2>1. TrimDot(host) = Front(host)
      BY <1>3 DEF TrimDot, Last
    <2>2. Front(host) \in Seq(Label) /\ Len(Front(host)) = Len(host) - 1
          /\ \A i \in 1 .. Len(host) - 1 : Front(host)[i] = host[i]
      BY <1>3 DEF Front
    <2>3. t \in Seq(Label) /\ Len(t) = Len(host) - 1
          /\ \A i \in 1 .. Len(host) - 1 : t[i] = Lower[host[i]]
      BY <2>1, <2>2, Lowered
    <2> HIDE DEF g, t
    <2> QED
      BY <1>1, <1>2, <1>3, <2>3 DEF g, t
  <1>4. CASE ~(Len(host) > 1 /\ host[Len(host)] = Blank)
    <2>1. TrimDot(host) = host
      BY <1>4 DEF TrimDot, Last
    <2>2. t = g
      BY <2>1
    <2> HIDE DEF g, t
    <2> QED
      BY <1>1, <1>2, <1>4, <2>2 DEF g, t
  <1> QED
    BY <1>3, <1>4

\* extractService finds the label right below the base domain, and the only one.
LEMMA ServiceOfHost ==
    ASSUME NEW host \in Seq(Label)
    PROVE  /\ \A l \in Subdomain(ToLower(host)) :
                  ExtractService(host) = <<l>> /\ l # Blank
           /\ ExtractService(host) # Empty =>
                  \E l \in Subdomain(ToLower(host)) :
                      ExtractService(host) = <<l>> /\ Lower[l] = l
  <1> DEFINE g == ToLower(host)
             t == ToLower(TrimDot(host))
             b == Len(Base)
  <1>1. /\ g \in Seq(Label) /\ t \in Seq(Label)
        /\ \A i \in 1 .. Len(g) : Lower[g[i]] = g[i]
    BY Trimmed
  <1>2. \/ /\ Len(g) = Len(t) + 1 /\ Len(t) > 0 /\ g[Len(g)] = Blank
           /\ \A i \in 1 .. Len(t) : t[i] = g[i]
        \/ t = g /\ (Len(g) > 1 => g[Len(g)] # Blank)
    BY Trimmed
  <1>3. Base \in Seq(Label) /\ b \in Nat /\ b > 0 /\ Base[b] # Blank
    BY LabelAssumption DEF Last
  <1>4. ExtractService(host) = IF Below(t) THEN LastLabel(Inner(t)) ELSE Empty
    BY DEF ExtractService
  <1> HIDE DEF g, t, b
  <1>5. ASSUME NEW l \in Subdomain(g)  PROVE ExtractService(host) = <<l>> /\ l # Blank
    <2>1. l \in Label /\ l # Blank
      BY <1>5 DEF Subdomain
    <2>2. PICK i \in 0 .. Len(g), dot \in {<< >>, Empty} :
              g = SubSeq(g, 1, i) \o <<l>> \o Base \o dot
      BY <1>5 DEF Subdomain
    <2> DEFINE p == SubSeq(g, 1, i)
    <2>3. p \in Seq(Label) /\ Len(p) = i
      BY <1>1
    <2>4. dot \in Seq(Label) /\ Len(dot) \in {0, 1} /\ (Len(dot) = 1 => dot[1] = Blank)
      <3>1. CASE dot = << >>
        BY <3>1
      <3>2. CASE dot = <<Blank>>
        BY <3>2, LabelAssumption
      <3> QED
        BY <3>1, <3>2 DEF Empty
    <2> HIDE DEF p
    <2>5. g = p \o <<l>> \o Base \o dot
      BY <2>2 DEF p
    <2>6. p \o <<l>> \in Seq(Label) /\ Len(p \o <<l>>) = i + 1 /\ (p \o <<l>>)[i + 1] = l
      BY <2>1, <2>3
    <2>7. /\ Len(g) = i + 1 + b + Len(dot)
          /\ g[i + 1] = l
          /\ \A k \in 1 .. b : g[i + 1 + k] = Base[k]
          /\ Len(dot) = 1 => g[Len(g)] = Blank
      <3> DEFINE q == p \o <<l>>
                 u == q \o Base
      <3>1. u \in Seq(Label) /\ Len(u) = i + 1 + b /\ u[i + 1] = l
            /\ \A k \in 1 .. b : u[i + 1 + k] = Base[k]
        <4> HIDE DEF q
        <4>1. q \in Seq(Label) /\ Len(q) = i + 1 /\ q[i + 1] = l
          BY <2>6 DEF q
        <4>2. /\ u \in Seq(Label) /\ Len(u) = Len(q) + Len(Base)
              /\ \A k \in 1 .. Len(q) : u[k] = q[k]
              /\ \A k \in 1 .. Len(Base) : u[Len(q) + k] = Base[k]
          BY <1>3, <4>1, Concat, Zenon
        <4>3. i + 1 \in 1 .. Len(q)
          BY <1>1, <4>1
        <4> HIDE DEF u
        <4> QED
          BY <4>1, <4>2, <4>3 DEF b
      <3> HIDE DEF u
      <3>2. g = u \o dot
        BY <2>5 DEF u
      <3>3. Len(g) = Len(u) + Len(dot) /\ (\A k \in 1 .. Len(u) : g[k] = u[k])
            /\ (Len(dot) = 1 => g[Len(u) + 1] = dot[1])
        <4>1. /\ Len(g) = Len(u) + Len(dot)
              /\ \A k \in 1 .. Len(u) : g[k] = u[k]
              /\ \A k \in 1 .. Len(dot) : g[Len(u) + k] = dot[k]
          BY <2>4, <3>1, <3>2, Concat, Zenon
        <4>2. Len(dot) = 1 => 1 \in 1 .. Len(dot)
          OBVIOUS
        <4> QED
          BY <4>1, <4>2
      <3>4. i + 1 \in 1 .. Len(u) /\ \A k \in 1 .. b : i + 1 + k \in 1 .. Len(u)
        BY <1>1, <1>3, <3>1
      <3>5. Len(dot) = 1 => Len(g) = Len(u) + 1
        BY <3>3
      <3> QED
        BY <2>4, <3>1, <3>3, <3>4, <3>5
    <2>8. /\ Len(t) = i + 1 + b /\ t[i + 1] = l
          /\ \A k \in 1 .. b : t[i + 1 + k] = Base[k]
      <3>1. CASE Len(dot) = 0
        <4>1. g[Len(g)] # Blank /\ Len(g) > 1
          BY <1>3, <2>7, <3>1
        <4>2. t = g
          BY <1>2, <4>1
        <4> QED
          BY <1>1, <1>3, <2>7, <3>1, <4>2
      <3>2. CASE Len(dot) = 1
        <4>1. Len(g) > 1 /\ g[Len(g)] = Blank
          BY <1>3, <2>7, <3>2
        <4>2. Len(g) = Len(t) + 1 /\ \A k \in 1 .. Len(t) : t[k] = g[k]
          BY <1>2, <4>1
        <4>3. Len(t) = i + 1 + b
          BY <1>1, <1>3, <2>7, <3>2, <4>2
        <4>4. i + 1 \in 1 .. Len(t) /\ \A k \in 1 .. b : i + 1 + k \in 1 .. Len(t)
          BY <1>1, <1>3, <4>3
        <4> QED
          BY <2>7, <4>2, <4>3, <4>4
      <3> QED
        BY <2>4, <3>1, <3>2
    <2>9. SubSeq(t, i + 2, Len(t)) = Base
      BY <1>1, <1>3, <2>8 DEF b
    <2>10. Below(t)
      <3>1. Len(t) - Len(Base) + 1 = i + 2
        BY <1>3, <2>8 DEF b
      <3> QED
        BY <1>3, <2>8, <2>9, <3>1 DEF Below, b
    <2>11. LastLabel(Inner(t)) = <<l>>
      <3>1. Inner(t) = SubSeq(t, 1, i + 1)
        BY <1>3, <2>8 DEF Inner, b
      <3>2. Len(SubSeq(t, 1, i + 1)) = i + 1 /\ SubSeq(t, 1, i + 1)[i + 1] = l
        BY <1>1, <1>3, <2>8
      <3> QED
        BY <3>1, <3>2 DEF LastLabel, Last
    <2> QED
      BY <1>4, <2>1, <2>10, <2>11
  <1>6. ASSUME ExtractService(host) # Empty
        PROVE  \E l \in Subdomain(g) : ExtractService(host) = <<l>> /\ Lower[l] = l
    <2>1. Below(t) /\ ExtractService(host) = LastLabel(Inner(t))
      BY <1>4, <1>6
    <2> DEFINE i == Len(t) - b - 1
               l == t[i + 1]
    <2>2. i \in Nat /\ Len(t) = i + 1 + b /\ SubSeq(t, i + 2, Len(t)) = Base
      BY <1>1, <1>3, <2>1 DEF Below, b
    <2> HIDE DEF i
    <2>3. LastLabel(Inner(t)) = <<l>>
      <3>1. Inner(t) = SubSeq(t, 1, i + 1)
        BY <1>3, <2>2 DEF Inner, b
      <3>2. Len(SubSeq(t, 1, i + 1)) = i + 1 /\ SubSeq(t, 1, i + 1)[i + 1] = l
        BY <1>1, <1>3, <2>2
      <3> QED
        BY <3>1, <3>2 DEF LastLabel, Last
    <2>4. l \in Label /\ l # Blank
      BY <1>1, <1>3, <1>6, <2>1, <2>2, <2>3 DEF Empty
    <2>5. \A k \in 1 .. b : t[i + 1 + k] = Base[k]
      <3>1. \A k \in 1 .. b : SubSeq(t, i + 2, Len(t))[k] = t[i + 2 + k - 1]
        BY <1>1, <1>3, <2>2
      <3> QED
        BY <1>3, <2>2, <3>1, SMTT(30)
    <2>6. i \in 0 .. Len(g) /\ Lower[l] = l /\ g[i + 1] = l
      BY <1>1, <1>2, <1>3, <2>2
    <2> DEFINE p == SubSeq(g, 1, i)
               u == p \o <<l>> \o Base
    <2>7. p \in Seq(Label) /\ Len(p) = i /\ \A k \in 1 .. i : p[k] = g[k]
      BY <1>1, <2>6
    <2>8. /\ u \in Seq(Label) /\ Len(u) = i + 1 + b
          /\ \A k \in 1 .. Len(u) : u[k] = t[k]
      <3> DEFINE q == p \o <<l>>
      <3>1. q \in Seq(Label) /\ Len(q) = i + 1 /\ \A k \in 1 .. i + 1 : q[k] = t[k]
        <4> HIDE DEF p, l
        <4>1. q[i + 1] = l /\ \A k \in 1 .. i : q[k] = p[k]
          BY <2>4, <2>7
        <4>2. \A k \in 1 .. i : p[k] = t[k]
          BY <1>1, <1>2, <1>3, <2>2, <2>7
        <4>3. q \in Seq(Label) /\ Len(q) = i + 1
          BY <2>4, <2>7
        <4>4. \A k \in 1 .. i + 1 : k \in 1 .. i \/ k = i + 1
          BY <2>2
        <4> QED
          BY <4>1, <4>2, <4>3, <4>4 DEF l
      <3> HIDE DEF q, p, l
      <3>2. u = q \o Base
        BY DEF q
      <3> HIDE DEF u
      <3>3. u \in Seq(Label) /\ Len(u) = i + 1 + b
            /\ (\A k \in 1 .. i + 1 : u[k] = q[k])
            /\ (\A k \in 1 .. b : u[i + 1 + k] = Base[k])
        <4>1. /\ u \in Seq(Label) /\ Len(u) = Len(q) + Len(Base)
              /\ \A k \in 1 .. Len(q) : u[k] = q[k]
              /\ \A k \in 1 .. Len(Base) : u[Len(q) + k] = Base[k]
          BY <1>3, <3>1, <3>2, Concat, Zenon
        <4> QED
          BY <3>1, <4>1 DEF b
      <3>4. ASSUME NEW k \in 1 .. Len(u)  PROVE u[k] = t[k]
        <4>1. CASE k \in 1 .. i + 1
          BY <3>1, <3>3, <4>1
        <4>2. CASE k \notin 1 .. i + 1
          <5>1. k - (i + 1) \in 1 .. b /\ k = i + 1 + (k - (i + 1))
            BY <1>3, <2>2, <3>3, <4>2
          <5> QED
            BY <2>5, <3>3, <5>1
        <4> QED
          BY <4>1, <4>2
      <3> QED
        BY <3>3, <3>4
    <2> HIDE DEF u, l
    <2>9. \E dot \in {<< >>, Empty} : g = u \o dot
      <3>1. CASE t = g
        <4>1. u = g
          BY <1>1, <2>2, <2>8, <3>1
        <4>2. g = u \o << >>
          BY <1>1, <4>1
        <4> QED
          BY <4>2
      <3>2. CASE /\ Len(g) = Len(t) + 1 /\ Len(t) > 0 /\ g[Len(g)] = Blank
                 /\ \A k \in 1 .. Len(t) : t[k] = g[k]
        <4> DEFINE v == u \o Empty
        <4>1. v \in Seq(Label) /\ Len(v) = Len(u) + 1 /\ v[Len(u) + 1] = Blank
              /\ \A k \in 1 .. Len(u) : v[k] = u[k]
          BY <2>8, LabelAssumption DEF Empty
        <4> HIDE DEF v
        <4>2. Len(v) = Len(g)
          BY <1>1, <2>2, <2>8, <3>2, <4>1
        <4>3. \A k \in 1 .. Len(g) : v[k] = g[k]
          <5>1. \A k \in 1 .. Len(g) : k \in 1 .. Len(u) \/ k = Len(u) + 1
            BY <2>2, <2>8, <3>2
          <5> QED
            BY <1>1, <2>2, <2>8, <3>2, <4>1, <5>1
        <4>4. g = v
          BY <1>1, <4>1, <4>2, <4>3
        <4> QED
          BY <4>4 DEF v
      <3> QED
        BY <1>2, <3>1, <3>2
    <2>10. l \in Subdomain(g)
      BY <2>4, <2>6, <2>9 DEF Subdomain, u
    <2> QED
      BY <2>1, <2>3, <2>6, <2>10
  <1> QED
    BY <1>5, <1>6 DEF g

\* The host renderIssuingPage asks for is the service's below the base domain.
LEMMA PageOfHost ==
    ASSUME NEW host \in Host, NEW l \in Subdomain(ToLower(host))
    PROVE  /\ ExtractService(host) = <<l>> /\ ExtractService(host) # Empty
           /\ CertHost(ExtractService(host)) = <<l>> \o Base
  <1>1. host \in Seq(Label)
    BY NameAssumption
  <1>2. ExtractService(host) = <<l>> /\ l # Blank
    BY <1>1, ServiceOfHost
  <1>3. <<l>> # Empty
    BY <1>2 DEF Empty
  <1>4. Lower[l] = l /\ l \in Label
    <2>1. PICK m \in Subdomain(ToLower(host)) : ExtractService(host) = <<m>> /\ Lower[m] = m
      BY <1>1, <1>2, <1>3, ServiceOfHost
    <2>2. m = l
      BY <1>2, <2>1
    <2> QED
      BY <2>1, <2>2 DEF Subdomain
  <1>5. <<l>> \in Seq(Label) /\ ToLower(<<l>>) = <<l>>
    BY <1>4 DEF ToLower
  <1> QED
    BY <1>2, <1>3, <1>5, HostOfName

\* Whatever the state of issuance: it follows from the definitions alone.
LEMMA RoutesAgree == RoutedAsDocumented
  <1> SUFFICES ASSUME NEW cfg \in Configs, NEW ask \in Asks(cfg)
               PROVE  LET h == ToLower(ask.host)
                          a == Answer(cfg, ask)
                      IN  IF ask.path = "health" THEN a = "health" ELSE
                          \/ a \in {"redirect", "challenge"} /\ ask.door = "http"
                          \/ /\ a \in {"dashboard", "tokens", "unauthorized", "forbidden"}
                             /\ h \in {Base, <<Www>> \o Base}
                             /\ a \in {"dashboard", "tokens"} => ask.auth \/ ~cfg.creds
                             /\ a = "tokens" => cfg.creds
                          \/ a = "404" /\ Subdomain(h) = {}
                          \/ /\ a \in {"issuing", "failed", "lookup"}
                             /\ \E l \in Subdomain(h) :
                                   /\ ExtractService(ask.host) = <<l>>
                                   /\ a = "issuing" <=> StatusOf(<<l>> \o Base) = "pending"
                                   /\ a = "failed" <=> StatusOf(<<l>> \o Base) = "error"
    BY DEF RoutedAsDocumented
  <1> DEFINE host == ask.host
             service == ExtractService(host)
             cert == StatusOf(CertHost(service))
             a == Answer(cfg, ask)
  <1>1. host \in Host /\ ask.door \in {"http", "https"} /\ ask.path \in Path
    BY DEF Asks, Ask
  <1>2. IsApex(host) => ToLower(host) \in {Base, <<Www>> \o Base}
    <2>1. ToLower(Base) = Base
      BY LabelAssumption DEF ToLower
    <2>2. ToLower(<<Www>> \o Base) = <<Www>> \o Base
      <3>1. <<Www>> \in Seq(Label) /\ ToLower(<<Www>>) = <<Www>>
        BY LabelAssumption DEF ToLower
      <3> QED
        BY <3>1, HostOfName
    <2> QED
      BY <2>1, <2>2 DEF IsApex, EqualFold
  <1>3. service = Empty => Subdomain(ToLower(host)) = {}
    BY <1>1, PageOfHost
  <1>4. service # Empty =>
            \E l \in Subdomain(ToLower(host)) :
                service = <<l>> /\ cert = StatusOf(<<l>> \o Base)
    <2> SUFFICES ASSUME service # Empty
                 PROVE  \E l \in Subdomain(ToLower(host)) :
                            service = <<l>> /\ cert = StatusOf(<<l>> \o Base)
      OBVIOUS
    <2>1. PICK l \in Subdomain(ToLower(host)) : service = <<l>>
      BY <1>1, NameAssumption, ServiceOfHost
    <2>2. CertHost(service) = <<l>> \o Base
      BY <1>1, PageOfHost
    <2> QED
      BY <2>1, <2>2
  <1> HIDE DEF host, service, cert
  <1>5. a \in {Public(cfg, ask, cert), Redirector(cfg, ask, cert), "challenge"}
        /\ (a # Public(cfg, ask, cert) => ask.door = "http" /\ ask.path # "health")
    BY <1>1 DEF Answer, Route, Http, Redirector, Absorbs, host, service, cert
  <1> HIDE DEF a
  <1>6. CASE ask.path = "health"
    BY <1>5, <1>6 DEF Public, a
  <1>7. CASE a = Public(cfg, ask, cert) /\ ask.path # "health" /\ IsApex(host)
    <2>1. a = Admin(cfg, ask)
      BY <1>7 DEF Public, host
    <2> QED
      BY <1>2, <1>7, <2>1 DEF Admin, host, a
  <1>8. CASE a = Public(cfg, ask, cert) /\ ask.path # "health" /\ ~IsApex(host)
    <2>1. CASE service = Empty
      <3>1. a = "404"
        BY <1>8, <2>1 DEF Public, host, service
      <3> QED
        BY <1>3, <1>8, <2>1, <3>1 DEF host, a
    <2>2. CASE service # Empty
      <3>1. a = IF Held(cert) THEN Page(cert) ELSE "lookup"
        BY <1>8, <2>2 DEF Public, host, service
      <3> QED
        BY <1>4, <1>8, <2>2, <3>1 DEF Held, Page, host, service, a
    <2> QED
      BY <2>1, <2>2
  <1>9. CASE a # Public(cfg, ask, cert) /\ ask.path # "health"
    <2>1. CASE a \in {"challenge", "redirect"}
      BY <1>5, <1>9, <2>1 DEF a
    <2>2. CASE a \notin {"challenge", "redirect"}
      <3>1. a = Page(cert) /\ Held(cert) /\ service # Empty
        BY <1>5, <1>9, <2>2 DEF Redirector, host, service
      <3> QED
        BY <1>4, <1>9, <3>1 DEF Held, Page, host, service, a
    <2> QED
      BY <2>1, <2>2
  <1> QED
    BY <1>6, <1>7, <1>8, <1>9

LEMMA RedirectAgrees == RedirectSpares
  <1> SUFFICES ASSUME NEW cfg \in Configs, NEW ask \in Asks(cfg),
                      Answer(cfg, ask) = "redirect"
               PROVE  /\ cfg.redirect
                      /\ ~Absorbs(cfg, ask)
                      /\ \A l \in Subdomain(ToLower(ask.host)) :
                            Held(StatusOf(<<l>> \o Base)) => IsApex(ask.host)
    BY DEF RedirectSpares
  <1> DEFINE cert == StatusOf(CertHost(ExtractService(ask.host)))
  <1>1. Public(cfg, ask, cert) # "redirect"
    BY DEF Public, Admin, Held, Page
  <1>2. /\ cfg.redirect /\ ~Absorbs(cfg, ask) /\ ask.path # "health"
        /\ Redirector(cfg, ask, cert) = "redirect"
    BY <1>1 DEF Answer, Route, Http, Redirector
  <1>3. ~(~IsApex(ask.host) /\ ExtractService(ask.host) # Empty /\ Held(cert))
    BY <1>2 DEF Redirector, Held, Page
  <1>4. ask.host \in Host
    BY DEF Asks, Ask
  <1> QED
    BY <1>2, <1>3, <1>4, PageOfHost

\* A request gets the service or the page its host stands for, and nothing that is
\* not its own (publicHandler, httpsRedirector, adminHandler).
THEOREM RoutesHold == Spec => []RoutedAsDocumented
  BY RoutesAgree, PTL

\* The redirect never sends a request to a handshake that waits for a certificate.
THEOREM RedirectsHold == Spec => []RedirectSpares
  BY RedirectAgrees, PTL

\* No reconnect takes a certificate back: a host that is ready stays ready.
THEOREM ReadyStays == Spec => ReadyIsFinal
  <1>1. ASSUME IInv, [Next]_vars
        PROVE  [\A h \in CertHosts : status[h] = "ready" => status'[h] = "ready"]_vars
    <2> SUFFICES ASSUME NEW h \in CertHosts, status[h] = "ready", Next
                 PROVE  status'[h] = "ready"
      BY <1>1
    <2> USE <1>1 DEF IInv, Tables, OneAtATime
    <2>1. asking[h] = 0 /\ ordering[h] = 0
      OBVIOUS
    <2>2. ASSUME NEW c \in Client, Issue(c)  PROVE status'[h] = "ready"
      BY <2>2 DEF Issue, Settled
    <2>3. ASSUME NEW g \in CertHosts, Run(g)  PROVE status'[h] = "ready"
      BY <2>1, <2>3 DEF Run, AskPolicy, RunEnds
    <2>4. ASSUME NEW c \in Client, NEW bound, NEW claim, Hello(c, bound, claim)
          PROVE  status'[h] = "ready"
      BY <2>4 DEF Hello
    <2>5. ASSUME NEW c \in Client, Register(c) \/ Leave(c)
          PROVE  status'[h] = "ready"
      BY <2>5 DEF Register, Leave
    <2> QED
      BY <2>2, <2>3, <2>4, <2>5 DEF Next, Handler
  <1> QED
    BY Invariance, <1>1, PTL DEF Spec, ReadyIsFinal
===============================================================================
