------------------------------ MODULE CertIssuer ------------------------------
(***************************************************************************)
(* From a client's Hello to a certificate and a request's route: the part  *)
(* of handleControl that settles the service name, certIssuer              *)
(* (server/cert_warmup.go) with its goroutines, autocert's host policy     *)
(* (server/tls.go), and what a request for a host is answered meanwhile.   *)
(*                                                                         *)
(* The registry is here only as what HasService reads; module Registry has *)
(* its steps.  ACME is a library that answers yes or no in the end.        *)
(*                                                                         *)
(* A definition marked "Slip" is not the code: it is the next one with a   *)
(* plausible mistake in it, which the named property must catch.           *)
(***************************************************************************)
EXTENDS Routing, Naturals

CONSTANTS
    Name,         \* the service names tokens are bound to and clients claim
    Host,         \* Host headers of public requests, without port
    Client,
    None,
    MaxConnects   \* bound on the handshakes that succeed

ASSUME NameAssumption ==
    /\ Name \subseteq Seq(Label) /\ Host \subseteq Seq(Label)
    /\ \A n \in Name : ToLower(n) \in Name
    /\ Wildcard \notin Name /\ None \notin Name \cup Host

ASSUME ConnectsAssumption == MaxConnects \in Nat

VARIABLES
    mode,      \* AXR_TLS_MODE: who issues, if anybody does
    cpc,       \* client -> where its control connection's handler stands
    name,      \* client -> the service it was given
    connects,  \* handshakes that succeeded
    known,     \* services in Registry.lastSeen or Registry.sessions
    status,    \* certificate host -> IssuanceState.Status
    asking,    \* certificate host -> runs that have not asked the policy yet
    ordering,  \* certificate host -> runs waiting for ACME
    refused    \* history: hosts an issuance was refused for by the policy

clientVars == <<cpc, name, connects>>
issueVars  == <<status, asking, ordering, refused>>
vars == <<mode, clientVars, known, issueVars>>

\* What clients may be called: names tokens are bound to (LoadConfig lowers
\* them) and names wildcard clients claim, in lower case.
Service == {n \in Name : ToLower(n) = n}

CertHosts == {CertHost(n) : n \in Service}

TypeOK ==
    /\ mode \in Mode
    /\ cpc \in [Client -> {"idle", "register", "issue", "serve"}]
    /\ name \in [Client -> Service \cup {None}]
    /\ connects \in 0 .. MaxConnects
    /\ known \subseteq Service
    /\ status \in [CertHosts -> {"unknown", "pending", "ready", "error"}]
    /\ asking \in [CertHosts -> Nat]
    /\ ordering \in [CertHosts -> Nat]
    /\ refused \subseteq CertHosts

Init ==
    /\ mode \in Mode
    /\ cpc = [c \in Client |-> "idle"]
    /\ name = [c \in Client |-> None]
    /\ connects = 0
    /\ known = {}
    /\ status = [h \in CertHosts |-> "unknown"]
    /\ asking = [h \in CertHosts |-> 0]
    /\ ordering = [h \in CertHosts |-> 0]
    /\ refused = {}

(***************************************************************************)
(* handleControl.                                                          *)
(***************************************************************************)

\* A Hello that claims `claim` with a token bound to `bound`.  One that is
\* refused changes nothing.
Hello(c, bound, claim) ==
    /\ cpc[c] = "idle"
    /\ connects < MaxConnects
    /\ \E n \in Settle(bound, claim) : name' = [name EXCEPT ![c] = n]
    /\ cpc' = [cpc EXCEPT ![c] = "register"]
    /\ connects' = connects + 1
    /\ UNCHANGED <<mode, known, issueVars>>

Register(c) ==
    /\ cpc[c] = "register"
    /\ known' = known \cup {name[c]}
    /\ cpc' = [cpc EXCEPT ![c] = "issue"]
    /\ UNCHANGED <<mode, name, connects, issueVars>>

\* Slips: a host in flight is issued again (OneAtATime), or one that failed is
\* not (RetriedOnReconnect).
OnlyReady(h) == status[h] = "ready"
EvenFailed(h) == status[h] # "unknown"
Settled(h) == status[h] \in {"pending", "ready"}

\* certIssuer.Issue for the client's host, if there is an issuer.
Issue(c) ==
    /\ cpc[c] = "issue"
    /\ cpc' = [cpc EXCEPT ![c] = "serve"]
    /\ LET h == CertHost(name[c])
       IN  \/ /\ ~HasIssuer(mode) \/ Settled(h)
              /\ UNCHANGED <<status, asking>>
           \/ /\ HasIssuer(mode) /\ ~Settled(h)
              /\ status' = [status EXCEPT ![h] = "pending"]
              /\ asking' = [asking EXCEPT ![h] = @ + 1]
    /\ UNCHANGED <<mode, name, connects, known, ordering, refused>>

\* The session ends and Unregister has run; lastSeen still knows the service.
Leave(c) ==
    /\ cpc[c] = "serve"
    /\ cpc' = [cpc EXCEPT ![c] = "idle"]
    /\ name' = [name EXCEPT ![c] = None]
    /\ UNCHANGED <<mode, connects, known, issueVars>>

(***************************************************************************)
(* certIssuer.run, one goroutine per issuance.                             *)
(***************************************************************************)

\* Slip (NeverRefused): only connected services count.
Connected == {name[c] : c \in {d \in Client : cpc[d] \in {"issue", "serve"}}}
HasService == known

\* autocert asks its host policy; certmagic does not for managed names.
Passes(h) == mode = "dns" \/ Allowed(h, HasService)

\* Slip (IssuanceEnds): a refusal leaves the record as it is.
RefusalForgotten(h) ==
    /\ asking[h] > 0
    /\ asking' = [asking EXCEPT ![h] = @ - 1]
    /\ \/ Passes(h) /\ ordering' = [ordering EXCEPT ![h] = @ + 1] /\ UNCHANGED refused
       \/ ~Passes(h) /\ refused' = refused \cup {h} /\ UNCHANGED ordering
    /\ UNCHANGED <<mode, clientVars, known, status>>

\* issueFn: refused at once, or on to ACME.
AskPolicy(h) ==
    /\ asking[h] > 0
    /\ asking' = [asking EXCEPT ![h] = @ - 1]
    /\ \/ /\ Passes(h)
          /\ ordering' = [ordering EXCEPT ![h] = @ + 1]
          /\ UNCHANGED <<status, refused>>
       \/ /\ ~Passes(h)
          /\ status' = [status EXCEPT ![h] = "error"]
          /\ refused' = refused \cup {h}
          /\ UNCHANGED ordering
    /\ UNCHANGED <<mode, clientVars, known>>

\* issueFn returned: a certificate, an error, or the timeout.
RunEnds(h) ==
    /\ ordering[h] > 0
    /\ ordering' = [ordering EXCEPT ![h] = @ - 1]
    /\ \E s \in {"ready", "error"} : status' = [status EXCEPT ![h] = s]
    /\ UNCHANGED <<mode, clientVars, known, asking, refused>>

\* certIssuer.Status; a host nobody asked for is unknown.
StatusOf(h) == IF h \in CertHosts THEN status[h] ELSE "unknown"

Handler(c) == Register(c) \/ Issue(c)

Run(h) == AskPolicy(h) \/ RunEnds(h)

Next ==
    \/ \E c \in Client :
          \/ Handler(c) \/ Leave(c)
          \/ \E bound \in Service \cup {Wildcard}, claim \in Name \cup {Empty} :
                Hello(c, bound, claim)
    \/ \E h \in CertHosts : Run(h)

Spec == Init /\ [][Next]_vars

\* Goroutines run, and ACME answers or times out (autocert's own timeouts, the
\* 5 minutes of certIssuer.timeout for certmagic).
Fairness ==
    /\ \A c \in Client : WF_vars(Handler(c))
    /\ \A h \in CertHosts : WF_vars(Run(h))

FairSpec == Spec /\ Fairness

-------------------------------------------------------------------------------
(***************************************************************************)
(* Properties.                                                             *)
(***************************************************************************)

\* However often the clients of a service reconnect, and whatever became of
\* earlier attempts, a host is pending exactly while one goroutine is issuing
\* its certificate, and never two (Issue's guard and run's result).
OneAtATime ==
    \A h \in CertHosts :
        asking[h] + ordering[h] = IF status[h] = "pending" THEN 1 ELSE 0

\* A host that has its certificate is never shown the issuing page again.
ReadyIsFinal ==
    [][\A h \in CertHosts : status[h] = "ready" => status'[h] = "ready"]_vars

\* tls.go:58-60: the policy lets a service's host pass once it was registered.
\* handleControl registers before it issues, and a service stays known after
\* its client left, so no well-formed service is refused a certificate.
NeverRefused == \A n \in Service : ValidName(n) => CertHost(n) \notin refused

\* The label that stands right below the base domain in h, as a set.
Subdomain(h) ==
    {l \in Label \ {Blank} :
        \E i \in 0 .. Len(h) : \E dot \in {<< >>, Empty} :
            h = SubSeq(h, 1, i) \o <<l>> \o Base \o dot}

\* What a request is answered now.  renderIssuingPage asks for the host it builds
\* from the service's name.
Answer(cfg, ask) ==
    Route(cfg, ask, StatusOf(CertHost(ExtractService(ask.host))))

\* The configurations this server may run with, and the requests that reach it.
Configs == {cfg \in Config : cfg.mode = mode}
Asks(cfg) == {ask \in Ask(Host) : ask.door = "https" => HasTLS(cfg)}

\* README "Routing" and "Health check", admin.go:83-88: /health answers whatever
\* the host; the service of a host is its last label below the base domain,
\* whatever its case and depth, and the request gets that service or the page
\* that stands for its certificate; the base domain is the dashboard's, tokens
\* are shown to nobody without configured credentials, and nothing else is
\* served.
RoutedAsDocumented ==
    \A cfg \in Configs : \A ask \in Asks(cfg) :
        LET h == ToLower(ask.host)
            a == Answer(cfg, ask)
        IN  IF ask.path = "health" THEN a = "health" ELSE
            \/ a \in {"redirect", "challenge"} /\ ask.door = "http"
            \/ /\ a \in {"dashboard", "tokens", "unauthorized", "forbidden"}
               /\ h \in {Base, <<Www>> \o Base}
               /\ a \in {"dashboard", "tokens"} => ask.auth \/ ~cfg.creds
               /\ a = "tokens" => cfg.creds
            \/ a = "404" /\ Subdomain(h) = {}
            \/ /\ a \in {"issuing", "failed", "lookup"}
               /\ \E l \in Subdomain(h) :
                     /\ ExtractService(ask.host) = <<l>>
                     /\ a = "issuing" <=> StatusOf(<<l>> \o Base) = "pending"
                     /\ a = "failed" <=> StatusOf(<<l>> \o Base) = "error"

\* README "Configuration": the redirect to HTTPS exempts ACME challenges and the
\* certificate pages.  Whoever is redirected is not sent to a handshake that
\* waits for a certificate being issued, or that has just failed.
RedirectSpares ==
    \A cfg \in Configs : \A ask \in Asks(cfg) :
        Answer(cfg, ask) = "redirect" =>
            /\ cfg.redirect
            /\ ~Absorbs(cfg, ask)
            /\ \A l \in Subdomain(ToLower(ask.host)) :
                  Held(StatusOf(<<l>> \o Base)) => IsApex(ask.host)

\* Every issuance ends, one way or the other.
IssuanceEnds == \A h \in CertHosts : status[h] = "pending" ~> status[h] # "pending"

\* A failed issuance is tried again when a client of the service connects.
RetriedOnReconnect ==
    \A c \in Client : \A n \in Service :
        (cpc[c] = "issue" /\ name[c] = n /\ status[CertHost(n)] = "error")
            ~> status[CertHost(n)] # "error"
===============================================================================
