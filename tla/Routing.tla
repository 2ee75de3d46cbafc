-------------------------------- MODULE Routing --------------------------------
(***************************************************************************)
(* What a public request gets before it reaches a service: the plain-HTTP  *)
(* chain of buildHTTPHandler (ACME challenges, then httpsRedirector, then  *)
(* publicHandler), the TLS listener's publicHandler alone, and behind them *)
(* the dashboard's own choice (adminHandler.ServeHTTP).                    *)
(*                                                                         *)
(* A path is one of the kinds the code tells apart.  `cert` is the status  *)
(* certIssuer gives for the service's host.  What /health says is          *)
(* TokenStore's, what happens from "lookup" on is Registry's.              *)
(*                                                                         *)
(* A definition marked "Slip" is not the code: it is the next one with a   *)
(* plausible mistake in it, which the named property must catch.           *)
(***************************************************************************)
EXTENDS Names

\* AXR_TLS_MODE; LoadConfig and buildTLS refuse everything else.
Mode == {"off", "file", "autocert", "dns"}

\* Configurations: AXR_PUBLIC_TLS_ADDR is set, AXR_HTTPS_REDIRECT, and both of
\* AXR_ADMIN_USER and AXR_ADMIN_PASS are set.
Config == [mode : Mode, tlsAddr : BOOLEAN, redirect : BOOLEAN, creds : BOOLEAN]

Path == {"health", "challenge", "tokens", "page"}

\* Requests: the listener, the path, the Host header, and whether the right user
\* and password came with it.
Ask(hosts) ==
    [door : {"http", "https"}, path : Path, host : hosts, auth : BOOLEAN]

\* Run opens the TLS listener.
HasTLS(cfg) == cfg.tlsAddr /\ cfg.mode # "off"

\* Server.certs is not nil.
HasIssuer(mode) == mode \in {"autocert", "dns"}

\* renderIssuingPage intercepts; one page or the other.
Held(cert) == cert \in {"pending", "error"}
Page(cert) == IF cert = "pending" THEN "issuing" ELSE "failed"

\* Slip (RoutedAsDocumented): serveTokens relies on requireAuth, which lets
\* everybody pass when no credentials are configured.
AdminTrusting(cfg, ask) ==
    IF cfg.creds /\ ~ask.auth THEN "unauthorized"
    ELSE IF ask.path = "tokens" THEN "tokens" ELSE "dashboard"

\* requireAuth, then the dashboard's own paths; serveTokens asks again.
Admin(cfg, ask) ==
    IF cfg.creds /\ ~ask.auth THEN "unauthorized"
    ELSE IF ask.path # "tokens" THEN "dashboard"
    ELSE IF cfg.creds THEN "tokens" ELSE "forbidden"

Public(cfg, ask, cert) ==
    IF ask.path = "health" THEN "health"
    ELSE IF IsApex(ask.host) THEN Admin(cfg, ask)
    ELSE IF ExtractService(ask.host) = Empty THEN "404"
    ELSE IF Held(cert) THEN Page(cert) ELSE "lookup"

\* httpsRedirector.  A host with a page of its own is not sent to a handshake
\* that would wait for the certificate.
Redirector(cfg, ask, cert) ==
    IF ask.path = "health" THEN Public(cfg, ask, cert)
    ELSE IF ~IsApex(ask.host) /\ ExtractService(ask.host) # Empty /\ Held(cert)
         THEN Page(cert)
    ELSE "redirect"

\* autocert.HTTPHandler takes what is below /.well-known/acme-challenge/.
Absorbs(cfg, ask) == cfg.mode = "autocert" /\ ask.path = "challenge"

\* Slip (RedirectSpares): the redirector is the outermost handler.
HttpRedirectFirst(cfg, ask, cert) ==
    IF cfg.redirect /\ HasTLS(cfg) THEN Redirector(cfg, ask, cert)
    ELSE IF Absorbs(cfg, ask) THEN "challenge"
    ELSE Public(cfg, ask, cert)

\* buildHTTPHandler.
Http(cfg, ask, cert) ==
    IF Absorbs(cfg, ask) THEN "challenge"
    ELSE IF cfg.redirect /\ HasTLS(cfg) THEN Redirector(cfg, ask, cert)
    ELSE Public(cfg, ask, cert)

Route(cfg, ask, cert) ==
    IF ask.door = "http" THEN Http(cfg, ask, cert) ELSE Public(cfg, ask, cert)
===============================================================================
