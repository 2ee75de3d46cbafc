# Specifications of ax-router

ax-router is a reverse router: a public HTTP(S) server that forwards requests
for `<service>.<base>` to the program that currently serves that name. Such a
program (a *router-client*) dials the server's control port, authenticates with
a token, and keeps the connection open; the server opens one yamux stream on it
per request. This directory specifies the parts of it that keep state and run
concurrently, checks them with TLC and proves their main invariants with TLAPS.

Paths and line numbers below are relative to the repository's root.

## 1. The system: inventory

| Component | State it keeps | Operations | Talks to |
|---|---|---|---|
| Session registry (`server/registry.go`, `server/session.go`) | `sessions`, `notifiers`, `lastSeen` under one mutex; per session a yamux connection and a `closed` channel | Register, Unregister, Lookup, CloseAll; OpenStream, Close, watch | called by control handlers, public handlers, shutdown; toggles Stats |
| Control connections (`server/server.go` runControl, handleControl) | one goroutine per connection, one `watch` goroutine per session | accept, handshake, Register, Issue, wait for Closed, Unregister | token store, registry, certificate issuer |
| Public routing (`server/server.go` buildHTTPHandler, httpsRedirector, publicHandler; `server/admin.go` ServeHTTP) | none | ACME challenge, redirect, /health, dashboard and its tokens, 404, issuing page, Lookup, forward | registry, issuer, dashboard, forwarding |
| Upgrade forwarding (`server/proxy.go` forwardUpgrade) | two connections, four goroutines, a channel `done`, two byte counters | write request, hijack, pump both ways, report every second, finalize | session, Stats |
| HTTP forwarding (`server/proxy.go` forwardHTTP) | a stream, a writer goroutine, a channel `writeDone` | write request and read response concurrently, copy the body | session, Stats |
| Statistics (`server/stats.go`) | connection state, atomic counters, ring of 60 one-second buckets, ring of 256 latencies | Mark*, WSStart/End, Add*Bytes, HTTPCompleted, Snapshot | everybody above; dashboard |
| Token store (`server/reload.go`, `server/config.go`) | `inline` and `file` maps, `lastErr`; a watch goroutine with a debounce timer | Lookup, reload, watch | control handlers, /health, file system, signals |
| Certificate issuer (`server/cert_warmup.go`, `server/tls.go`, `server/acme_dns.go`) | an issuance state per host; one goroutine per issuance | Issue, run, Status; HostPolicy | control handlers, public routing, ACME libraries |
| Server lifecycle (`server/server.go` Run, runControl, shutdown) | listeners and HTTP servers, a Serve goroutine for each, a channel `errc` | start, wait for the first failure or cancellation, drain, CloseAll | all of the server |
| Handshake protocol (`internal/protocol/handshake.go`) | none | WriteHello/ReadHello, WriteAck/ReadAck | both ends of a control connection |
| Client loop (`client/client.go`) | the reconnect delay | dial, handshake, accept streams, back off, stop | server; one of the next two |
| Client handler mode (`client/handler.go`) | a response writer per stream | WriteHeader, Write, Flush, Hijack, finish | the user's `http.Handler` |
| Client proxy mode (`client/proxy.go`) | an upstream connection per stream | dial, write request, copy both ways | the upstream |
| Dashboard API (`server/admin.go`) | none; a goroutine per WebSocket | serve snapshots, tokens, static files | reads all of the above |
| Configuration, web UI, tools, examples | none of their own | | |

What is hard in it:

* the registry is touched by every goroutine of the server, with work before
  and after its critical sections, and sessions of one service take each
  other's place while either dies;
* a waiting lookup depends on a channel that is created by one goroutine, moved
  by a second and closed later;
* four goroutines of one upgraded connection share one channel and two
  counters that are read and reset in separate steps;
* the tokens file changes in several steps, seen through a watch that can die,
  a queue of events, a timer and signals;
* issuance, retries and reconnects of one service overlap;
* flow control makes writers wait for readers on both sides of a stream;
* a user's handler may call its response writer in any order, take the stream
  over, return early or panic;
* a server stops while listeners fail, requests arrive and are held, and clients
  connect.

What makes each part correct, in a sentence: *registry*: one owner per service,
the newest wins, a stale handler takes nothing, everybody who waits is answered;
*upgrade*: when one side stops everything is released, and no byte is counted
twice; *token store*: an edit is never lost and a bad file never replaces a good
map; *issuer*: at most one issuance per host at a time, and a registered service
is not stuck; *routing*: every host and path gets what the README says, and nobody
is redirected to a handshake that hangs; *HTTP forwarding*: no request stays
after its response; *response writer*: the server decodes what the handler wrote,
and half a response never looks whole; *lifecycle*: requests are drained before
sessions are closed, and everything that was started ends; *client*:
it is connected again in the end, and stops when told; *statistics*: the last 60
seconds are what happened in them.

## 2. Plan

Modules in the order of the plan; all of them exist.

| Module | Models | Abstract specification | Proved |
|---|---|---|---|
| `Registry` (+ `ServiceSlot`, `RegistryProofs`) | registry, sessions, control handlers, lookups, shutdown | `ServiceSlot`: an atomic slot per service | type, safety, action property, implementation |
| `Upgrade` (+ `ServerProofs`) | forwardUpgrade | | type, safety |
| `TokenStore` (+ `TokenStoreProofs`) | token store, tokens file, watch | | type, safety |
| `CertIssuer` (+ `Names`, `Routing`, `MCCertIssuer`, `CertIssuerProofs`) | the names a client is given and a request asks for, issuer, host policy, routing at both doors in every state of the issuer | | type, one issuance per host, a certificate stays, the policy agrees with the handshake, routing and redirects |
| `Stats` (+ `MCStats`, `StatsProofs`) | counters, bucket ring and latency ring, with clocks read outside the mutex, and Snapshot | a log of what happened when (`log`) | type, the ring equals the log, a snapshot shows its window, totals cover it, percentiles are those of the latest |
| `Forward` (+ `ForwardProofs`) | forwardHTTP against handler and proxy mode, with flow control | | type, complete answers are whole, where a 502 may replace an answer |
| `ClientLoop` (+ `ClientLoopProofs`) | Run, runOnce and the handshake, against a server that fails and restarts | | type, delay bounds, no connection left open |
| `StreamRW` (+ `Response`, `StreamRWProofs`) | HandlerClient.Serve and the response writer: framing, Hijack, early returns, panics | `Response`: a response or a raw stream, once | type, framing, truncation, implementation |
| `Server` (+ `ServerProofs`) | Run, runControl and shutdown around the slots of `ServiceSlot` | uses `ServiceSlot` | type, requests spared, nil means cancelled |

Order: what every request depends on first (registry), then the two other
places where several goroutines share state (upgrade, tokens), then issuance,
statistics and forwarding, then the client's two ends, and last the process around
it all. How they compose: `Server` takes its registry's steps from `ServiceSlot`,
which `Registry` is proved to implement; `ClientLoop`'s `owner` is the same slot;
`CertIssuer` extends `Routing`, which extends `Names`; the streams that `Registry`'s
lookups lead to are `Forward`'s and `Upgrade`'s, and the far end of `Forward` in
handler mode is `StreamRW` in detail. Every safety property of the passing runs,
invariant, action property or implementation, is also a theorem.

## 3. The modules

Every `VARIABLE` and action carries a comment that names the code it stands for;
`PROJECT.json` ("map") gives the lines. A definition marked **Slip** is a
deliberate mistake that some property must catch; no specification uses it.

### Registry

One step is one critical section of `Registry.mu`, or the work between two of
them. `pc` is where a control connection's handler stands:

    idle -Accept-> handshake -HandshakeOK-> mark -MarkConnected-> insert
         -Insert-> evict -Evict-> wake -Wake-> serve
         -Unregister-> unmark -MarkDisconnected-> done

with `handshake -HandshakeFail-> done`, and `serve -Unregister-> done` for a
session that no longer holds its slot. `rpc` is the same for a public request:
`idle -> dial` (found), `idle -> wait` (held), `idle -> bad` (502), `wait ->
dial | bad | gone`, `dial -> fwd | bad`. The yamux connection may die at any
moment (`MuxDies`); `watch` sees it only once it was started (`WatchFires`).
`CloseAll` and `CloseDoomed` are the shutdown. `Tick` is time: `age[v]` is
`time.Since(lastSeen)` in ticks and stops just past `Grace`.

Abstracted: names, tokens and addresses are model values; the outcome of the
handshake is a choice; a notifier channel is named after the request that made
it; each request makes one lookup and each connection lives once, which loses
nothing because neither can be reused in the code.

`ServiceSlot` is what the rest of the server may rely on: a slot per service
with `Take`, `Leave` and `Clear`, and lookups that return the owner of the
moment they answer. `Registry` implements it (`ImplementsSlot`) with `owner`,
`target` and `of` taken as they are, `past` the sessions that have been
registered and hold no slot, and `answer` read off the request's position.

### Upgrade

One exchange: `main` (the request handler), `ticker`, and a pump per direction.
The channel `done` is its count of buffered values (`tokens`), whether it is
closed, and how many values each reporter received. A report is three steps:
load the counters, add them to Stats, reset the counters. `moved` is a history
variable: the units really carried.

### TokenStore

`disk` is what reading the tokens file gives, `Bad` included. A save in place
is two steps (truncate, write), with two events; it may also move the old file
away, and `Replace` renames a new file over it; both end the inotify watch.
`wpc` is where startup and then the watch goroutine stand; reading the file and
installing the result are two steps, so the file can change in between.
`unread` and `blind` are history variables: the file changed since it was last
read, and it did so without an event that the goroutine will see.

### Names, Routing and CertIssuer

`Names` holds the pure part: a dotted name is the sequence of its labels, and
the operators say which service a Hello is given (`Settle`), which one a Host
header asks for (`ExtractService`), what counts as the apex (`IsApex`) and what
autocert's host policy lets pass (`Allowed`). The code's strings are compared
label by label, so trimming a final dot, folding case, cutting off the base
domain and taking the last label are each modelled by what they do.

`Routing` says what a request gets before it reaches a service: `Http` is
buildHTTPHandler's chain, `Redirector` and `Public` its two handlers, `Admin` the
dashboard's requireAuth, ServeHTTP and serveTokens. A request is a record of
its door, kind of path, host and credentials, a configuration one of the four
settings they look at.

`CertIssuer` follows a client from its Hello over Register to Issue, and an
issuance from `pending` over the policy to ACME's answer. `asking` and
`ordering` count the goroutines of `run` before and after the policy was asked;
they are counters so that a second goroutine for one host would be seen.
`known` is what `Registry.HasService` answers from: a service enters it with
Register and stays, as it does in `lastSeen` (`server/registry.go:78`, `118`).
`mode` is chosen in Init: without TLS and with certificate files nobody issues,
with autocert the policy is asked, with certmagic's DNS challenge it is not
(`server/tls.go`). Routing changes no state, so that requests are no actions:
the two routing properties ask, in every state, what every request would get
under every configuration of that mode.

Abstracted: ports, spaces and the characters of a label; query strings; the
certificate cache and renewals. What /health says is TokenStore's `lastErr`.

### Stats

A request's or an upgrade's call into Stats is cut where the code can be
interrupted: the atomic counters, the clock read, and the critical section of
`bumpBucket` or `latencyMu`. A caller that read the clock may be late by up to
`MaxDelay` seconds when it takes the mutex. `Swept` and `NewestWith` are
`advanceBucketsLocked`, gap of a ring or more included; slots are seconds modulo
`Ring` and samples are counts modulo `Samples`, as in the code. `log` and
`latest` are history: what was recorded for each second, and the latest latencies. A
snapshot is two steps, because the totals are read after the buckets were copied
and the mutex released. `Sorted` is `sort.Slice` by what it does: it puts the
samples in ascending order, and does not say how.

Abstracted: 60 and 256 are `Ring` and `Samples`; sizes and latencies are members
of small sets; the connection state is Registry's, active WebSockets Upgrade's.

### Forward

One request that is not an upgrade. `main` and `writer` are forwardHTTP's two
goroutines, `serve` and `pump` the router-client's (`pump` only in proxy mode),
`app` the handler or the upstream. A request and a response are a head, units of
body, and an end; a stream or a socket holds at most `Window` of them, and a
writer that finds it full waits. `cut` is what can happen to the stream: the
session dies and what was under way is lost from some point on, or yamux's
StreamCloseTimeout resets a stream that only one side has closed. The public
client may stop anywhere in its upload, finish it or leave. It may also stop reading:
w.Write and Flush (`server/proxy.go:56`, `60`) return only once it has read enough or
is gone, and no WriteTimeout is set, so that `main` may stay at `write`. A `patient`
application reads the whole request before it answers, another one need not read
any of it.

Abstracted: headers and status codes (a response is `ok` or the server's own
`bad`), framing (`end` is the last chunk or the last byte announced), the
counting of bytes, which is Stats's.

### ClientLoop

`run` is where Run and runOnce stand: `top`, `dial`, `hello`, `ack`, `accept`
(a session), `failed`, `backoff`, `returned`. `far` is where the server's handler of
each connection stands. A connection the client has closed may keep its handler
busy: what was sent on it is read, acknowledged and registered all the same,
and displaces whoever registered meanwhile. `owner` is the registry, reduced to
the one slot that `ServiceSlot` promises. While `faults` holds, anything can
fail: dialling, the 10 s deadlines of either end, the token, the network
(`Break`), the server (`Restart`). Faults may end and begin again at any time.
The deadlines are cleared when the handshake is over (`client/client.go:129`,
`server/server.go:361`), so a session is not ended by them.

Abstracted: magic, version, length and JSON are a Hello or an Ack that cannot be
read; which service a Hello gets is CertIssuer's; `yamux.Server` and `Client` do not
fail with the default configuration. A connection is used again when both ends
have left it, so the goroutine that each one leaves behind until the context
ends (`client/client.go:142`) is not counted.

### StreamRW and Response

One stream in handler mode. The handler's calls come in any order; each is
one action, with the early returns of the code in its guard. What was written is
kept as what the server's `http.ReadResponse` has made of it: `stage` is where it
stands, `read` the units of body decoded, `garbled` says that something came
where it could not, `raw` counts what a hijacked stream carries. Since every Write flushes, only
a head can rest in the buffer (`buffered`). `accepted` is history: what Write has
reported as written. `Returns` is finish and the deferred Close; `Panics` is
Close alone, and the end of the program, since nobody recovers. `Breaks` cuts
the stream.

`Response` is what the far end may rely on: a response that begins, grows and
ends once, or a stream the handler has taken over before anything was sent. A
handler can break the rules of its own framing, with a body longer than it
announced or under a 1xx status; what the server then cannot place is `junk`. It
comes only from such a handler (`honest`), after all that was decoded, and changes
nothing that was read. `StreamRW` implements this (`ImplementsResponse`), with
`junk` its `garbled` and `honest` its `Honest`.

Abstracted: all headers but the two that framing looks at, answers to HEAD, and
concurrent calls, which `http.ResponseWriter` forbids.

### Server

`run` is where Run stands: the listener it opens next, `select`, the two
drains, `close`, `clear`, `returned`, or `failed` after an early return. `serve` has
the goroutine of each listener; `Starts` is the race between it and a Shutdown
that came first. `errc` is the channel, `Room` its capacity. `http.Server` is
modelled from how Run uses it: Shutdown closes the listener and waits until no
request is left at that door (`at`), or the deadline passes; a hijacked exchange
is not waited for. A request passes a lookup and ends or upgrades; a control
connection shakes hands, registers and ends at any time, also after shutdown. The
registry's steps are `ServiceSlot`'s.

Abstracted: what ReadHeaderTimeout cuts off; idle connections; the token
watcher, which ends with Run's context; the DNS manager's start, which is one more
way to fail before the first listener. The module's initial states and steps have
names of their own (`ServerInit`, `ServerNext`, ...) so that `ServerProofs` can
speak of it and of `Upgrade`.

## 4. The runs

| Run | Instance | Shows |
|---|---|---|
| `registry_sessions` | 2 services, 2 connections, 1 request, grace 1, fairness | `NoZombieEntry`: what the map holds has a handler that will unregister it; `NoOrphanSession`: a displaced session is closed; `NoGhostService`: no dead service is shown connected for good; `NoLostWakeup`: who waits is on a channel that will be closed, or on its timer; `NoDoubleClose`: no channel is closed twice; `NeverDroppedAlive`: a stale Unregister takes nothing from its successor; `ImplementsSlot`; `LookupReturns`, `DeadSessionLeaves` |
| `registry_shown` | 1 service, 2 connections, 1 request, safety only | **violated**: `ShownIsCurrent` (section 7) |
| `upgrade_pumps` | 2 units per direction, fairness | `SendsAreSafe`; `NeverOverReported`; `TornDown`: when one side stops, both connections are closed and the ticker ends |
| `upgrade_finalize` | 1 unit per direction, fairness | **violated**: `CountersFinalized` |
| `tokens_reload` | 2 tokens, 1 binding, 2 saves, fairness | `NoEditMissed`, `InSync`, `EditTakesEffect`, `HupTakesEffect` |
| `tokens_revoked` | 2 tokens, 1 binding, 1 save | **violated**: `RevokedNotAccepted` |
| `certs_warmup` | 4 TLS modes, 2 clients, 3 handshakes, 3 names, 10 hosts, all requests and configurations, fairness | `OneAtATime`, `NeverRefused`; `RoutedAsDocumented`: every request gets what the README says of its host and path; `RedirectSpares`: a redirect never leads to a handshake that waits for a certificate; `IssuanceEnds`, `RetriedOnReconnect` |
| `stats_window` | 2 exchanges, ring 3, 2 samples, clock 5 to 7, 5 calls, delay 1 | `RingIsLog`: each bucket is what was recorded in its second; `TotalsCoverWindow`: totals are never behind the buckets shown with them; `SnapshotIsWindow`; `PercentilesOfLatest` |
| `forward_exchange` | both modes, window 2, 3 units, fairness | `NothingLost`: a response read to its end is whole; `BadGatewayHonest`: while the session lives, a 502 replaces an answer that was begun only if an upstream answered before it had been sent the whole request; `Released`: once the request was written everything ends, unless the public client stalls for ever; `AnswerNotBlocked`: a handler's early answer is read |
| `client_reconnect` | 3 connections, delays 2 and 3, fairness | `NothingLeftOpen`: no way out of runOnce leaves a socket; `Stopped`: a cancelled client returns; `Reconnected`: when faults end for good, it is served again for good |
| `handler_responses` | 3 units, any status, header and order of calls | `FramingAgrees`: the server decodes what Write accepted; `TruncationShows`: a cut or panicked response never looks whole; `HijackedRaw`: nothing but the handler's bytes on a hijacked stream; `ImplementsResponse`: a response begins, grows and ends once, and what cannot be placed is the doing of a handler that breaks its framing |
| `server_lifecycle` | with and without TLS, 1 service, 1 connection, 2 requests, fairness | `InFlightSpared`: no session is closed under a request that is still served, within the five seconds; `OkMeansCancelled`: Run returns nil only if it was cancelled; `RunReturns`: a cancelled server stops, and every goroutine it started |

Why the bounds are enough. Two connections, of the same or of different
services, are the least that let one displace the other with a late handler
around; a lookup waits for one service while the other is busy. Longer chains of
displacement, and several requests that share a notifier channel or find
different ones, do not fit into a run with liveness; every safety property of
this run, the refinement included, is proved for any number of services,
sessions and requests (section 5), and only `LookupReturns` and
`DeadSessionLeaves` rest on the bounds: neither involves a third party. A grace
of one tick has a moment inside the window, its end, and a moment after it. Two
units per direction let one be counted between a load and its reset and another after it.
Two saves let the second one begin while the first is waited for, read or
installed. In `certs_warmup` two clients of one service can be at Issue at the
same time, and a third handshake follows a failure; the names are a good one,
the same in capitals and one that `serviceNameRE` rejects; the hosts are the
apex with and without `www` and a final dot, a service in either case, a deeper
host, an empty label, a foreign domain and no host. In `stats_window` the clock
starts past one turn of the ring and runs on for most of another, so that gaps
of 0, 1, 2 and, from a fresh ring, 3 and more seconds are swept, and slots are
used twice; five calls overflow two latency samples. Of two samples p50, p95 and p99
are the same one, so that what tells them apart is `PercentilesShown` alone, which is
proved for any number of samples. That a caller waits for the
mutex for less than a turn of the ring (`MaxDelay < Ring`, 60 s in the program)
is an assumption, which the proofs need as well. In `forward_exchange` three
units of body overflow a window of two, so that each writer has to wait with
something to send and something already read. Three connections in `client_reconnect`
are a working one and two given up, whose handlers may displace it one after the
other; two delays are one below the maximum and the maximum. In
`handler_responses` three units are more, as many and fewer than a Content-Length
of 0 to 3. In `server_lifecycle` two requests can be at different doors, one held
while the other is answered; the connection can come, be taken by either and go
at any stage of the shutdown. What is proved (section 5) holds without these bounds.

Deadlock is not checked where the model ends by itself: connections and requests
are used up (Registry, CertIssuer), an exchange ends (Upgrade, Forward), calls
and clock are bounded (Stats), a response or a server has an end (StreamRW,
Server). TokenStore and ClientLoop never stop and are checked for deadlock.

### Fairness

*Registry*: every goroutine that can run does (weak fairness of each handler's
next step, of `watch`, of CloseAll's loop, of a lookup's wake-up or timer, of
OpenStream); the handshake ends, because of its 10 s deadline; time passes. No
fairness of clients, of the network, of callers or of a shutdown.
*Upgrade*: goroutines run; the ticker's `select` is strongly fair towards
`done`, since Go chooses at random among ready cases; a copy whose connections
are both closed by this side ends (the public one at once, the stream by the
peer's answer or yamux's StreamCloseTimeout). No peer is assumed to speak or stop.
*TokenStore*: the watch goroutine runs and its `select` is fair to each case
that stays ready; a save that was begun is finished. Nobody is assumed to edit
or to signal.
*CertIssuer*: control handlers and issuing goroutines run, and ACME answers or
times out (autocert has its own deadlines, `certIssuer.timeout` ends the other
mode's call after five minutes). No client is assumed to come back.
*Forward*: every goroutine of both ends runs, and yamux's timer fires; a
patient application reads what there is; handlers and upstreams end in time,
which is the application's business and is needed only because `Released` and
`AnswerNotBlocked` speak of their end. The public client promises nothing: it may
stop sending or reading for ever, and the session may live or die. `WriteBody` is
fair only once the client is gone, when the write fails; `Released` assumes that the
client otherwise goes on reading (`KeepsReading`).
*ClientLoop*: the client's goroutines and each handler run, timers fire, and a
deadline passes where an answer stays out. No fairness of the network, of the
server's restarts or of whoever cancels; `Reconnected` assumes that faults end.
*Server*: Run, its Serve goroutines and the closer go on, and the deadline
expires. Nothing of requests, clients or listeners, and nobody is assumed to
cancel.
*StreamRW* has no liveness: a handler may take for ever.

## 5. The proofs

All are for every value of the constants, from the assumptions the modules name
(`GraceAssumption`, `NoneAssumption`, `MaxUnitsAssumption`, ...), and have the
same plan: an inductive invariant `IInv`, `Init => IInv`, `IInv /\ [Next]_vars
=> IInv'`, and each property from `IInv`.

*RegistryProofs.* The properties are not inductive alone. `IInv` adds `Locals`
(a handler's `old` and `ch` are set only between Insert and Evict or Wake, and
its service only after the handshake), `Askers` (a request that asked has a
service; one that waits has a channel) and `Channels` (a channel was made by a
request that has already asked, serves one service, and is in the map or held by
at most one Register). With them each conjunct is preserved by each action
separately: one lemma per conjunct, one step per action in it. From `IInv`
follow `EntriesAlive`, `DisplacedClosed`, `WakeupsKept`, `ClosedOnce`,
`NoGhosts`, the action property `SlotsTakenFairly`, and `Implements`: under
`IInv`, Insert is a Take, Unregister of the current session a Leave, CloseAll a
Clear, the lookup steps are Hit, Hold and Miss, and everything else is a stutter.

*ServerProofs*, first part, on `Server`. That no session is closed under a request
is not inductive: nothing in it says why the doors stay empty once a drain has
found them so. `ServerInv` adds `NoneAccepted` (where a server was told to shut
down its listener is closed or nobody serves on it, so nobody arrives),
`DoorsEmpty` (a door Run is done with in time has no request left), `NoTLS`
(without TLS that door is never used) and `FailuresOnly` (before shutdown, a
server nobody cancelled has only failures in `errc`). From it follow `Spared`
(`InFlightSpared`) and `OkCancelled` (`OkMeansCancelled`), for any number of
requests, services and sessions.

Second part, on `Upgrade`. `IInv` adds `TokensAccounted` (the values in the channel
and those received are as many as the pumps that have sent), `Stages` (what may
run at which stage of the handler) and `Samples` (outside the ticker's last two
steps, bytes reported and bytes still counted are together at most those moved;
a sample the ticker is publishing is at most what is counted; all this only
until the handler finalizes). `SafeSends` and `NotOverReported` follow,
for any amount of traffic.

*TokenStoreProofs.* `IInv` relates history and control: an edit that is not
`blind` left an event, a running timer or a read to come (`NoEditMissed`), and
what a reload holds, read but not installed, is what is on the disk unless the
disk has changed since (`FreshIsDisk`). `EditsKept` and
`StoreFollowsFile` follow, for any set of tokens and any number of saves.
`TypeCorrect` needs `Budget`: two events at most for each save that was begun.

*CertIssuerProofs.* `IInv` is `OneAtATime` and the shape of the tables it speaks
about; a second invariant, `Remembered`, says that a client past Register is
known, and so is a service of every host the policy is about to be asked for. The lemma
`HostOfService` undoes `CertHost`: a
well-formed service below the base domain is found again by the policy, whatever
the base domain is. From these follow `OneIssuance`, `ReadyStays` and
`PolicyAgrees`, for any labels, names, hosts and number of reconnects.
`RoutesHold` and `RedirectsHold` need no invariant but are about sequences: the
lemma `ServiceOfHost` shows that cutting off a final dot and the base domain and
taking the last label finds exactly the label that stands below the base domain
(`Subdomain`, which is stated without any of these), and `PageOfHost` that the
certificate page asked for is that of the same host. They hold for any labels,
base domain and hosts, in every state of issuance.

*StatsProofs.* `IInv` is `TypeOK`, `RingIsLog` and `NothingAhead` (nothing is
recorded for a second after the ring's newest). The lemma `SlotOnce` is the
arithmetic: two seconds that share a slot are at least a ring apart; from it
`SweptIsLog` (clearing the slots between the newest second and a later one
leaves each with its second's record, for a gap of any length) and `BumpKeeps`
(adding to a second that is not newer, and still in the ring, changes only its
own bucket). `RingFollowsLog` and `SnapshotShowsWindow` follow, for any ring, any
number of callers and delays below a ring.
`TotalsAhead` needs sums, and sums need induction. The library's theorem cannot be
used, but that `<` on the naturals is well-founded can: `Induction` draws from it
that a *set* of naturals closed under successor, with 0 in it, holds them all, and
`SumByParts` what the community modules' fold over a function amounts to. With
them `CountersAhead` is preserved: what a snapshot at any second would copy, and
one for each caller between its counter and its bucket, is at most the counter. The
totals are read after the copy and counters only grow (`Copied`).
`PercentilesShown` rests on `LatestInRing` (the latency ring holds the history's
latest in turn, from its head once it is full) and `PercentileIs`: the sorted
samples have at each place the value that so many samples are at most and the
others at least, whatever order they were in, so the copy that Snapshot sorts and the
history give one answer. That every sequence can be sorted at all
(`OrderExists`) is an induction of its own.

*ForwardProofs.* The response is taken as the sequence whose k-th item is
`ItemAt(wrote, k)`, and `Chain` says that what the stream and the upstream's
connection hold are consecutive parts of it (`DownInOrder`, `BackInOrder`),
without a gap while the session lives (`NoGap`), with what each goroutine may
have done by then (`Stages`, `Sides`). Each step appends an item, takes one, moves
one from one buffer to the other, or cuts the stream; one lemma each. Reading the
"end" therefore means that everything was read (`EndIsLast`), which gives
`WholeResponses`. `HonestRefusals` asks where an answer that was begun can be when
the server gives up reading one: Serve has returned and puts nothing more on the
stream (`Left`); in handler mode whatever was written was put there; in proxy mode
Serve leaves with the upstream's connection empty once the answer was being relayed
(`Passed`), and before that the upstream has not been sent the whole request
(`Unheard`). All of it is for windows of any size and bodies of any length.

*ClientLoopProofs.* `NothingLeftOpen` is inductive with the places of the loop
(`Places`, `HasConn`); the delay needs `DelayStep` alone, and no relation between
ReconnectMin and ReconnectMax, which the code does not check either: the first
delay may be above the maximum, no later one is.

*StreamRWProofs.* `IInv` ties the writer's state to the server's with `Heads`:
nothing was written before a status was chosen, a head in the buffer is ahead of
everything, and a hijacked stream never had a status. `HijackedRaw` follows at once.
`TruncationShows` is inductive with it (`TruncationStep`). For `FramingHolds`,
`Framed` says where the server stands for each framing an honest handler may have
chosen, buffered head or not, and `HonestBefore` that honesty is never regained.
`Implements` needs `Spoilt` as well: what cannot be placed comes after a complete
response or unframed where chunks were announced, with no head left in the buffer,
so that it ends nothing and no unit is decoded after it; and `Framed` makes its sender
one who is no longer honest. Then each call is one step of `Response` or a stutter.
All for any number of units.

Only model-checked: everything under fairness (`LookupReturns`,
`DeadSessionLeaves`, `TornDown`, `EditTakesEffect`, `HupTakesEffect`,
`IssuanceEnds`, `RetriedOnReconnect`, `Released`, `AnswerNotBlocked`, `Stopped`,
`Reconnected`, `RunReturns`), which is out of the prover's reach. The type
invariants are theorems and not properties of the runs; `ReadyStays` (no reconnect
takes a certificate back) is a theorem only as well.

## 6. Not modelled

* Of the dashboard: `/__router/ws` (`serveWS`, a reader and a ticker per socket,
  which share nothing with the router), the snapshots it sends, which are read
  from what is modelled, and the static files.
* The web UI, the command line tools and the examples, which only read or start
  what is modelled.
* Configuration beyond tokens (TokenStore's Init), TLS modes and what routing
  looks at (`Routing`): environment variables, read once.
* TLS, ACME, yamux and net/http, which are libraries and appear as environment;
  with them certmagic's on-demand decision (`server/acme_dns.go:68-77`), which
  certmagic calls during TLS handshakes, and renewals.
* Upgrades through proxy mode, beyond what section 7 says of them.

## 7. Where code and documentation disagree

1. `ShownIsCurrent`, `server/registry.go:75`. Stats is told of a disconnect after
   the registry's mutex was released. A client that reconnects in between is
   connected, serves requests, and is shown disconnected until it reconnects
   again. Trace: the old session's Unregister deletes it from the map; the new one
   calls MarkConnected; the old one calls MarkDisconnected; the new one enters the
   map and serves.
2. `CountersFinalized`, `server/proxy.go:124`. The handler waits for two values
   on `done` ("Wait for both directions to terminate, then finalize counters"),
   and the ticker receives from the same channel. Two values, three receives:
   when the ticker takes one, the handler never returns, the final report and
   WSEnd never happen.
3. `RevokedNotAccepted`, `server/reload.go:34`. The map handed to newTokenStore
   already contains the file's tokens; it is kept as `inline`, which is never
   reloaded. A token the file held at startup survives its removal.

Met while modelling, and not the subject of a run:

* Two Registers of one service may call MarkConnected in one order and enter the map
  in the other (`server/registry.go:47-50`): the dashboard then shows the remote
  address of the session that was displaced.
* No WriteTimeout is set (`server/server.go:99-102`, `113-116`): a public client that
  stays connected and stops reading its response holds w.Write
  (`server/proxy.go:56`), and with it the request's goroutines, its stream and Serve,
  for as long as it likes.
* When the public client leaves in the middle of its upload, forwardHTTP's writer
  fails but nobody tells `ReadResponse` (`server/proxy.go:37`); an application
  that reads the request to its end waits for the rest of it. Neither side has a
  deadline and the stream stays until the session ends. `Released` is therefore
  stated for requests that were written.
* `<-writeDone` (`server/proxy.go:68`) comes before the end of the public response:
  a client that answered without reading a large upload lets it wait for yamux's
  close timeout of five minutes.
* A read error in the middle of a response ends forwardHTTP's loop like its end
  (`server/proxy.go:63`): a truncated chunked response is given a last chunk.
* A comment (`server/proxy.go:31-32`) says that a slow upload does not block reading
  the response. Proxy mode writes the whole request to the upstream before it
  relays any of the answer (`client/proxy.go:95`), so an early 401 waits for the
  upload, and becomes a 502 if the upstream has closed; `BadGatewayHonest` excepts it.
* Serve closes the stream when the handler returns (`client/handler.go:36`), also
  one that was hijacked and handed to a goroutine; `README.md:164` says that
  WebSockets work "exactly like a normal HTTP server", which would keep it open.
* A 1xx status is final for the response writer (`client/handler.go:91`): a handler
  that sends 103 and then its answer sends a body where none may come.
* A `Transfer-Encoding` the handler sets is trusted but its body is written
  unframed (`client/handler.go:95`).
* Nobody recovers a handler's panic (`client/handler.go:49`): it ends the client's
  program with every other request, where net/http would end one connection.
* Write on a response that must have no body returns `0, nil`
  (`client/handler.go:120`), which `io.Writer` does not allow.
* Any Accept error ends runControl and with it the server (`server/server.go:303`),
  a temporary one such as too many open files included, which http.Server
  retries; the comment on Run (`server/server.go:73`) speaks of a listener that
  fails fatally.
* When a later listener cannot be opened Run returns and leaves the earlier ones
  serving (`server/server.go:108`, `122`); `RunReturns` excepts it.
* A client may register the service `www`, which matches `serviceNameRE` and gets
  a certificate, but `www.<base>` is the dashboard's (`server/server.go:260`).
* A failed certificate's page is replaced when a client of the service reconnects
  (`server/cert_warmup.go:76`); `README.md:293` says it stays until the operator
  intervenes.
* Proxy mode sets `Connection: close` on every request (`client/proxy.go:92`), upgrades
  included, whose `Connection: Upgrade` is lost; `README.md:37-38` and `169` say
  that WebSockets work in it.
* The reconnect delay is never reset by a successful session (`client/client.go:84`,
  `101`): after five disconnects in any length of time every later one costs 15 s.
* A snapshot whose clock was read before a newer second began shows that second's
  bucket as its oldest entry (`server/stats.go:183`); `SnapshotIsWindow` says so.
* The service name of a bound token is not matched against `serviceNameRE`
  (`server/server.go:346`), although `README.md:114` asks for well-formed names.

## 8. Running

    tlc -config Registry_sessions.cfg Registry
    tlc -config Upgrade_pumps.cfg Upgrade
    tlapm RegistryProofs.tla

and likewise for the other runs and proof modules listed in `PROJECT.json`.
