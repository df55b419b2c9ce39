# safeguard-go in TLA+

A verification development for [safeguard-go](../src/README.md), the Go client
of the Safeguard appliance: TLA+ modules of its parts, the TLC
configurations that model-check them on small instances, and theorems about
them with proofs TLAPS checks for every instance.

Line numbers below refer to `src/`.

## 1. The system

A `Client` (client.go) holds one authentication session with one appliance and
may be shared by any number of goroutines. Around it:

| Part | State it keeps | Operations | What is hard about it |
|---|---|---|---|
| Session cell (token.go, client.go, connect.go) | an atomic pointer to an immutable `tokenState` (epoch, generation, token, refreshable); a `closed` flag | Connect, RefreshToken, TokenLifetimeRemaining, Logout, Close | every load may be stale by the next line; a terminal swap races with publication |
| Refresh and replay (refresh.go) | `refresh.mu`, the `inflight` operation with its `done` channel and `err` | refreshOnce, doRefresh, classify401, send | single flight, compare-and-swap, waiters and their contexts, one replay and no more |
| Request surface (invoke.go, stream.go, options.go, service.go, response.go, errors.go) | none of its own | Invoke, Get, Post, Put, Delete, Stream, Upload, Download | the request is built from the cell of that moment, and once more for a replay |
| Transport pools (transport.go, tls.go) | lazily built clients per TLS identity, `closed`, client certificates | client, websocketClient, setClientCerts, do, Close | clients are used after the lock is released |
| Credentials (credentials.go, addon.go, pkcs8_encrypted.go) | the login material | `establish` of each credential | parsing failures, what is refreshable |
| Login flows (internal/auth, browser, devicecode) | locals of one login | the two-step broker exchange, headless PKCE with a second factor, device-code polling, the browser's capture server | intervals and deadlines, a code racing a timeout |
| Event stream (events_signalr.go) | one WebSocket, a dispatch buffer of 256 events, a keep-alive goroutine | connect, serve, handleMessage, keepAlive | a read loop, a dispatcher, a pinger and a context that end in any order |
| Event listeners (events.go) | started, cancel, done, err under a mutex; handlers | Start, Stop, Done, Err, the reconnect loop | Stop from a handler or during Start, reconnecting without overlapping handlers, when to give up |
| A2A (a2a.go) | a client-certificate transport, `closed` | retrieve, set, broker, list accounts, events | several requests with partial failure |
| Secret (secret.go) | a byte slice | New, Expose, Zero | who shares the buffer that is wiped |
| Live-test harness (internal/livetest) | objects on a shared appliance, one of its settings | provision, tear down, toggle grants | any call may fail, any test may be killed |

How they interact: every request path calls `send`, which reads the cell
directly and again through `prepareRequest`; `send` and `RefreshToken` call
`refreshOnce`, whose leader calls the credential's `establish`, which uses the
same transports; Logout and Close swap the cell and, for Close, shut the
transports under everybody; listeners share the cell (through an `auth`
callback) and the transports with the client.

What makes each part correct:

* the session: at most one login at a time and one success per generation; an
  ended session never comes back; a generation moves forward one token at a
  time; a wiped token is in nobody's hands; a call sees at most one replay and
  no spurious 401; every call returns, and a waiter can leave;
* the event stream and listeners: at most one run of a listener at a time; Err
  is final when Done closes; Stop is never lost and always returns; events of a
  connection are handed over in order and never concurrently with those of the
  next one; the loop waits between attempts, gives up on a terminal error and
  not before;
* transports: no pool survives Close or a change of certificate; every pool can
  negotiate a TLS version, within what the caller allowed;
* login flows: a token is asked for only after the second factor; each step
  carries the session's cookies; polling keeps interval and deadline; the first
  code that arrives is the one redeemed; the buffers a login makes for its secrets
  are wiped whatever way it ends; every login ends;
* A2A: an account list is complete or an error; nothing is stored or brokered
  twice; a password retrieved is one the account had;
* secrets: what the library keeps survives what others wipe, and what nobody
  needs is wiped or known to be left;
* live tests: what they create they delete, in an order the appliance accepts,
  and a killed test does not block the next.

## 2. Modules

| Module | Role |
|---|---|
| `SessionPromise` | abstract specification of the session: phase, generation, and the renewal running, if any |
| `Session` | the session in detail: cell, refresh coordinator, replay, and every call that moves them |
| `EventSession` | abstract specification of the session as its listeners see it: it ends and never begins again |
| `EventFeed` | abstract specification of a listener: what it promises its handlers |
| `EventServe` | a connection's read loop, dispatch channel and dispatcher; both listeners extend it |
| `EventListener` | Start, Stop, Done and Err of the single-connection listener, over `EventServe` |
| `PersistentListener` | the reconnecting listener, the session that authorizes it, over `EventServe` |
| `TransportPools` | connection pools per TLS identity, certificate changes, TLS windows, Close |
| `Broker` | the two exchanges every login ends with, their errors and what callers see of them |
| `BrokerLogin` | password, certificate and headless PKCE logins, with cookies, second factor and secrets |
| `DeviceCode` | the device-code login against a clock |
| `BrowserLogin` | the browser login, its loopback server and the select that waits for it |
| `Providers` | how an identifier is matched to an identity provider |
| `A2A` | discovery, retrieval, storing and brokering of an A2A context |
| `SecretBuffers` | who holds which array of a Secret, and who wipes it |
| `Provisioning` | the live tests' objects on the appliance, created and torn down |
| `GrantSetting` | the appliance setting live tests toggle and put back |
| `MCSession`, `MCEventListener`, `MCPersistentListener`, `MCTransportPools`, `MCA2A`, `MCSecretBuffers` | the instances TLC checks |
| `MCLogins` | the four ways to log in, one per behaviour, as one instance |
| `MCLiveTests` | `Provisioning` and `GrantSetting`, one per behaviour, as one instance |
| `SessionProofs` | theorems of `Session`, and that it implements `SessionPromise` and `EventSession` |
| `EventServeProofs` | lemmas about one connection, shared by the next two |
| `ListenerProofs`, `PersistentProofs` | theorems of `EventListener` and `PersistentListener`, and that each implements `EventFeed` |
| `A2AProofs` | theorems of `A2A` |
| `PoolsProofs`, `SecretProofs` | theorems of `TransportPools` and of `SecretBuffers`, and that the latter implements `SessionPromise` too |
| `SequentialProofs` | theorems of the programs that take one step after another: the four ways to log in, as `MCLogins` composes them, and the live tests, as `MCLiveTests` does |

The runs, all with deadlock checking off because callers may stop calling, tests
end, and a behaviour with bounded calls, events or requests must end; that
nothing hangs before is what the liveness properties say.

| Run | Instance | Distinct states |
|---|---|---|
| `calls` | `Session`: 3 callers, 3 calls of every kind but lifetime; tokens 1 and 2 may lapse | 798 000 |
| `live` | `Session`: 2 callers, 3 calls (lifetime, refresh, logout) | 125 000 |
| `ctx` | `Session`: 2 callers, 3 calls; section 4 | |
| `listener_stop` | `EventListener`: 2 callers and the handlers, 2 attempts, a channel of 1, 3 events | 87 000 |
| `listener_handler` | `EventListener`: 1 caller, 1 attempt; section 4 | |
| `persistent_loop` | `PersistentListener`: 1 caller and the handlers, 3 connections, 2 events, every delay from 1 s to the cap | 152 000 |
| `pools_race` | `TransportPools`: 2 goroutines, 4 requests or logins, versions unset, 1.1, 1.2 and 1.3 | 208 000 |
| `logins` | `MCLogins`: every login; bounds below | 369 000 |
| `a2a_calls` | `A2A`: 2 callers, 2 calls, 2 registrations, 1 account each, 2 passwords, 1 change | 2 250 000 |
| `secret_hold` | `SecretBuffers`: 2 requests, 7 arrays, 3 sessions | 887 000 |
| `secret_listener` | `SecretBuffers`: 1 request, 4 arrays; section 4 | |
| `live_tests` | `MCLiveTests`: 2 tests, 3 faults; or the grant tests of one package | 108 000 |

### Session

A step is one atomic access to shared state: one load, swap or
compare-and-swap of the cell, one critical section of `refresh.mu` or
`transports.mu`, the close of `op.done`, or one answer of the appliance. All
that a goroutine does between two such accesses is local and belongs to the
step before.

| Variables | Code |
|---|---|
| `cell` | `Client.token`, with tokens numbered in the order they are minted and 0 for none; `anonymous` is derived, because every constructor sets it exactly when it sets no token |
| `closed`, `transportsClosed` | `Client.closed`, `transportSet.closed` |
| `inflight`, `ops`, `nops` | `refreshCoordinator.inflight`, and the `refreshOp`s by order of creation, with the generation each was created for |
| `pc`, `kind`, `joined`, `frame`, `res` | a goroutine: its position, the call it makes, the `refreshOp` it leads or waits for, its locals, the error in hand or the result returned |
| `minted`, `valid`, `zeroed` | tokens issued and accepted by the appliance, tokens whose bytes were wiped |
| `connect`, `calls` | progress of Connect; the number of calls, bounded by `MaxCalls` |

| Actions | Code |
|---|---|
| `ConnectWithToken`, `ConnectAnonymous`, `ConnectFails` | connect.go:30-51 with client.go:88-105; one step each, because the client is not shared before Connect returns |
| `Begin`, `BeginClose` | the closed check every entry point starts with |
| `CheckLifetime`, `ReenterInvoke` | TokenLifetimeRemaining and its nested Get, token.go:49-85 |
| `LoadObserved`, `BuildRequest`, `Dispatch`, `DispatchFails` | refresh.go:176-186: the cell is loaded twice, and the transport looked up after that |
| `Answered`, `Unauthorized`, `RequestFails` | the answer of the appliance, or none |
| `SurfaceUnauthorized`, `ReplayWithoutRefresh`, `ReplayAfterRefresh` | classify401 and the three branches of send, refresh.go:154-214 |
| `CheckRefreshable` | RefreshToken, token.go:93-108 |
| `JoinRefresh`, `FindAdvanced`, `LeadRefresh` | the critical section of refreshOnce, refresh.go:54-75 |
| `JoinDone`, `ReturnCanceled` | a waiter's select, refresh.go:57-62 |
| `StartLogin`, `LoginSucceeds`, `LoginFails` | `establish` inside doRefresh, refresh.go:97-106 |
| `LoadToPublish`, `DropSuperseded`, `Publish`, `PublishRaced` | the compare-and-swap loop, refresh.go:108-132 |
| `Settle`, `CloseDone` | refresh.go:79-88: `err`, then `inflight` under the lock, then `done` |
| `LoadToRevoke`, `SendRevoke`, `Revoked`, `RevokeFails`, `EndSession`, `CloseTransports` | Logout and Close, client.go:121-176 |
| `Cancel`, `Expire` | the environment: a context ends, a token lapses |

Three abstractions deserve a word.

* *Pointers.* CompareAndSwap compares pointers, the model versions. A version
  is published at most once while the session lives (that is
  `OneTokenPerGeneration`), and an ended cell has epoch 0, which no leader saw
  (`CallerInv`), so the two comparisons agree.
* *The appliance.* A request with a token is refused with 401 exactly when the
  appliance does not accept the token; one without may be answered either way,
  because the Notification service is anonymous. Tokens in `Expirable` may
  lapse at any time, and a Logout revokes the token it sent.
* *The login.* The two HTTP exchanges of a login (internal/auth/broker.go) are
  one: nothing in the session is touched between them. A failed login that had
  minted a token is a login that fails.

### What the session is checked for

* `calls`: `SingleFlight`, `OneLoginPerGeneration`, `JoinersShareTheOutcome`,
  `WipedNeverUsed`, `TransparentRenewal`, `BoundedReplay`, the action properties
  `NeverResurrected` and `OneTokenPerGeneration`, and `ImplementsPromise`.
* `live`: `CallsReturn` and `CanceledWaiterLeaves` under `FairSpec`.

*Bounds.* A leader, a joiner and a goroutine that ends the session are three
callers, and every race in refresh.go is among these roles; `calls` has them at
once, with uploads (which may not be replayed) beside them. `live` adds
TokenLifetimeRemaining, which calls Get in turn. Every action fires in one of
the two. `MaxCalls` is the only cap; a call leads at most one refresh, so the
guard `nops < MaxCalls` never disables `LeadRefresh`.

*Fairness.* `FairSpec` is weak fairness of each goroutine's own steps: the Go
scheduler runs a goroutine that can run. It assumes nothing of the appliance:
`CanceledWaiterLeaves` must hold when a login never answers. `CallsReturn` has
the hypothesis `ExchangesEnd`, weak fairness of each goroutine's network step:
requests end by an answer or by the dial, TLS handshake and response-header
timeouts of transport.go:165-177, logins at the latest by `refreshTimeout`
(refresh.go:28, 100). A response body that trickles in for ever is covered by no
timeout of the library, and is outside the model. Nothing assumes that a context
ends or a token lapses.

### Event stream and listener

`EventServe` holds the state and actions of live connections and has no
specification of its own; `EventListener` extends it and adds the goroutines
that call Start and Stop (events.go:87-197). A step is one channel operation, one critical section
of `l.mu`, one cancel or one close of `done`; a cancel that directly follows or
precedes a step nobody else can tell apart from it is part of that step.

| Variables | Code |
|---|---|
| `conn[k]` | attempt `k`'s connection: `serve`, where its read loop is; `batch` and `closing`, what is left of the message in handleMessage; `res`, the error serve will return; `queue` and `open`, the dispatch channel; `disp` and `event`, the dispatcher |
| `canceled` | attempts whose `runCtx` is done |
| `arrived` | events read, bounded by `MaxEvents`; events are numbered by arrival |
| `started`, `published`, `err` | `l.started`; the attempt that `l.cancel` and `l.done` belong to; `l.err` |
| `tries`, `done`, `served` | attempts made; whose `done` is closed; whose goroutine recorded what serve returned |
| `pc`, `mine`, `saw` | a goroutine in Start or Stop, the attempt it holds, and the attempt claimed when its Stop looked (history). The handler of connection `k` acts as goroutine `k` |

| Actions | Code |
|---|---|
| `ReadMessage`, `ReadFails` | one message of up to two events and perhaps a close record, or the end of the connection, events_signalr.go:294-304 |
| `HandEvent`, `AbandonBatch`, `EndMessage` | the select of handleMessage and its return, events_signalr.go:360-366, 305-311 |
| `CloseDispatch`, `DecideDrain`, `Drained` | the deferred end of serve: close the channel, wait for the dispatcher unless the context is done, events_signalr.go:274-286 |
| `TakeEvent`, `HandlerReturns`, `DispatcherExits` | the dispatcher, events_signalr.go:268-273, with events.go:67-85 |
| `Claim`, `ConnectSucceeds`, `ConnectFails`, `Release`, `CloseFailed` | Start, events.go:119-151 |
| `RecordErr`, `CloseServed` | the goroutine of Start, events.go:154-161 |
| `StopLooks`, `StopCancels`, `StopReturns` | Stop, events.go:170-181 |
| `OwnerCancels` | the context given to Start ends |

Pings, malformed records and events without a handler change nothing here; the
handlers of one event are one; a handler that panics returns, because invoke
recovers. connect is a step that succeeds or fails, at any time and whether or
not the context is done. keepAlive is left out: its pings touch no state of the
listener, and it ends with serve.

Run `listener_stop` checks `OneRun`, `DoneTellsWhy`, `StopIsNotLost`,
`ImplementsFeed` and `ListenerEnds` (`StopEnds` and `EndReachesDone`).

*Refinement.* `ImplementsFeed` maps the newest connection to the feed: it is up
while serve has not returned, stopped when serve returned under a done context,
and down otherwise. So a connection that ends by itself may only go down with
an empty channel and no handler running, and events reach their handlers one
at a time, in order, at most once. Events of a batch that a cancellation
abandons are gaps in the numbering. The mutant that returns without waiting for
the dispatcher breaks it.

*Bounds.* Two attempts are a failed Start and its retry. With a channel of one
event, a message of two fills it and blocks the read loop while a handler runs,
which 256 would only delay. Two callers race a Start with a Start or a Stop, and
the handler of each connection is a third goroutine that may call Stop.

*Fairness.* Goroutines that can run do (weak fairness of every step of serve,
the dispatcher, Start and Stop). A done context closes the WebSocket, so a read
loop that keeps coming back to Read fails in the end (strong fairness of
`ReadFails` under a done context only: an undisturbed connection may stay open
for ever), and a connect fails once its context is done unless it succeeded
before. `ListenerEnds` has the hypothesis `HandlersReturn`: no handler waits for
ever, as EventHandlerFunc asks (events.go:31-33). Section 4 tells what happens
to one that calls Stop.

### PersistentListener

The reconnecting listener of a client (events.go:199-373) and of an A2A context
(events.go:389-420), over the same `EventServe`. There is one loop goroutine, one
context for all connections and one Done.

| Variables | Code |
|---|---|
| `loop` | where run is: checking the context, authorizing, dialing, serving, sleeping, leaving |
| `attempt` | run's attempt, from which reconnectBackoff computes the wait; counted up to `MaxLevel`, where the wait is at its maximum |
| `rested`, `last` | history: whether the loop slept a whole wait since its last dial, and how long the last wait since a connection was |
| `session` | the session that eventConn.auth looks at: live, ended by Logout, or closed |
| `opens`, `late` | connections opened, and (history) those opened after the session was gone |
| `err`, `done`, `canceled`, `pc` | l.err, l.done, the context, the goroutines in Stop |

| Actions | Code |
|---|---|
| `Start` | events.go:230-247 |
| `CheckContext`, `Authorize` | the loop's condition and eventConn.auth: a gone session is a terminal error, events.go:255-266, 340-373 |
| `DialSucceeds`, `DialFails`, `DialClosed` | connect: negotiate, upgrade, handshake (events_signalr.go:147-253); a closed client's pools are a terminal error, all else is retried |
| `ServeReturns`, `Wake` | the end of a connection and the wait before the next attempt, events.go:267-299 |
| `CloseDone`, `StopCancels`, `StopReturns`, `OwnerCancels` | the deferred close of done (events.go:251), Stop (307-321), the context given to Start |
| `EndSession` | Logout or Close of the owner, at any moment: the `End` of `EventSession` |

`OneLateConnection` and `DoneHasAReason` say what the end of the session does;
`BacksOff` says that no two dials follow each other without a whole wait between
them, whether the first failed or connected, and that each wait after a connection
is the one reconnectBackoff's doubling and cap give; `ImplementsFeed` is the same
promise of `EventFeed`, here over several connections; `LoopEnds` (`StopEnds`,
`SessionEndsLoop`) and `Reconnects` are the loop's liveness.

*Bounds.* Three connections are the first, its replacement and the one that
might open after the end of the session. `reconnectBackoff` is the code's table of
delays without the jitter (events_signalr.go:434-449): it is at its cap of a minute
from the seventh wait on, so `MaxLevel` 6 loses none of them.

*Fairness.* As for the single listener, with the loop's steps: timers fire, and a
done context ends a dial (`DialFails` when `Stopping`). Nothing else does. The
client of a WebSocket has neither a timeout nor one for response headers
(transport.go:228-246), and the handshake is read under the context alone
(events_signalr.go:225), so an appliance that accepts the connection and stays
silent holds the loop for as long as the context lives, the session ended or not.
`StopEnds` needs no more than that and `HandlersReturn`, because Stop ends the context;
`SessionEndsLoop` has the hypothesis `DialsEnd`, that the appliance leaves no dial
hanging, and `Reconnects` that not every dial is refused for ever (`Reachable`).
Both have `HandlersReturn` too.

### TransportPools

transportSet (transport.go:96-306) as the client and an A2A context use it, and
the TLS versions its pools are built with (tls.go:114-196).

| Variables | Code |
|---|---|
| `closed`, `certs` | `ts.closed`, which installation of client certificates is current |
| `cached`, `built` | `ts.clients` and `ts.wsClients`; every pool ever built, with the certificates and TLS window it was built for |
| `idle`, `shut` | connections net/http keeps for reuse; pools whose idle connections were closed |
| `pc`, `want`, `held` | a goroutine: between its lookup, under `ts.mu`, and its request, outside it |

`BeginRequest`, `LookUp`, `Dial`, `Finish` are client, websocketClient and do;
`BeginLogin` is the certificate login, which replaces the certificates
(setClientCerts) and then uses both identities; `Close` and `Expire` are Close
and net/http's IdleConnTimeout, on which alone the connections depend that a
request dialed on a dropped pool.

`PoolsAreCurrent` joins three facts: a closed set caches nothing, a login
presents the certificate it installed, and there is one trust pool that presents
none. `UsableWindow` is about clientCertMaxTLS over every pair of versions the
configuration accepts. `ClosedConnectionsEnd` is liveness: under fairness of the
goroutines and of the idle timer, no connection outlives Close for ever.

*Bounds.* Two goroutines and four uses have a login race a request on each side
of every lookup, and a second login after the first. The refresh coordinator
admits one login at a time, which `BeginLogin` assumes and `SingleFlight` of
module `Session` gives.

### The logins: Broker, BrokerLogin, DeviceCode, BrowserLogin, Providers

`Broker` (internal/auth/broker.go, errors.go) has no state: an answer is a
status and what the body holds, `postRSTSGrant` and `exchangeRSTSToken` turn it
into an error or none, `translateAuthError` into the public error.

`BrokerLogin` (pkce.go:96-321, credentials.go:184-299, broker.go:61-99,
browsere2e.go:37-85) runs one login: password, certificate, headless PKCE, or
the loopback URL a browser test builds from the same form steps.

| Variables | Code |
|---|---|
| `pc`, `sent` | the next call, and the last request with its fields and cookies |
| `demanded`, `accepted` | whether the primary step named a second factor; the steps the appliance accepted |
| `jar`, `given` | pkceForm.cookies; what the appliance last gave, which is what a step should carry |
| `base` | the base form, which the steps share and must not change |
| `live`, `deferred` | byte buffers with secrets, and those a deferred call wipes |

The actions are the steps in order: `FormInit`, `FormPrimary`, `FormSecondInit`,
`FactorCallback`, `FillSecond`, `FormSecondAuth`, `FormClaims`, `Grant`, `Exchange`,
`NewSession`; each takes any answer. A 203 is a success for every step but the one that sends
the second factor, where it is the rejection (pkce.go:212-222):
`ClaimsNeedSecondFactor` would not survive its being read as the others are.
`StepsCarryTheSession` and `SecretsWiped` are the other two.

`SecretsWiped` is about the buffers a login makes for the password, the verifier,
the one-time code, the RSTS token and the user token (`Wiped`): on every way out
they are wiped, none before it was used, and the code before the form that carries
it is sent. The code does not wipe everything (`Unwiped`): postJSON leaves the body
it marshals and the answer it reads (broker.go:165, 182), with a password or a token
in them; the answer of the claims step stays too; and the Secret that the caller's
factor callback returns is copied and not zeroed (credentials.go:285-289). The
property says that nothing but these outlives a login. Go strings, which nobody
can wipe, are left out.

`DeviceCode` (devicecode.go:97-142, interactive.go:172-294) has a discrete clock.
`Tick` advances it, but not past the end of a wait, a call (at most `MaxCall`) or
a prompt (`MaxPrompt`): this bounds how late a step may come. The user decides
(`Decide`, at the time `decided`) and the appliance answers a poll by what the user
had done when it arrived, which is at some moment of the call: pending, or pending
and slower (`PollSlowDown`, RFC 8628), only to a poll that may have arrived before
the decision (`Undecided`). Or it fails. `PollsInTime` joins the distance between
polls, at most one poll after the deadline (a wait that began before it is finished,
interactive.go:236), and what that late poll is good for: a login that gives up by
itself was last answered at the deadline or after it, and an approval given longer
than one call before the deadline is not missed, however long the interval. The
mutant begins no wait that would end after the deadline. Intervals 0 (unset), 1
and 3 and lifetimes 0 (unset, 7) and 3 cover a lifetime shorter than, equal to and
longer than an interval.

`BrowserLogin` (browser.go:94-222, interactive.go:85-131) has three kinds of
actors: Connect, the goroutine that serves the loopback port, and a handler for
each request that reaches it. The port is bound before the goroutine that serves it
runs (`serving`: bound, then on with `ServeStarts`); a login that closes the server
in between leaves the port bound until the goroutine enters Serve and gives it back
(closing, then ended). Requests may be the redirect, a repeated one with
another code, or one without a code. The select of wait takes any case that is
ready, so a code that arrived may be dropped for an error or the context; what the
code does promise is that no later code takes the place of the first.
`FirstCodeRedeemed` is that (with `ListenerClosed`: a login that returned serves no
request any more); `LoginsEnd` says that no handler waits for a reader, that the
context releases the login and that its port is free in the end (`PortFreed`). Three requests and two codes put two requests into
the channels of one and a third after them.

`Providers` (providers.go) is pure: `matchProvider`, `resolveScope` and
`resolveProviderID` over every list of up to two providers, with ids and names of
up to two letters in either case, against `LookupIsExact`: an exact match wins,
and the password and the PKCE login agree.

`MCLogins` puts the four into one instance with a variable `way`: they share no
state, and a behaviour runs one of them. Its fairness is theirs: goroutines run,
timers fire, calls end.

### A2A

a2a.go:93-646. A call is `Begin`, then `Check` (the closed flag), `Send` (the
request reaches the appliance or not, and its answer is good, refused, garbled or
lost) and a `Receive`, for discovery once more for each registration. An
administrator changes registrations, accounts and the password in between
(`Change`), and the context may be closed (`Close`).

`always`, `ever` and `held` are history: what was retrievable throughout, and at
some moment of the call, and which passwords the account had. `DiscoveryIsTrue`
(complete, nothing invented, nothing on failure), `EffectOnce` and
`RetrievedWasStored` are stated with them. An answer is lost before or after
the appliance acted; the library does not retry, which the mutant of
`EffectOnce` does.

*Bounds.* Two callers, so that one may set a password while the other retrieves
it, and two registrations, so that the second may be refused or vanish after the
first was read. Filters, request bodies and the SSH and API-key variants of the
same calls are the data these abstract.

### SecretBuffers

secret.go and its holders: credentials.go:184-299 and 505-524, connect.go,
client.go:121-176, refresh.go:108-132, token.go, events.go:391-420. A Secret is a
Go value, so copies share an array; NewSecret and Expose copy it; Zero wipes
it under every holder. `heap` says what each array holds; a variable per holder
says which array it has.

`NeededSecretsSurvive`: whatever the caller wipes, the credential, the session's
token and the tokens of requests that have yet to make their header are intact.
`NothingLeftInClear`: what the library copied is held by somebody, or wiped, or is
a displaced session token, which the library leaves to the garbage collector
because requests may hold it (client.go:143-148, refresh.go:124-131), or, of a
credential that is a token, the copy that credentials.go:246 exposes, copies into
the session and forgets (`forgotten`, `EstablishToken`): the property names the
exception and says that a password credential has none. JSON bodies and answers are
not Secrets; `BrokerLogin` has them. Seven
arrays are enough for all holders at once; `Collect` frees what nobody holds.

### Provisioning and GrantSetting

`Provisioning` (internal/livetest/livetest.go:177-672) runs tests one after the
other against one appliance. A plan is a sequence of steps, each creating an
object or none; its deferred cleanup is a sequence of deletions. Any call may be
refused, lost, or answered without an Id, and a test may be killed (`Kill`). The
appliance deletes no object another one refers to, and trusts no certificate
twice. `Refers` has every reference livetest.go:484-486 names: of account, policy,
registration and broker entry to the asset, the account, the role and the users. An
answer that is JSON but has no Id fails every step but one: the certificate user's is
taken for Id 0 (livetest.go:208-213), and the test goes on with a user nobody will
delete (`CertUserWithoutId`). `TrackedTornDown`: once the cleanup is in place, the
objects known are deleted whatever failed, unless an object whose Id never arrived
refers to them. The mutant deletes the account before the registration. `RerunNotBlocked`: the certificate of a killed test, the
only object without a random name, does not make the next one fail.

`GrantSetting` (livetest.go:120-153, 674-729): the tests of a package read the
list of grants, write a changed one, and put the original back.
`SettingRestored` holds when one package runs at a time, which is the instance
checked; section 4 has the other case.

## 3. What is proved

The theorems hold for every value of the constants that the assumptions named
below allow, of which TLC evaluates each one on every run of its module. Every
safety and action property the passing runs check is a theorem. The general
argument is the same each time: an inductive invariant, checked by TLC before it
was proved, holds at first and is kept by every action; what the property says
follows from it, or from one step taken where it holds. The invariant stands at
the head of the module that proves it.

### The session

`SessionProofs`: for every set of callers, every `MaxCalls` in Nat, every set of
call kinds and every set of tokens that may lapse (`MaxCallsAssumption`,
`CallKindsAssumption`, `ExpirableAssumption`).

`TypeCorrect`, `RefreshIsSingleFlight`, `OneSuccessPerGeneration` and
`WipedTokensAreUnused` follow from `Invariance`: `Spec => []IInv`. None of the
four is inductive alone.

* `TypeOK` bounds the requests of a call by two; that Dispatch keeps the bound
  needs "a call that is not in flight has sent at most one" (`CallerInv`).
* `SingleFlight` needs that a leader's operation exists (`joined` is not
  `NoOp`) and is the one in flight, so that an empty `inflight` means no leader.
* `OneLoginPerGeneration` needs the session to have moved past the generation of
  every operation that succeeded (`OpsInv`); for the one being settled this
  comes from its leader, who either published or saw the session move
  (`LeaderInv`). Ended sessions lead no refresh, because a call in refreshOnce
  saw epoch 1 (`CallerInv`) and an ended cell has epoch 0 (`CellInv`).
* `WipedNeverUsed` needs that the token a leader is about to publish or drop is
  newer than any the cell or a request has held (`LeaderInv`).

The step lemma (`NextIInv`) splits into three families: a goroutine outside
doRefresh leaves the cell and the outcomes alone (`Quiet`); the leader inside
doRefresh may mint, wipe its own token and move the cell forward (`Leading`);
and the few steps that create or settle an operation, end the session or
connect have lemmas of their own.

`EndedStaysEnded` and `GenerationsAdvance` are action properties. Every step
leaves the cell as it was, connects, ends it for good or renews it by one
generation (`CellSteps`), and the steps that load a token into a request load
the one of that cell (`AuthSteps`).

`OutcomesAreShared`, `ReplaysAreBounded` and `RenewalIsTransparent` follow from
`CallInvariance`: `Spec => []CallInv`, which adds to `IInv` what a call knows:

* `OutcomeInv`: a `done` that is closed belongs to an operation no longer in
  flight, and a leader about to return has the operation's outcome in hand;
* `ReplayInv`: a cell that a call saw ended stays ended; a call in refreshOnce
  that saw the version the cell still has finds it refreshable; and a replay is
  built from a session that was renewed (its request carries the second token or
  a later one) or from one that has ended;
* `RenewedInv`: the first renewal brings the second token, and a live cell has a
  generation;
* `KindInv`: which calls may stand at which label, and that an upload sends one
  request at most.

*Refinement.* `PromiseIsKept`: `Spec => ImplementsPromise`. The phase and the
generation of `SessionPromise` are functions of the cell, `renewing` the
generation of the operation whose leader is inside doRefresh. `Publish` is
`Renew`, because the leader's generation is the cell's when its compare-and-swap
succeeds; `LeadRefresh` or `StartLogin` begins a renewal where the cell still has
the generation it was led for; the other ways out of doRefresh abandon it; and
every other step leaves cell, phase and leader alone (`NextPromise`).

`ListenersSeeItEnd`: `Spec => ImplementsEventSession`. `PersistentListener` does
not run against module `Session` but against `EventSession`, three values and one
action; this theorem is what justifies that. Its auth callback reads two things,
`closed` and then the cell; a Close between the two is what `EventSession` calls a
Logout followed by a Close.

### The listeners

`EventServeProofs` has the lemmas both listeners need: each step of a connection
takes its record from one of the right shape to another (`ReadLoopStep`,
`DispatcherStep`), never back from `returned` and never opening one
(`ConnsAssumption`, `CapacityAssumption`, `MaxEventsAssumption`). `ShapeInv` and
`DrainInv` say how the parts of a connection go together: the batch is the last
events that arrived, in their order; the channel is open until the read loop
closes it, and the dispatcher leaves it closed and empty; and only a cancellation
leaves events of a batch, or a dispatcher, behind.
`Appears` and `ConnAppears` say which step of the feed each step of a connection
is.

`ListenerProofs` proves `TypeCorrect`, `RunsAreExclusive`, `DoneKeepsTheError` and
`StopReachesTheAttempt` from one inductive invariant:

* `StartInv`: a Start owns its attempt alone until it closes its done, and an
  attempt that still connects is the latest and the listener is marked started;
  so two cannot connect at once;
* `ClaimInv`: what Stop reads is the latest attempt exactly while the listener is
  started; so a Stop that saw an attempt waits for that one (`StopInv`);
* `OpenInv`: only the latest attempt ever has a connection, because a listener
  that connected never starts again; so no later run overwrites `err`;
* `ServedInv`: done of a connected attempt closes after its error was recorded.

`PersistentProofs` proves `TypeCorrect`, `AtMostOneLateConnection` and
`EndsForAReason`, with `RunInv` (only the last connection runs, and only while the
loop serves), `EndInv` (an error means that the session is gone; no error at the
end means a cancellation) and `LateInv` (after one late connection the loop is
past its dial, and every later authorization fails). `LoopBacksOff`, an action
property, needs `LevelInv`: a loop that authorizes has slept a whole wait since its
last dial, and one that checks has, or is being stopped (`RestInv`); and the last
wait is the one of the attempt before, or the cap (`LastInv`). `BackoffTable` says
that each delay of reconnectBackoff is the double of the one before it up to sixty
seconds. It assumes that attempts are counted at least to the cap
(`MaxLevelAssumption`).

*Refinement.* `FeedIsKept` of both modules is `Spec => ImplementsFeed`. The state
of `EventFeed` is read off the latest connection (`Seen`). A step of any other
connection does not show, because that one has returned and holds nothing
(`DrainInv`, with `OpenInv` or `LatestInv`); a step of the latest one takes, hands
over or abandons an event in order (`ConnFeeds`); a new connection opens only
when nothing of the old one runs (`DialFeeds`); and the phase falls only as the
feed allows (`PhaseFeeds`).

### A2A

`A2AProofs` proves `TypeCorrect`, `EffectsHappenOnce`, `DiscoveryIsComplete` and
`RetrievedIsCurrent` for every set of callers, registrations, accounts and
passwords (`OpsAssumption`, `BoundsAssumption`, and `RegsAssumption`: the request
that lists registrations is not a registration). Completeness is not inductive:
`ListInv` says that every account retrievable so far is gathered, or belongs to
the registration asked for now or to one still to ask for, and `ListAnswer` that
the answer on its way holds those of its registration; `SeenInv` ties the history
to the present. `EffectInv` does the same for effects.

### TransportPools

`PoolsProofs` proves `PoolTypes`, `PoolsStayCurrent` and `WindowsStayUsable` from
`PoolsInv`, for any number of goroutines and uses and any set of versions of
which unset is one and no other is above TLS 1.3 (`MaxUsesAssumption`,
`VersionsAssumption`, `KnownVersions`). What a pool was built with is compared
with what is installed now:

* `CacheInv`: a cached pool was built for its slot, the cached clientCert pools
  with the certificates now installed, and a closed set caches none;
* `TrustInv`: a serverTrust pool carries no certificates and is the only one of
  its slot, cached until the set closes;
* `GoroutineInv`: a request holds, or still wants, one pool; a login needs two,
  looks the clientCert pool up last and finds the certificates it installed;
* `WindowInv`: every pool negotiates from the minimum to the maximum of an
  accepted configuration, or to the cap of clientCertMaxTLS.

### SecretBuffers

`SecretProofs` proves `SecretTypes`, `SecretsSurvive` and `NothingIsLeft` from
`SecretsInv`, for any two or more arrays and any number of requests and
generations (`BuffersAssumption`, `NoneAssumption`: no array is the one nobody
has, and `MaxGenAssumption`). Survival is not inductive: a wipe reaches every
holder of an array, so the invariant says which holders may share one
(`HoldersApart`: none do, but for a caller and the listener that was given its
key), what a request borrows (`RequestsBorrow`: the listener's key, the session's
token or one displaced since) and what is in clear (`ContentsInv`). `LoginHolds`
ties what a login holds to its stage. `NothingLeftInClear` is part of the
invariant: the same partition, read the other way round, with the forgotten copies
of a token credential as a part of their own.

*Refinement.* `SecretsKeepThePromise`: this session is the one of `Session` with
everything but its arrays left out. Both implement `SessionPromise`; here
`EstablishPassword` and `EstablishToken` begin a renewal, `Publish` starts or renews the session, and a login
that fails or is superseded abandons it. The array the session hands to requests
changes with `Start`, `Renew` and `End` of the promise, and in no other step.
TLC checked the two formulas on the instance of `secret_hold` with one request.

### The logins

`SequentialProofs` takes the four ways to log in as `MCLogins` composes them
(`LoginAssumption`): `LoginsInvariance` is the conjunction of an invariant for
each, kept by its own steps and, unchanged, by the others'.

* `FormInv` (`BrokerLogin`): the jar is what the appliance gave (`JarInv`); no
  step that claims a token was sent, or is next, before the second factor
  demanded was accepted (`OrderInv`); every buffer alive has a deferred call that
  wipes it, but for a code about to be copied into its form and those the code
  leaves, and the token a step is to use is among them (`WipeInv`). Each of
  the five form steps is one case of `FormStepInv`. `ClaimsWaitForTheFactor`,
  `LoginsLeaveNoSecret` and the action property `FormsCarryTheSession` follow.
* `DeviceInv` (`DeviceCode`): the interval is the first pace plus one `Increment`
  for each slow_down (`PaceInv`); a wait begins before the deadline and the clock
  does not pass its end, a poll that came too late is the last, and the check of
  the deadline follows an answer at once (`PhaseInv`). A check at or after the
  deadline knows that the user had not decided before the call it follows
  (`DecisionInv`), because only a poll that may have arrived before the decision is
  answered pending; this is what `PollsKeepTime` says of expiry. It holds for every
  interval, lifetime, delay and number of slow_downs.
* `BrowserInv` (`BrowserLogin`): until a code is redeemed the channel holds the
  first one it took, and afterwards that is the one redeemed (`CodeInv`), for any
  number of requests; the listener opens once and a login that returned serves
  nobody (`ServeInv`). `FirstCodeIsRedeemed`.
* `LookInv` (`Providers`): `LookupsAreExact`, for lists, ids and names of every
  length, from a lemma on the first entry of the first pass (`FirstPass`) and the
  existence of a least number.

### The live tests

`SequentialProofs` again, for `MCLiveTests` (`LiveTestsAssumption`):
`LiveInvariant` joins an invariant of `Provisioning`, for any number of tests
(`MaxRuns`) and of calls that fail (`MaxFaults`), and one of `GrantSetting`, for
any first list. TLC checked both on the instance of `live_tests`.

* `TornDownWhenTracked`. While a test provisions, the step it has reached says
  what is there: the deferred cleanup and the admin's client from the seventh
  step on, the admin from the fifth (`ProvisionInv`), so that every cleanup starts
  with the means to finish (`BodyInv`, `TeardownStart`). A cleanup at its k-th
  deletion has left, of what it passed, only objects something else refers to
  (`DownTo`, `TeardownInv`); what still refers to them at the end is an object whose
  Id never arrived. The next deletion keeps that because of the order of
  the list (`CleanupFacts`): what refers to an object comes before it, so a
  referrer found earlier is not what is deleted now; and what the admin deletes
  comes before the admin and its client (`DownOne`). Every object a plan creates
  is in its list (`CreatedPlanned`).
* `NeverBlocked`. When the certificate is to be uploaded none is there, unless its
  deletion was lost (`ProvisionInv`).
* `SettingAlone`, under `OnePackage`: there is one package. `RestoreInv` says that
  the list is the first one but while a test's body runs, when it is that list
  with the grant applied, and that what will be put back is the first one. Two
  packages break it, as section 4 says. `ApplyFacts` is what applyGrant returns:
  distinct names, with the grant if and only if it was to be enabled.
  `WithoutFacts`, about a pass over a list of any length, goes by induction
  without the library's induction theorems: a set of numbers with 0 and every
  successor is Nat, because the numbers outside it would have a least one
  (`Succession`).

### Only model-checked

Liveness under fairness (`CallsReturn`, `CanceledWaiterLeaves`, `ListenerEnds`,
`LoopEnds`, `Reconnects`, `ClosedConnectionsEnd`, `LoginsEnd`) and ENABLED (in
`ContextGovernsTheWait`) are out of the prover's reach and stay with TLC. So do
the three expected violations of section 4, which are counterexamples. No safety
or action property of a passing run is among them.

## 4. Where the code and its comments part

* `ContextGovernsTheWait` (run `ctx`). refresh.go:50-52: "The caller's context
  only governs how long this caller waits". The caller that leads the refresh
  waits for the login whatever its context says (refresh.go:77, 85).
* `HandlerStopEnds` (run `listener_handler`). events.go:167-169: Stop is safe
  "from within an event handler (a handler that calls Stop does not deadlock".
  When the connection ended by itself while the context was live, serve already
  waits for the handlers to drain (events_signalr.go:283-285); a handler that
  then calls Stop waits for Done, which closes only after serve returns. Neither
  ever moves.
* `ListenerKeySurvives` (run `secret_listener`). credentials.go:514-516: the
  library keeps a copy "so a caller zeroing its own Secret cannot later disturb
  material the SDK still needs". An A2A listener keeps the caller's own apiKey
  (events.go:403-404, 411-420): wiped by the caller, it is what every later
  connection sends.

Noticed while modelling, with no run of their own:

* send loads the cell twice (refresh.go:176, 182), so a request may carry a token
  of a later version than the one its 401 is judged by, or none after a Logout.
  The properties of `calls` hold all the same.
* After Stop returned, handlers may still start: a closed channel yields what it
  buffers (events_signalr.go:280-282).
* The reconnecting listener is exposed to the Stop of a handler in the same way
  (events.go:307-321); `LoopEnds` has the hypothesis for it.
* An error without a status is a TransportError to the caller even when an
  answer came, such as one without a code (pkce.go:174); a status of 3xx leaves
  the internal type in the chain (credentials.go:498).
* The last pass of matchProvider takes the first id that contains the identifier,
  so that the appliance's order decides between several (providers.go:104).
* A device-code poll may begin after the deadline, by less than one interval
  (interactive.go:236).
* Any request without a code that reaches the loopback port ends the browser
  login (browser.go:188).
* What a login sends and reads as JSON, with the password or a token in it, the
  Secret a factor callback returns, and the copy a token credential exposes are
  wiped by nobody (broker.go:165, 182; credentials.go:246, 285-289).
* The dial of the reconnecting listener has no timeout of its own
  (transport.go:228-246, events_signalr.go:225): under a silent appliance neither the
  end of the session nor a retry reaches the loop, only Stop or the context.
* A certificate user whose answer has no Id is taken for user 0 and stays on the
  appliance (livetest.go:208-213).
* A provisioning that fails before the temporary admin is connected may leave
  what it created (livetest.go:296).
* Grant tests of two packages that go test runs in parallel may restore a list
  without the other's change, or leave it changed (livetest.go:130).

## 5. Plan

Done: every module of section 2, their runs, and the theorems of section 3, among
them the two compositions: the session with its listeners (`EventSession`) and
with the holders of its tokens (`SessionPromise`). What could follow:

1. *Grants of two packages*: what the harness could promise of tests that toggle
   the setting in parallel, if it were to lock it (livetest.go:130).
2. *Logout and refresh*: which token a Logout revokes when a refresh publishes a
   newer one before the swap (client.go:128), as a property of `Session`.

## 6. Not modelled

* *Options, services, responses and errors* (options.go, service.go, response.go,
  errors.go beyond `newAPIError`): construction, URL joining, JSON and formatting,
  with no state; no property tells their detail apart.
* *Request bodies* of A2A and of invoke.go: field-by-field encoding, such as
  wire() of BrokeredAccessRequest. Whether a body can be sent again is modelled
  (`Replayable`).
* *SignalR*: the handshake's wire form, record splitting and decoding, and
  keep-alive pings, which change no state of the listener.
* *TLS*: trust, renegotiation and certificate parsing; the version window is
  modelled.
* *Encrypted PKCS#8* and key parsing: cryptography, out of TLC's reach.
* *Live-test trust helpers*, *samples* and *pipelines*: not part of the library.

`PROJECT.json` lists every component with its status and every hazard with the
properties that cover it, or why none does.
