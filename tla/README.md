# Tealpine in TLA+

Tealpine is a proxy for MCP servers: it keeps one connection to each upstream
server, serves their tools, resources and prompts on HTTP endpoints of its own,
authenticates and authorises the callers, and logs in to upstreams that ask for
it. This directory holds a model of its concurrent core, what TLC checks of it
and what TLAPS proves about it. Every definition is translated from the Go
source; `PROJECT.json` ("map") names the lines.

## 1. Inventory

| Component | Source | State | Operations |
|---|---|---|---|
| Upstream client | `pkg/client/client.go` | session, isConnected, isClosed, loginRequired, authInfo, bearer token, last event, event channel, signal channel | Start, keepConnect, connectLoop, init, ping, execute (every request), setDisconnected, SetBearerToken, Close, WaitForEvent |
| Proxy | `pkg/proxy/proxy.go` | handlers of the MCP server, registry of registered names per client, one watcher goroutine per upstream | Init, watchClientEvents, refreshHandlers, ClearAll, set-up of tools, resources, templates, prompts |
| Token store | `pkg/auth/token_store.go` | `tokens.json` | Load, Save, Delete |
| Session stores | `pkg/auth/session.go` | sessions with expiry and OAuth state, in memory; one store per authenticator and one for upstream logins | Create, Get, Delete, StoreOAuthState, GetOAuthState, clean-up goroutine, cookies |
| Upstream login | `pkg/server/upstream_auth_handlers.go` | the stores above, authInfo of the client | HandleLogin, HandleCallback |
| Browser login | `pkg/server/auth_handlers.go`, `pkg/auth/oidc_provider.go` | the session store of the admin endpoint's authenticator | HandleLogin, HandleCallback, HandleLogout |
| Authenticator | `pkg/auth/authenticator.go` | token table, a session store of its own | middleware |
| Authorizer | `pkg/auth/authorizer.go`, `admin.go` | groupings and policies, made once | authorize, filter lists, admin check |
| Upstream OIDC | `pkg/auth/upstream_oidc.go` | none | probe, discover, register |
| Server | `pkg/server/server.go` | clients, proxies | Init, WaitForClients, Run, Stop, status |
| Configuration, CORS, metadata, main | `pkg/config`, `cors.go`, `metadata_handlers.go`, `cmd/tealpine` | none at run time | parsing, headers, start-up |

How they interact. The server creates a client per upstream and a proxy per
endpoint. A proxy calls its clients (every request goes through `execute`) and
waits for their events, which are broadcast by closing a channel. A request or a
ping that fails calls `setDisconnected`, which signals `keepConnect` over a
second channel; so does `SetBearerToken`, called by the callback of an upstream
login. A request to an endpoint passes an authenticator and the authorizer of this
endpoint; the two kinds of login share one cookie, and no session store. All goroutines of a client share its fields under one mutex, with two
exceptions: `init` runs without it, and reads the token without it.

What is hard, and what must hold nevertheless:

* Client: `init`, `ping`, any number of requests, logins and `Close` interleave;
  failures are reported long after they happened; signals are non-blocking sends
  that are lost if nobody receives. No session may be leaked or overwritten, no
  failure may hit another session than its own, a dead session must be found out
  and replaced, and shutdown must end the goroutines.
* Proxy: events are lost on who does not wait; a refresh works list by list and
  may fail between two; several watchers write to one MCP server. The registry
  must be exact, upstreams must not disturb one another, and the proxy must serve
  what the upstream lists.
* Token store: a crash at any point must leave either the old or the new file;
  no update may be lost; a token must be found again after a restart.
* Upstream login: a callback acts on the state its own login stored and on the
  current authInfo; a login that was offered can be completed.
* Browser login, authenticator: who has logged in is admitted, and nobody else;
  an expired or deleted session is not.
* Authorizer: the decision is the one the rules of the user's groups spell out, and
  a filtered list has exactly the items a call would be allowed for.

`PROJECT.json` lists the hazards, each at its line, with the properties for them.

## 2. Modules

| Module | Composes | Abstract specification | Checked | Proved |
|---|---|---|---|---|
| `UpstreamClient` | | `SessionLifecycle` | safety, refinement, liveness | safety, refinement (`UpstreamClientProofs`) |
| `ProxyRefresh` | the events of a client, abstracted | | safety, liveness | safety; where `ForwardsOriginal` fails (`ProxyRefreshProofs`) |
| `TokenStore` | | `TokenMap`: a map from names to tokens, updated atomically | safety, refinement, liveness | safety, refinement (`TokenStoreProofs`) |
| `UpstreamLogin` | `TokenStore` (as the atomic map it implements), session store, the client's login state | | safety | safety (`UpstreamLoginProofs`, `UpstreamLoginCauseProofs`) |
| `OidcLogin` | login handlers, session stores of all authenticators, the cookie shared with upstream logins | | safety | safety (`OidcLoginProofs`, `OidcLoginCauseProofs`) |
| `Access` | configuration checks, authenticator, authorizer, admin check, the middleware of an endpoint | the rules read literally (`May`) | safety | all of it (`AccessProofs`) |

`MCUpstreamClient`, `MCProxyRefresh`, `MCTokenStore`, `MCUpstreamLogin`,
`MCOidcLogin` and `MCAccess` give the constants values for TLC.

## 3. UpstreamClient

One variable per field of `Client`; one record per goroutine (`keeper`,
`pinger`, `call[c]`, `login[l]`) with the stage it is at and what it holds in
local variables; and the upstream (`connections`, `open`, `broken`, `valid`).
Sessions are numbered as they are opened. An action is the code between two
points where another goroutine can run: one critical section, or one network
call. The stages of `keeper` follow `keepConnect` → `connectLoop` → `init` →
`handleUpstreamAuthRequired`:

    getSession -> connectLoop -> init -> [probe] -> transport -> connect -> install -> emitConnected -> select
                       delay <----------------------------/
                       discover -> setLogin -> emitLogin -> select

Notable points of the translation:

* `SignalKeeper` is the non-blocking send on an unbuffered channel: it has an
  effect only if `keepConnect` is in its select.
* Installing a session and emitting Connected are two critical sections, as are
  setting loginRequired and emitting LoginRequired.
* `SetBearerToken` writes the token in one step and clears the login in the next,
  with the mutex held (`MutexFree` blocks the others), because `init` reads the
  token without the mutex. A read during the write may return `Torn`.
* A connection error counts as a 401 if its text contains "401" (`Mentions401`).
* `Close` closes the session and keeps `session` and `isConnected`, as the code
  does; `init` may still install a session afterwards and reset `isClosed`.
* A caller whose context ends leaves; any other error is retried and after three
  failures reported. All errors of the upstream are alike, as they are in the code.
* Abstracted: time (timers may fire at any moment), the contents of requests, the
  three kinds of list_changed events (one here), `lastError` (written, never read).

`SessionLifecycle` is what the client promises: one session at a time, opened
only when there is none, published once, dropped only after a request on that
very session has failed.

### Runs

| Run | Instance | Shows |
|---|---|---|
| `client` (Client.cfg) | ping, keepConnect, 1 caller, 2 logins, 1 token, 1 failure | TypeOK, NoSessionLeak, SessionInv, OnlyFailedSessionDropped, LifecycleSpec; BrokenSessionDropped, BrokenSessionReplaced, StoredTokenConnects, KeeperSettles, GoroutinesStop |
| `client_reconnect` (ClientReconnect.cfg) | stdio upstream, no callers, 1 failure | Reconnects is violated |

`MaxFaults` bounds the failures an upstream causes: a session that breaks, a token it
no longer takes. One gives two sessions, which is what a late failure needs: one it was
made on, and one that replaced it, which a wrong `setDisconnected` would drop. Ping and
a caller are two that may report the failure of one session. Two logins are needed for a
signal to reach `keepConnect` while it serves a session, and for `init` to read the token
of one login while the other's is being written (`Torn`). The theorems of section 9 have
no bounds; liveness is checked with these. Symmetry is not used, since the run checks
liveness.

Fairness is weak fairness of `keepConnect`, of `ping`, and of each call and login
callback once it has begun: goroutines are scheduled, timers expire, network
calls end (the code bounds ping by five seconds; `Connect` and requests end
with an error at the latest when the connection does). Nothing is assumed of
callers, logins, `Close` or the upstream. `BrokenSessionReplaced` and
`StoredTokenConnects` start from a parked `keepConnect`, because without this they
do not hold: see below.

### Findings

* `Reconnects` (README.md:150). `setDisconnected` runs between the publication of
  a session and the select of `keepConnect`; its signal is dropped, `keepConnect`
  parks without a session, and nobody will ever signal again.
* The same send is at the end of `SetBearerToken` (client.go:169), so a token that is
  stored while `keepConnect` is still on its way from the 401 to its select is not
  used either, although the comment at client.go:160 says that `SetBearerToken`
  "signals reconnect". `StoredTokenConnects` is what does hold: of a token stored
  while `keepConnect` is parked.

## 4. ProxyRefresh

The upstreams (`offer`), their clients as the proxy sees them (`connected`,
`initResult`, `lastEvent`, and the two events still to be emitted: `announce` for
Connected, `changed` for list_changed), one `watcher` per upstream entry, the
handlers of the MCP server (`served`) and the `registry`. An action of a watcher
is: take the event channel (`Subscribe`), read the last event and clear (`Wake`),
send one list request (`Request`), register its answer (`Register`), or fail
(`RequestFails`). Names and URIs are short sequences of letters, because two
properties are about what the prefixes do to them; "://" is one letter.

* A broadcast wakes who waits (`WokenBy`), and what a woken watcher reads is the
  last event, not the one that woke it.
* The answer to a list request is what the upstream lists when it is sent; a later
  answer is the same as a later request. Each list has one page.
* A request whose session is lost fails, also if the client has another session
  by then; a request that fails takes the session down.
* `Init` works through the entries one by one; a failure there ends the program
  (`Running`), since `main` exits.
* The entries of a list are registered in one step: the watchers of other clients
  work on other names of the registry, and each entry has a client of its own in
  the instances.

| Run | Instance | Shows |
|---|---|---|
| `proxy_watch` (ProxyWatch.cfg) | two upstreams, three lists on the first and one on the second, 1 change, 1 failure | TypeOK, RegistryMatchesServed, OthersUntouched, WokenRefreshes |
| `proxy_template` (ProxyTemplates.cfg) | one upstream behind a multi endpoint, one template with a scheme | ForwardsOriginal is violated |
| `proxy_lost_event` (ProxyLostEvent.cfg) | one upstream, one tool, 1 change | EventDuringRefreshHandled is violated |

The bounds of `proxy_watch`: the first upstream has three lists so that a refresh
can fail before, between and after them; both upstreams list a tool of the same
name, kept apart by the prefixes; one change and one failure are enough for a
refresh to be overtaken by either. The initial lists are arbitrary. Fairness:
clients reconnect and deliver their events, watchers run; upstreams need not
change or fail.

`WokenRefreshes` is what holds of freshness: a watcher that was waiting when the
event came brings the proxy up to date. What the code intends beyond that does
not hold:

* `EventDuringRefreshHandled` (comment at proxy.go:288-289). The check at the end
  of the loop continues with `WaitForEvent` like the other branch; an event that
  was broadcast during the refresh is lost.
* `OthersUntouched` is checked with prefixes that keep names apart. With the prefixes
  "a" and "a_b", which the configuration accepts, the tools b_x and x get one name,
  and the set-up of one upstream takes the tool of the other away (README.md:45:
  "prefixed to avoid collisions").
* `ForwardsOriginal` (comment at proxy.go:232-233: "we need to pass the original"). For a
  template s://x the handler trims `prefix_` off the front of s://prefix/x, where it is
  not, and asks the upstream for s://prefix/x. For tools, resources and prompts the
  handler has the original in a variable, and for a template without a scheme trimming
  is right; theorem `ForwardedExactly` says that the templates with a scheme, which most
  URI templates have, are the only ones that fail, and that all of them do. `proxy_watch` has
  such a template too; its properties are about who serves what, and when.

## 5. TokenStore

`file` is `tokens.json` (absent, malformed, or a map), `temps` the number of
temporary files beside it, `locked` the mutex; each caller has a stage, a request
and the map it holds in memory. One action per file operation, in the order of
`Save`: `Lock`, `ReadFile`, `CreateTemp`, `WriteTemp`, `Rename`. `Load` ends with
`ReadFile`; `Delete` differs from `Save` in the entry it writes (`Updated`).
Reading, parsing, creating, writing, closing and renaming may each fail
(`FailsEarly` before there is a temporary file, `FailsLate` after, which removes
it); every return unlocks (`Ends`). `Crash` ends the process at any point and
keeps the files. Abstracted: what a token is; who may open the file. Taken for
granted: `os.Remove` succeeds (the code does not look at its result), one process
uses the file (the server makes one store), and what has been renamed stays
renamed: loss of power is not modelled, the code does not fsync. The initial file
may be malformed but is not the JSON `null`, which the program never writes.

`TokenMap` is what the callers may rely on: each call takes effect at one moment
between its beginning and its return, or fails and has no effect; a crash forgets
the calls and not the map. A malformed file is a map no call can read. The moment
is the reading for `Load` and the rename for the others.

| Run | Instance | Shows |
|---|---|---|
| `token_store` (TokenStore.cfg) | 2 callers, 2 names, 1 token, 1 crash | TypeOK, StoreInv, LitterOnlyAfterCrash, MapSpec, CallsReturn |

Two callers and two names are what a lost update needs: one entry saved between
the read and the write of the other. One token and "no token" are two values an
entry may have. One crash, after which calls go on. Initial files are arbitrary.
Fairness: file operations end (`Works`), and whoever waits for the mutex gets it
if it is free again and again (`SF` of `Lock`), because `sync.Mutex` is handed to a
waiter after a millisecond. Callers need not call.

## 6. UpstreamLogin

A `flow` is one login of one browser at one upstream: the request handled by
`HandleLogin`, the visit to the authorization server, and the request handled by
`HandleCallback`. Its record has the stage it is at and the handler's local
variables; an action is the code between two points where another goroutine can
run. Around it: the browsers' `cookie`, the session store (`sessions`),
`tokens.json` (`stored`, changed in one step because `TokenStore` implements
`TokenMap`), and of each client `cfg.Bearer`, `loginRequired`, `authInfo` and the
stage of `keepConnect`. What a login makes bears its name: the session it creates,
its state with its PKCE verifier, the client it registers, its token.

* `authInfo` is a pointer, and `HandleLogin` writes the client_id into the record it
  points to; so records have an identity (`infos`, an index is a pointer), and a
  handler that holds a pointer sees what others write.
* A response reaches the browser in a step of its own (`Respond`, `Finish`): cookies
  may arrive in another order than the handlers ran.
* The authorization server takes a code from the client it was issued to
  (`Exchange`), and refuses no user but by failure.
* `Restart` loses everything but `stored`, the cookies, and the browsers that are at
  the authorization server; it loads tokens and not client_ids, as `Server.Init`.
* A save that fails is ignored (`SaveFails`), as the code does.
* Abstracted: expiry of tokens (an upstream may refuse a token at any time), texts,
  HTTP status codes (one stage per kind of refusal), the discovery requests.

| Run | Instance | Shows |
|---|---|---|
| `login_safety` (LoginSafety.cfg) | 2 logins, 2 browsers, 2 upstreams (one with a configured client_id), 1 failure; symmetric | TypeOK, LoginInv, RefusedHasRival, LoginSucceeds |
| `login_persist` (LoginPersist.cfg) | 2 logins, 2 browsers, 1 upstream, no failure | TokenPersists is violated |
| `login_retry` (LoginRetry.cfg) | 1 login, 1 failure | RetryHelps is violated |

Which browser and which upstream a login is of is not fixed: the two may share
either, both or none. `MaxFailures` bounds failures, expiries, refused tokens and
restarts together. `RefusedHasRival` says that a login alone with its browser and
its upstream is never turned away. `LoginSucceeds` says that of several users who log in
to one upstream at a time, and register clients that overwrite each other, one gets it a
token: when all have ended and one was let through, there is one. No fairness is
assumed: browsers may stop at any point, and all properties are safety.

`LoginSucceeds` is about different browsers. Two logins of one browser may both be
refused: each makes a session, and the cookie that arrives last need not be the one
of the login whose client_id is written last.

Findings:

* `RetryHelps` (comment at client.go:479). The discovery that `HandleLogin` repeats is
  not given to the client, so the callback finds no authInfo.
* `TokenPersists` (README.md:294). `HandleLogin` saves the client_id it has registered
  in a record with nothing else in it (upstream_auth_handlers.go:101). A second login
  that finds this client_id in the shared record may be through before that save, which
  then replaces the record with the token. The token works until the process ends and is
  gone after a restart.

## 7. OidcLogin

`req` has one record per HTTP request of a browser: its stage, the session whose
cookie it carries, what its answer sets. A login is one request that comes back: the
request to `/auth/login`, the visit to the identity provider (`authorizing`), and the
callback. The other kinds are a callback that is called up `again` (a reload), a
login at an `upstream` (with what it does to sessions and cookies alone), a `logout`,
and a `visit` to a site, that is an MCP endpoint or the admin endpoint. `cookie` is
what each browser has; `sessions` are all stores together, each session naming its
store. A session is named after the request that made it.

| Action | Code |
|---|---|
| `FindSession`, `StoreState` | `HandleLogin` of auth_handlers.go, up to the redirect |
| `FindUpstreamSession`, `StoreState` | the same lines of upstream_auth_handlers.go |
| `CheckState`, `Exchange`, `DeleteOld`, `CreateSession` | `HandleCallback`, one step per access to the store or the network |
| `Logout` | `HandleLogout` |
| `Visit` | `checkSession` of the site's authenticator, for a caller with a cookie only |
| `Deliver` | the answer reaches the browser, with its cookie |
| `Expire`, `CleanupExpired`, `CookieExpires` | expiry and sweep; only `GetSession` looks at the age |
| `Restart` | all stores and requests under way are lost; the provider may be set up or not |

| Run | Instance | Shows |
|---|---|---|
| `oidc` (OidcLogin.cfg) | 3 requests, 2 browsers, 1 user who is let in and 1 who is not, 1 endpoint, 1 failure; symmetric | TypeOK, OidcInv, SessionsReachable, RefusedHasCause, LogoutHolds |
| `oidc_endpoint` (OidcEndpoint.cfg) | 1 login, 1 visit | SessionAdmits is violated |

Three requests are a login, one that overlaps it and one that sees what came of both
(a logout and a visit; a repeated callback; a login at an upstream). `MaxLogins`
bounds logins (2), because a login has the most stages; `MaxFailures` bounds failures,
lost answers, expiries and restarts together, and a provider that could not be set up
when the server started counts as one. No fairness is assumed: browsers may stop at
any point, and all properties are safety.

`OidcInv` has three parts: a session, its cookie and its state belong to one browser;
a session of a user exists only where this user has agreed at the identity provider,
was let in, and in one copy, though its callback be called up again; and a visit is
admitted as such a user only. `SessionsReachable` is what a user relies on who logs
out: a session that lives is the one in the cookie. It has exceptions, which are named:
overlapping requests of the browser, and a login at an upstream, whose callback clears
the cookie that the two share. `LogoutHolds` has none.

Finding: `SessionAdmits` (README.md:284). The authenticator of an MCP endpoint has a
session store of its own that nothing is ever put in, so the session cookie opens the
admin endpoint and no other.

Abstracted: PKCE and what is in a token; which site asked for the login (the code
always redirects to "/"); random ids do not repeat.

## 8. Access

One request, in one configuration, at one site. `config` is a configuration
that `Valid` accepts; `userTokens`, `groupings` and `policies` are what
`NewAuthenticator` and `NewAuthorizer` make of it; `session`, `header` and `site` are
the request; `at` is how far it has come. The stages follow `authenticateUser`
(`session`, `header`, `jwt`, `introspect`, `static`), then the middlewares of the MCP
server (`authorize`, `handle`, `filter`) or the admin check. Names, methods and
patterns are sequences of words, so that `calc_*` has a prefix to match.

* The identity provider knows the `Subject` of a token, or cannot be reached: both
  checks may fail for any token.
* Two users with one static token: the map keeps either (`TokenTables`), by the order
  in which Go walks the map of users.
* No rule at all, or groups without rules, means that everything is allowed
  (`RulesEnabled`); rules without authentication mean that everything is denied,
  because no user is in the context, handshakes included.
* The name in a list request is empty, so a rule that allows `tools/list` for
  `calc_*` does not allow the list: only `*` or an empty pattern does. The example at
  README.md:233-235 expects otherwise, a filtered list for its readers; they get an
  error. `May` reads the rule as the code does, so no property is about it.
* The groups of a JWT are extracted and dropped (authenticator.go:171, 188), although
  README.md:206 and 285 say that they are matched against the rules: a user who is in no
  configured group has no rights. The model has no groups but the configured ones, as
  the code; the claim could not even be stated in it.
* The filter waits for `resource_templates/list`; the method is
  `resources/templates/list`, so templates are listed unfiltered. `ListedIsUsable`
  leaves that list out.
* Abstracted: claims and their names (a token has a user or none, never an empty user
  name), subscriptions and completion, which are authorized like reading. The SDK is
  taken to pass the context of the HTTP request on to the middlewares.

| Run | Instance | Shows |
|---|---|---|
| `access` (Access.cfg) | all configurations of up to 2 users, 2 groups, 5 rules, each kind of `auth`; 4 tokens, 3 people | TypeOK, IdentityProved, TokenHelps, ListedIsUsable |

The configurations have users without a token of their own (two with one), groups
that are empty or overlap, rules with no method, no name, wildcards in either, and
none at all; the third person is known to the identity provider and not configured.
Every request ends after at most ten steps; no fairness is assumed.

## 9. Proofs

`UpstreamClientProofs` proves, for every set of callers, logins and tokens and
every `MaxFaults`, from `ConstantsAssumption` alone:

* `TypeCorrect`: Spec => []TypeOK
* `Invariance`: Spec => [](TypeOK /\ SessionInv)
* `NoLeak`: Spec => []NoSessionLeak
* `Implements`: Spec => LifecycleSpec, the refinement of `SessionLifecycle`
* `LateFailureHarmless`: Spec => OnlyFailedSessionDropped

The argument. `NoSessionLeak` alone is not inductive: `InstallSession` overwrites
`session`, which is harmless only if there is none. So `SessionInv` adds
`NothingToOverwrite` (inside `connectLoop` the client has no session), which holds
because `keepConnect` is the only goroutine that installs one and it looks before
it enters; that the session to be installed is the newest and open; and that the
signal moves `keepConnect` only out of its select. `OnlyFailedSessionDropped`
needs `DisconnectHasCause` (who is about to call `setDisconnected` for a session
has seen a request on it fail) and the comparison of sessions in `Stale`.
`SessionInv` is also checked by TLC in `client`.

The types are proved per goroutine (`KeeperTypes`, `PingTypes`, ...), then the
sessions (`SessionPart`) and the requests under way (`RequestPart`), each with one
step per action; `LifecycleStep` maps every action to one of the life cycle or to
a stutter.

`TokenStoreProofs` proves, for every set of callers, names and tokens and any
number of crashes, from `StoreAssumption` alone (the marks Absent, Malformed,
NoToken, NoRequest are not maps, tokens or requests):

* `TypeCorrect`: Spec => []TypeOK
* `Consistent`: Spec => []StoreInv
* `NoLitter`: Spec => []LitterOnlyAfterCrash
* `Implements`: Spec => MapSpec, the refinement of `TokenMap`

The argument. The mutex is held by exactly the one caller inside the critical
section, so nobody changes the file between a caller's reading and its rename;
hence what it holds is the content with its own entry changed (`NothingStale`),
and the rename is `TokenMap`'s update of the map as it is at that moment. That a
caller that writes or renames has a temporary file (`temps > 0`) is part of the
invariant because removing one must not make `temps` negative, so types and
invariant are proved together. A caller that leaves was alone (`Alone`), which
settles what the invariant says of the others.

`AccessProofs` proves, for all users, tokens, configurations, rules and names, from
`AccessAssumption` alone (what the constants are, and that the marks None and
Malformed are not among them):

* `TypeCorrect`: Spec => []TypeOK
* `Proved`: Spec => []IdentityProved
* `TokensOpen`: Spec => []TokenHelps
* `ListsAgree`: Spec => []ListedIsUsable

The argument. The invariant `AccessInv` adds to the types what was made of the
configuration (`Made`), what the request may carry (`Asked`), who the user can be at
each stage (`Identity`), and what has been served so far (`Served`). Its core is the
lemma `EnforceIsMay`: the matcher over `policies` and `groupings` agrees with the rules
read literally, for every user, method and name. It needs that an empty method becomes
`*`, and that `*` matches every sequence; without the first, TLC finds the difference.
A list is filtered with the same matcher that decides a call, which gives
`ListedIsUsable`: list and calls agree with the rules, and so with each other.

`OidcLoginProofs` proves, for any browsers, requests, users and endpoints and any number
of logins and failures, from `OidcAssumption` alone:

* `TypeCorrect`: Spec => []TypeOK
* `SessionsRight`: Spec => []OidcInv
* `LogoutFinal`: Spec => LogoutHolds

The argument. Every step but `Restart` changes one request at most, and no request
forgets whose it is, which user has agreed and how it has ended (`Moves`, `Keeps`).
`Fits` says what a request is at each stage, `Linked` that a callback called up again is
one of a login of the same browser. `OidcInv` is not inductive: that a login makes one
session needs that its code is spent when it is let through (`Earned`), that a session
is of one browser needs where cookies and requests have ids from (`Owned`), and that it
has its user rightly needs the request that made it, which has answered (`Backed`).
`LogoutFinal` rests on `LoggedOutGone`: the session of a request that is logged out
has no user. `CreateSession` cannot give it one, since the id it uses is fresh: who
knows the id of a user's session knows it from the answer (`Known`), and a request that
creates one has not answered. `Inv`, their conjunction, was checked by TLC on the
instance of `oidc` before it was proved.

`OidcLoginCauseProofs` proves, from the same assumption, what a user who waits for the
answers may rely on as long as nothing fails:

* `SessionsStayReachable`: Spec => []SessionsReachable
* `RefusalsHaveCause`: Spec => []RefusedHasCause

The argument. `CauseInv` says of every browser whose requests have not overlapped and
that has not logged in to an upstream (`Patient`) that it is `Orderly`: one request of it
is handled at a time; a session with a user is in its cookie, or in the answer under way
(`UserReachable`); the session of the cookie exists or is being replaced, so a login finds
one to put its state into (`CookieExists`, `LoginFinds`); a callback is called up once
until its code is exchanged (`CalledOnce`); and the state of the only login stays where
the login has put it (`StateKept`). A browser that is patient after a step was so before
it. A step of another browser changes no session and no cookie of this one, for a session
is written by requests that know its id; a step of its own happens while its other
requests wait. So each action has a lemma about the browser it belongs to, and one
argument serves all the other browsers. `CauseInv` was checked by TLC before it was
proved, with three requests of two browsers and with four of one.

`ProxyRefreshProofs` proves, for any clients, watchers, naming strategies and items and
any number of changes and faults, from `ProxyAssumption`:

* `TypeCorrect`: Spec => []TypeOK
* `RegistryExact`: NamesApart implies Spec => []RegistryMatchesServed
* `RefreshIsolated`: NamesApart implies Spec => OthersUntouched
* `ForwardedExactly`: Spec => []ForwardsExactly

`NamesApart` says that the prefixes keep the names of different upstreams apart, which
the code does not ensure (section 4 has prefixes that do not); `PrefixesApart` of
`MCProxyRefresh` makes TLC evaluate it for the prefixes of `proxy_watch`. The argument.
Every handler served is one that `setupProxyHandlersWithStrategy` makes of an item
(`Proper`), so its name tells its upstream, and by `NamesApart` two upstreams share no
name. Clearing by the names of a registry therefore removes the handlers of one upstream
and no others (`ClearsServed`), and registering replaces none of another's
(`AddsServed`). `Matching` carries the registry through both.

`ForwardsExactly` says of every handler that it passes on what the upstream has listed
if and only if it is not one of a template with a scheme behind a multi endpoint. Without
a scheme the transformed URI is the prefix followed by the URI (`PlainIsPrefixed`), and
trimming a prefix off such a sequence leaves the rest (`TrimmedPrefix`,
`PlainForwarded`). With a scheme, if the prefix is not in front, nothing is trimmed and
the URI is too long; if it is, the trimmed one has a "/" where the original has the end
of its scheme (`SchemeMoved`, `SchemeLost`).

`UpstreamLoginProofs` proves, for any browsers, logins and upstreams and any number of
failures, from `LoginAssumption` alone:

* `TypeCorrect`: Spec => []TypeOK
* `LoginsRight`: Spec => []LoginInv

The argument. A step moves one login at most, and no login forgets its browser and its
upstream once it has begun (`Moves`). `Fit` says what a login has at each stage.
`LoginInv` is not inductive: that a client_id is saved for the upstream it was registered
with needs that a discovery record is used for one upstream only (`InfosApart`: records
are numbered afresh, so a pointer held over `handleUpstreamAuthRequired` still points to
its own upstream's record); that a state is used up needs that it is in one session, from
`StoreState` until `DeleteSession`, and that it is still the session `CheckState` found it
in (`StatesUnique`). `Inv`, their conjunction, was checked by TLC on the instance of
`login_safety` before it was proved.

`UpstreamLoginCauseProofs` proves, from the same assumption, what holds as long as
nothing has failed:

* `RefusalsHaveRivals`: Spec => []RefusedHasRival
* `OneSucceeds`: Spec => []LoginSucceeds

The argument. Both properties speak of how a login has ended; the invariant `CauseInv`
says what must hold on the way there, as long as `failures` is 0. Then a client asks for
a login only while it has no token, and once (`AsksOnce`), so the record of its discovery
stays the one the logins were sent away with. A login that has its browser for itself
finds the session it made, with its own state, and the cookie; one without any rival
also finds the record with its client_id, and a client that still waits (`Undisturbed`):
who changes a session shares the browser, who changes a record shares the upstream, and
either is a rival. `Courses` is what logins of one upstream that overlap have in common
as long as its client has no token: they hold the same record, one that is refused for
the client_id is so because another has registered a client since, and the one that
registered the client that is in the record is still on its way (`OnCourse`). So when
all have ended and one was let through, none of them can be the last to have registered,
unless it brought the token. `NothingFails` reduces the steps to those that are no
failure; each part has a lemma per action, and those of one login and of all the others
are kept apart (`SessionUntouched`, `RecordTurns`). What holds of sessions and records
when something has failed is in `LoginInv`.

Only model-checked: the liveness and leads-to properties (BrokenSessionReplaced,
BrokenSessionDropped, StoredTokenConnects, KeeperSettles, GoroutinesStop, WokenRefreshes,
CallsReturn), since liveness under fairness is outside the prover's reach,
and the properties of the runs that expect a violation. Every invariant and every action
property of a passing run is stated by a theorem; `RegistryMatchesServed` and
`OthersUntouched` under a hypothesis about prefixes that the code does not ensure, the
others without one.

## 10. Not modelled

* CORS and metadata, main: nothing a state model could tell apart.
* Of the configuration: reading YAML, variables of the environment, defaults, the
  checks of URLs and transports.
* Of the server: `Run`, `Stop` and the status pages; `WaitForClients` and
  `WaitForConnection`, which only tests call.
* Of the upstream's discovery and registration: the documents and their fallbacks; the
  models have the outcomes.
* Pagination: each list has one page.
* The MCP SDK, Casbin, the operating system and the identity providers, which appear
  as outcomes only. That `session.Close` is called with the mutex held may matter if
  the SDK waits there for its notification handlers: this depends on code outside the
  repository.
* Texts, logging and HTTP layout.
* Choices without consequence: after a cancel, `PingTimer` and `Delay` always see
  `ctx.Done`, where Go's `select` may take a timer that is ready too; `NewAuthorizer`'s
  skip of a group with an empty name.
