--------------------------- MODULE UpstreamLogin ---------------------------
(***************************************************************************)
(* Logging in to upstreams (pkg/server/upstream_auth_handlers.go): a       *)
(* browser asks for a login, is sent to the authorization server with a    *)
(* state that its session holds, and comes back with a code, which the     *)
(* callback exchanges for the upstream's token.  Several logins overlap,   *)
(* of one upstream or of one browser, with the client that asks for them,  *)
(* the token store (atomic: see TokenMap), the session store and restarts. *)
(* What a login makes bears the login's name: its session, its state with  *)
(* the PKCE verifier, the client it registers and the token it is issued.  *)
(***************************************************************************)
EXTENDS Naturals, Sequences

CONSTANTS
    Flows,         \* The logins.
    Browsers,
    Names,         \* The names of upstreams; all of them require a token.
    Configured,    \* Those with a client_id in the configuration.
    ConfiguredId,  \* It.
    OldToken,      \* The token an earlier run of the program has stored.
    None,          \* No id, token, session, state.
    MaxFailures    \* Bound: failures, expiries and restarts.

ASSUME LoginAssumption ==
    /\ Configured \subseteq Names
    /\ {ConfiguredId, OldToken, None} \cap Flows = {}
    /\ ConfiguredId # None /\ OldToken # None
    /\ None \notin Browsers \cup Names
    /\ MaxFailures \in Nat

VARIABLES
    flow,           \* Each login: its stage, and what it holds in local variables.
    cookie,         \* Each browser: the session it has a cookie of.
    sessions,       \* The session store.
    stored,         \* tokens.json.
    bearer,         \* The clients' cfg.Bearer,
    loginRequired,  \* loginRequired
    authInfo,       \* and authInfo: nil (0), or an index of
    infos,          \* the UpstreamAuthInfo records that were allocated: their ClientID.
    keeper,         \* How far keepConnect of each client is,
    connected,      \* and isConnected.
    failures

clientVars == <<bearer, loginRequired, authInfo, keeper, connected>>
vars == <<flow, cookie, sessions, stored, clientVars, infos, failures>>

Ids == Flows \cup {ConfiguredId, None}
Tokens == Flows \cup {OldToken, None}

\* A request for a login and its callback are handled stage by stage; then how
\* it ended.
LoginStages == {"check", "getInfo", "discover", "readId", "register", "saveId", "session",
                "storeState", "redirect", "respond"}
CallbackStages == {"callback", "callbackInfo", "exchange", "saveToken", "setBearer", "signal",
                   "delete", "finish"}
UsesInfo == {"readId", "register", "saveId", "session", "storeState", "redirect", "exchange",
             "saveToken"}
Refusals == {"notRequired", "forbidden", "noInfo", "rejected"}
Stages == {"idle", "authorizing", "done", "failed"} \cup LoginStages \cup CallbackStages
          \cup Refusals

Idle == [at |-> "idle", browser |-> None, name |-> None, session |-> None,
         made |-> FALSE, info |-> 0, id |-> None]

Init ==
    /\ flow = [f \in Flows |-> Idle]
    /\ cookie = [b \in Browsers |-> None]
    /\ sessions = [s \in Flows |-> [life |-> "none", state |-> None]]
    /\ stored \in [Names -> [token : {OldToken, None}, id : {None}]]
    /\ bearer = [n \in Names |-> stored[n].token]
    /\ loginRequired = [n \in Names |-> FALSE]
    /\ authInfo = [n \in Names |-> 0]
    /\ infos = <<>>
    /\ keeper = [n \in Names |-> "trying"]
    /\ connected = [n \in Names |-> FALSE]
    /\ failures = 0

-----------------------------------------------------------------------------
At(f, stage) == flow[f].at = stage
Goes(f, stage) == flow' = [flow EXCEPT ![f].at = stage]
GoesWith(f, stage, info) == flow' = [flow EXCEPT ![f].at = stage, ![f].info = info]
Fails == failures < MaxFailures /\ failures' = failures + 1

(***************************************************************************)
(* The client, as far as logins see it (UpstreamClient has the rest).      *)
(***************************************************************************)

\* The non-blocking send on errorCh: keepConnect, if it is parked, looks whether
\* there is a session.
Awake(n) ==
    keeper' = IF keeper[n] = "parked"
                THEN [keeper EXCEPT ![n] = IF connected'[n] THEN "leaving" ELSE "trying"]
                ELSE keeper

\* The upstream answers 401: it has been sent no token, or refuses the one it was sent.
Refused(n) ==
    /\ keeper[n] = "trying"
    /\ bearer[n] # None => failures < MaxFailures
    /\ failures' = failures + (IF bearer[n] = None THEN 0 ELSE 1)
    /\ keeper' = [keeper EXCEPT ![n] = "asking"]
    /\ UNCHANGED <<flow, cookie, sessions, stored, bearer, loginRequired, authInfo, infos,
                   connected>>

\* handleUpstreamAuthRequired: no client is registered without a redirect URL.
Asks(n, info) ==
    /\ keeper[n] = "asking"
    /\ authInfo' = [authInfo EXCEPT ![n] = info]
    /\ loginRequired' = [loginRequired EXCEPT ![n] = TRUE]
    /\ keeper' = [keeper EXCEPT ![n] = "leaving"]
    /\ UNCHANGED <<flow, cookie, sessions, stored, bearer, connected>>
AskLogin(n) ==
    /\ infos' = Append(infos, IF n \in Configured THEN ConfiguredId ELSE None)
    /\ Asks(n, Len(infos) + 1)
    /\ UNCHANGED failures
DiscoveryFails(n) == Asks(n, 0) /\ Fails /\ UNCHANGED infos

Connect(n) ==
    /\ keeper[n] = "trying" /\ bearer[n] # None
    /\ keeper' = [keeper EXCEPT ![n] = "leaving"]
    /\ connected' = [connected EXCEPT ![n] = TRUE]
    /\ UNCHANGED <<flow, cookie, sessions, stored, bearer, loginRequired, authInfo, infos,
                   failures>>

Park(n) ==
    /\ keeper[n] = "leaving"
    /\ keeper' = [keeper EXCEPT ![n] = "parked"]
    /\ UNCHANGED <<flow, cookie, sessions, stored, bearer, loginRequired, authInfo, infos,
                   connected, failures>>

Lose(n) ==
    /\ connected[n]
    /\ Fails
    /\ connected' = [connected EXCEPT ![n] = FALSE]
    /\ Awake(n)
    /\ UNCHANGED <<flow, cookie, sessions, stored, bearer, loginRequired, authInfo, infos>>

(***************************************************************************)
(* HandleLogin.                                                            *)
(***************************************************************************)
Begin(f) ==
    /\ At(f, "idle")
    /\ \E b \in Browsers, n \in Names :
           flow' = [flow EXCEPT ![f] = [Idle EXCEPT !.at = "check", !.browser = b, !.name = n,
                                                    !.session = cookie[b]]]
    /\ UNCHANGED <<cookie, sessions, stored, clientVars, infos, failures>>

CheckLogin(f) ==
    /\ At(f, "check")
    /\ Goes(f, IF loginRequired[flow[f].name] THEN "getInfo" ELSE "notRequired")
    /\ UNCHANGED <<cookie, sessions, stored, clientVars, infos, failures>>

GetInfo(f) ==
    LET info == authInfo[flow[f].name]
    IN  /\ At(f, "getInfo")
        /\ GoesWith(f, IF info = 0 THEN "discover" ELSE "readId", info)
        /\ UNCHANGED <<cookie, sessions, stored, clientVars, infos, failures>>

\* Discovery is tried again, with registration; the client does not get the result.
Rediscover(f) ==
    /\ At(f, "discover")
    /\ infos' = Append(infos, IF flow[f].name \in Configured THEN ConfiguredId ELSE f)
    /\ GoesWith(f, "readId", Len(infos) + 1)
    /\ UNCHANGED <<cookie, sessions, stored, clientVars, failures>>

ReadId(f) ==
    /\ At(f, "readId")
    /\ Goes(f, IF infos[flow[f].info] = None THEN "register" ELSE "session")
    /\ UNCHANGED <<cookie, sessions, stored, clientVars, infos, failures>>

\* The new client_id is written to the record that all logins of the upstream share.
RegisterInCopy(f) ==    \* Mutant: to a copy of it.
    /\ At(f, "register")
    /\ infos' = Append(infos, f)
    /\ GoesWith(f, "saveId", Len(infos) + 1)
    /\ UNCHANGED <<cookie, sessions, stored, clientVars, failures>>
Register(f) ==
    /\ At(f, "register")
    /\ infos' = [infos EXCEPT ![flow[f].info] = f]
    /\ Goes(f, "saveId")
    /\ UNCHANGED <<cookie, sessions, stored, clientVars, failures>>

SaveId(f) ==
    /\ At(f, "saveId")
    /\ stored' = [stored EXCEPT ![flow[f].name] = [token |-> None, id |-> f]]
    /\ Goes(f, "session")
    /\ UNCHANGED <<cookie, sessions, clientVars, infos, failures>>

\* The session of the cookie, if it still exists, or a new one.
FindSession(f) ==
    LET s == flow[f].session
        found == s # None /\ sessions[s].life = "live"
    IN  /\ At(f, "session")
        /\ IF found
             THEN Goes(f, "storeState") /\ UNCHANGED sessions
             ELSE /\ sessions' = [sessions EXCEPT ![f] = [life |-> "live", state |-> None]]
                  /\ flow' = [flow EXCEPT ![f].at = "storeState", ![f].session = f,
                                          ![f].made = TRUE]
        /\ UNCHANGED <<cookie, stored, clientVars, infos, failures>>

\* The response reaches the browser, with the cookie of a new session.
GetsResponse(f) ==
    cookie' = IF flow[f].made THEN [cookie EXCEPT ![flow[f].browser] = flow[f].session]
                              ELSE cookie

StoreState(f) ==
    /\ At(f, "storeState")
    /\ sessions[flow[f].session].life # "none"
    /\ sessions' = [sessions EXCEPT ![flow[f].session].state = f]
    /\ Goes(f, "redirect")
    /\ UNCHANGED <<cookie, stored, clientVars, infos, failures>>

SessionLost(f) ==
    /\ At(f, "storeState")
    /\ sessions[flow[f].session].life = "none"
    /\ GetsResponse(f)
    /\ Goes(f, "forbidden")
    /\ UNCHANGED <<sessions, stored, clientVars, infos, failures>>

\* The client_id goes into the authorization URL.
Redirect(f) ==
    /\ At(f, "redirect")
    /\ flow' = [flow EXCEPT ![f].at = "respond", ![f].id = infos[flow[f].info], ![f].info = 0]
    /\ UNCHANGED <<cookie, sessions, stored, clientVars, infos, failures>>

CookieForgotten(f) ==    \* Mutant: a new session's cookie is not set.
    /\ At(f, "respond")
    /\ Goes(f, "authorizing")
    /\ UNCHANGED <<cookie, sessions, stored, clientVars, infos, failures>>
Respond(f) ==
    /\ At(f, "respond")
    /\ GetsResponse(f)
    /\ Goes(f, "authorizing")
    /\ UNCHANGED <<sessions, stored, clientVars, infos, failures>>

(***************************************************************************)
(* The authorization server and HandleCallback.                            *)
(***************************************************************************)

\* The user agrees; the browser comes back with a code, the state of its login
\* and the cookie it has by now.
Authorize(f) ==
    LET s == cookie[flow[f].browser]
    IN  /\ At(f, "authorizing")
        /\ flow' = [flow EXCEPT ![f].session = s,
                                ![f].at = IF s = None THEN "forbidden" ELSE "callback"]
        /\ UNCHANGED <<cookie, sessions, stored, clientVars, infos, failures>>

\* GetOAuthState takes a session that has expired but is still there.
StateMatches(f) ==
    LET s == sessions[flow[f].session] IN s.life # "none" /\ s.state = f
CheckState(f) ==
    /\ At(f, "callback")
    /\ Goes(f, IF StateMatches(f) THEN "callbackInfo" ELSE "forbidden")
    /\ UNCHANGED <<cookie, sessions, stored, clientVars, infos, failures>>

InfoUnchecked(f) ==    \* Mutant: authInfo is used though it may be nil.
    /\ At(f, "callbackInfo")
    /\ GoesWith(f, "exchange", authInfo[flow[f].name])
    /\ UNCHANGED <<cookie, sessions, stored, clientVars, infos, failures>>
CallbackInfo(f) ==
    LET info == authInfo[flow[f].name]
    IN  /\ At(f, "callbackInfo")
        /\ GoesWith(f, IF info = 0 THEN "noInfo" ELSE "exchange", info)
        /\ UNCHANGED <<cookie, sessions, stored, clientVars, infos, failures>>

\* The authorization server takes a code from the client it was issued to.
Exchange(f) ==
    /\ At(f, "exchange")
    /\ Goes(f, IF infos[flow[f].info] = flow[f].id THEN "saveToken" ELSE "rejected")
    /\ UNCHANGED <<cookie, sessions, stored, clientVars, infos, failures>>

SaveToken(f) ==
    /\ At(f, "saveToken")
    /\ stored' = [stored EXCEPT ![flow[f].name] = [token |-> f, id |-> infos[flow[f].info]]]
    /\ Goes(f, "setBearer")
    /\ UNCHANGED <<cookie, sessions, clientVars, infos, failures>>

SetBearer(f) ==
    LET n == flow[f].name
    IN  /\ At(f, "setBearer")
        /\ bearer' = [bearer EXCEPT ![n] = f]
        /\ loginRequired' = [loginRequired EXCEPT ![n] = FALSE]
        /\ authInfo' = [authInfo EXCEPT ![n] = 0]
        /\ Goes(f, "signal")
        /\ UNCHANGED <<cookie, sessions, stored, infos, keeper, connected, failures>>

Signal(f) ==
    /\ At(f, "signal")
    /\ UNCHANGED connected
    /\ Awake(flow[f].name)
    /\ Goes(f, "delete")
    /\ UNCHANGED <<cookie, sessions, stored, bearer, loginRequired, authInfo, infos, failures>>

SessionKept(f) ==    \* Mutant: the session is not deleted.
    /\ At(f, "delete")
    /\ Goes(f, "finish")
    /\ UNCHANGED <<cookie, sessions, stored, clientVars, infos, failures>>
DeleteSession(f) ==
    /\ At(f, "delete")
    /\ sessions' = [sessions EXCEPT ![flow[f].session] = [life |-> "none", state |-> None]]
    /\ Goes(f, "finish")
    /\ UNCHANGED <<cookie, stored, clientVars, infos, failures>>

\* The response clears the cookie.
Finish(f) ==
    /\ At(f, "finish")
    /\ cookie' = [cookie EXCEPT ![flow[f].browser] = None]
    /\ Goes(f, "done")
    /\ UNCHANGED <<sessions, stored, clientVars, infos, failures>>

(***************************************************************************)
(* Failures.                                                               *)
(***************************************************************************)

\* Discovery, registration (or the server offers none), the user's consent or the exchange.
NetworkFails(f) ==
    /\ flow[f].at \in {"discover", "register", "authorizing", "exchange"}
    /\ Fails
    /\ Goes(f, "failed")
    /\ UNCHANGED <<cookie, sessions, stored, clientVars, infos>>

\* A failed Save is logged, and the login goes on.
SaveFails(f) ==
    /\ At(f, "saveId") \/ At(f, "saveToken")
    /\ Fails
    /\ Goes(f, IF At(f, "saveId") THEN "session" ELSE "setBearer")
    /\ UNCHANGED <<cookie, sessions, stored, clientVars, infos>>

\* After 24 hours GetSession no longer finds a session; some time later it is swept.
Expire(s) ==
    /\ sessions[s].life = "live"
    /\ Fails
    /\ sessions' = [sessions EXCEPT ![s].life = "expired"]
    /\ UNCHANGED <<flow, cookie, stored, clientVars, infos>>

CleanupExpired(s) ==
    /\ sessions[s].life = "expired"
    /\ sessions' = [sessions EXCEPT ![s] = [life |-> "none", state |-> None]]
    /\ UNCHANGED <<flow, cookie, stored, clientVars, infos, failures>>

\* Server.Init: the stored tokens are loaded, the client_ids are not.  A browser
\* that is at the authorization server keeps its cookie and comes back.
Restart ==
    /\ Fails
    /\ flow' = [f \in Flows |->
                    [flow[f] EXCEPT !.info = 0,
                                    !.at = IF @ \in LoginStages \cup CallbackStages
                                             THEN "failed" ELSE @]]
    /\ sessions' = [s \in Flows |-> [life |-> "none", state |-> None]]
    /\ bearer' = [n \in Names |-> stored[n].token]
    /\ loginRequired' = [n \in Names |-> FALSE]
    /\ authInfo' = [n \in Names |-> 0]
    /\ infos' = <<>>
    /\ keeper' = [n \in Names |-> "trying"]
    /\ connected' = [n \in Names |-> FALSE]
    /\ UNCHANGED <<cookie, stored>>

-----------------------------------------------------------------------------
Login(f) ==
    \/ CheckLogin(f) \/ GetInfo(f) \/ Rediscover(f) \/ ReadId(f) \/ Register(f) \/ SaveId(f)
    \/ FindSession(f) \/ StoreState(f) \/ SessionLost(f) \/ Redirect(f) \/ Respond(f)

Callback(f) ==
    \/ Authorize(f) \/ CheckState(f) \/ CallbackInfo(f) \/ Exchange(f) \/ SaveToken(f)
    \/ SetBearer(f) \/ Signal(f) \/ DeleteSession(f) \/ Finish(f)

Keeper(n) == Refused(n) \/ AskLogin(n) \/ Connect(n) \/ Park(n)

Next ==
    \/ \E f \in Flows : \/ Begin(f) \/ Login(f) \/ Callback(f) \/ NetworkFails(f) \/ SaveFails(f)
                        \/ Expire(f) \/ CleanupExpired(f)
    \/ \E n \in Names : Keeper(n) \/ DiscoveryFails(n) \/ Lose(n)
    \/ Restart

Spec == Init /\ [][Next]_vars

-----------------------------------------------------------------------------
(***************************************************************************)
(* Properties.                                                             *)
(***************************************************************************)
\* (A nil authInfo is not dereferenced either.)
TypeOK ==
    /\ flow \in [Flows -> [at : Stages, browser : Browsers \cup {None}, name : Names \cup {None},
                           session : Flows \cup {None}, made : BOOLEAN,
                           info : 0 .. Len(infos), id : Ids]]
    /\ cookie \in [Browsers -> Flows \cup {None}]
    /\ sessions \in [Flows -> [life : {"none", "live", "expired"}, state : Flows \cup {None}]]
    /\ stored \in [Names -> [token : Tokens, id : Ids]]
    /\ bearer \in [Names -> Tokens]
    /\ loginRequired \in [Names -> BOOLEAN]
    /\ authInfo \in [Names -> 0 .. Len(infos)]
    /\ infos \in Seq(Ids)
    /\ keeper \in [Names -> {"trying", "asking", "leaving", "parked"}]
    /\ connected \in [Names -> BOOLEAN]
    /\ failures \in 0 .. MaxFailures
    /\ \A f \in Flows : flow[f].at \in UsesInfo => flow[f].info # 0

\* A session belongs to one browser: its cookie, the logins that use it and the
\* one whose state it holds are all of this browser.
SessionsApart ==
    /\ \A b \in Browsers : cookie[b] # None => flow[cookie[b]].browser = b
    /\ \A f \in Flows : flow[f].session # None
           => flow[flow[f].session].browser = flow[f].browser
    /\ \A s \in Flows : sessions[s].state # None
           => flow[sessions[s].state].browser = flow[s].browser

\* A token is used for, and stored for, the upstream whose login it was issued to.
TokensApart ==
    \A n \in Names, f \in Flows :
        bearer[n] = f \/ stored[n].token = f \/ stored[n].id = f => flow[f].name = n

\* A login that has completed has taken its state away.
StateSpent == \A f, s \in Flows : flow[f].at \in {"finish", "done"} => sessions[s].state # f

\* Both, and what they rest on: authInfo is there only while a login is required,
\* a client that is connected does not connect again, and no browser is sent away
\* without a client_id.
LoginInv ==
    /\ SessionsApart
    /\ TokensApart
    /\ StateSpent
    /\ \A n \in Names : authInfo[n] # 0 => loginRequired[n]
    /\ \A n \in Names : connected[n] => keeper[n] \in {"leaving", "parked"}
    /\ \A f \in Flows : flow[f].at = "authorizing" => flow[f].id # None
    /\ \A f \in Flows : flow[f].at # "idle" <=> flow[f].browser \in Browsers

Rivals(f, g) ==
    /\ g # f
    /\ flow[g].browser = flow[f].browser \/ flow[g].name = flow[f].name

\* A login whose browser and upstream have no other one is never turned away,
\* unless something has failed: whatever it has stored, it finds again.
RefusedHasRival ==
    \A f \in Flows : flow[f].at \in {"forbidden", "noInfo", "rejected"} /\ failures = 0
        => \E g \in Flows : flow[g].at # "idle" /\ Rivals(f, g)

\* README.md:293, "Provide a login URL [...] for users to authorize": of several
\* users who log in to one upstream at a time, one gets it its token, although
\* they register different clients for it and some are turned away in the end.
\* (They use different browsers, and nothing fails.)
LetThrough(f) == flow[f].at \notin {"idle", "check", "notRequired"}
Ended(f) == flow[f].at \in {"idle", "done", "failed"} \cup Refusals
SharesBrowser(f) ==
    \E g \in Flows \ {f} : flow[g].at # "idle" /\ flow[g].browser = flow[f].browser
LoginSucceeds ==
    failures = 0 /\ (\A f \in Flows : Ended(f) /\ (LetThrough(f) => ~SharesBrowser(f)))
        => \A f \in Flows : LetThrough(f) => bearer[flow[f].name] # None

\* README.md:294, "Persist and reuse access tokens across restarts (stored in
\* tokens.json)": a restart finds a token for every client that has one, whatever
\* other logins write to its record.  (No Save has failed.)
TokenPersists == \A n \in Names : bearer[n] # None /\ failures = 0 => stored[n].token # None

\* The comment of handleUpstreamAuthRequired: after a failed discovery, "discovery
\* can be retried from the login handler".  A login that was let through ends for
\* want of authInfo only if the client needs no login any more.
RetryHelps == \A f \in Flows : flow[f].at = "noInfo" => ~loginRequired[flow[f].name]

=============================================================================
