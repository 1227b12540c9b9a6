----------------------------- MODULE OidcLogin -----------------------------
(***************************************************************************)
(* Logging in to Tealpine itself (pkg/server/auth_handlers.go) and what a  *)
(* session is good for: browsers log in, come back from the identity       *)
(* provider, reload, visit endpoints and log out, with requests that       *)
(* overlap and answers that get lost.  Every Authenticator has a session   *)
(* store of its own: one per MCP endpoint, one for the admin endpoint and  *)
(* the login handlers (server.go); the login of upstreams has another, and *)
(* they all share one cookie.  UpstreamLogin has the rest of that login.   *)
(***************************************************************************)
EXTENDS Naturals, FiniteSets

CONSTANTS
    Requests,     \* What browsers ask for; a login comes back as its callback.
    Browsers,
    Kinds,        \* Bound: which of the kinds of requests below they make.
    Endpoints,    \* The MCP endpoints.
    Admin,        \* The authenticator of the admin endpoint and of the login handlers.
    Upstream,     \* The session store of the login of upstreams.
    Users,        \* Those who may agree at the identity provider,
    Allowed,      \* and those of them MapUserFromClaims takes.
    Cleared,      \* What ClearSessionCookie sends.
    None,         \* No session, cookie, user, request.
    MaxLogins,    \* Bound: logins, to Tealpine and to upstreams.
    MaxFailures   \* Bound: failures, lost answers, expiries and restarts.

Sites == Endpoints \cup {Admin}
AllKinds == {"login", "again", "upstream", "logout", "visit"}

\* A request makes one session at most before, and one after its user has logged in.
Anonymous(f) == <<f, "anonymous">>
OfUser(f) == <<f, "user">>
Ids == Requests \X {"anonymous", "user"}

ASSUME OidcAssumption ==
    /\ Kinds \subseteq AllKinds
    /\ Allowed \subseteq Users
    /\ Admin \notin Endpoints /\ Upstream \notin Sites
    /\ None \notin Ids \cup Users \cup Requests \cup Browsers \cup Sites \cup {Upstream}
    /\ Cleared \notin Ids \cup {None}
    /\ MaxLogins \in Nat /\ MaxFailures \in Nat

VARIABLES
    req,         \* Each request: its stage, and what it holds in local variables.
    cookie,      \* Each browser: the session it has a cookie of.
    sessions,    \* All session stores together: an id is in one of them at most.
    provider,    \* Whether the authenticator of Admin has one (and a session store).
    spent,       \* The logins whose code the identity provider has taken.
    overlapped,  \* History: the browsers that have sent a request during another one.
    failures

vars == <<req, cookie, sessions, provider, spent, overlapped, failures>>

Handled == {"login", "upstreamLogin", "storeState", "callback", "exchange", "delete", "create",
            "logout", "visit", "reply"}
Answers == {"none", "redirect", "error", "refused", "loggedIn", "loggedOut", "admitted"}

Idle == [at |-> "idle", kind |-> None, browser |-> None, site |-> None, of |-> None,
         session |-> None, user |-> None, sets |-> None, answer |-> "none"]
Gone == [life |-> "none", store |-> None, user |-> None, state |-> None]

\* NewAuthenticator: the provider is set up when the server starts, or never.
Init ==
    /\ req = [f \in Requests |-> Idle]
    /\ cookie = [b \in Browsers |-> None]
    /\ sessions = [s \in Ids |-> Gone]
    /\ provider \in BOOLEAN
    /\ failures = IF provider THEN 0 ELSE 1
    /\ failures <= MaxFailures
    /\ spent = {} /\ overlapped = {}

-----------------------------------------------------------------------------
At(f, stage) == req[f].at = stage
Goes(f, stage) == req' = [req EXCEPT ![f].at = stage]
Replies(f, answer, sets) ==
    req' = [req EXCEPT ![f].at = "reply", ![f].answer = answer, ![f].sets = sets]
Fails == failures < MaxFailures /\ failures' = failures + 1

\* Whether the store of a site has a session.  Only GetSession looks at its age.
Found(site, s) == s # None /\ sessions[s].life # "none" /\ sessions[s].store = site
Live(site, s) == Found(site, s) /\ sessions[s].life = "live"
StoreOf(f) == IF req[f].kind = "upstream" THEN Upstream ELSE Admin

(***************************************************************************)
(* Browsers.                                                               *)
(***************************************************************************)
NotesOverlap(b) ==
    overlapped' = IF \E g \in Requests : req[g].browser = b /\ req[g].at \in Handled
                    THEN overlapped \cup {b} ELSE overlapped

Sends(f, b, request) ==
    /\ At(f, "idle")
    /\ request.kind \in Kinds
    /\ req' = [req EXCEPT ![f] = [request EXCEPT !.browser = b, !.session = cookie[b]]]
    /\ NotesOverlap(b)
    /\ UNCHANGED <<cookie, sessions, provider, spent, failures>>

OneMoreLogin ==
    Cardinality({g \in Requests : req[g].kind \in {"login", "upstream"}}) < MaxLogins

SendLogin(f) == OneMoreLogin /\ \E b \in Browsers :
    Sends(f, b, [Idle EXCEPT !.at = "login", !.kind = "login", !.of = f])
SendUpstream(f) == OneMoreLogin /\ \E b \in Browsers :
    Sends(f, b, [Idle EXCEPT !.at = "upstreamLogin", !.kind = "upstream", !.of = f])
SendLogout(f) == \E b \in Browsers :
    Sends(f, b, [Idle EXCEPT !.at = "logout", !.kind = "logout"])
SendVisit(f) == \E b \in Browsers, site \in Sites :
    Sends(f, b, [Idle EXCEPT !.at = "visit", !.kind = "visit", !.site = site])
\* The URL of a callback is called up once more.
SendAgain(f) == \E g \in Requests :
    /\ req[g].kind = "login" /\ req[g].user # None
    /\ Sends(f, req[g].browser, [Idle EXCEPT !.at = "callback", !.kind = "again", !.of = g])

\* A user agrees at the identity provider (or the upstream's authorization
\* server); the browser comes back with the state and a code.
Agree(f) ==
    /\ At(f, "authorizing")
    /\ \E u \in IF req[f].kind = "login" THEN Users ELSE {None} :
           req' = [req EXCEPT ![f].at = "callback", ![f].user = u, ![f].answer = "none",
                              ![f].session = cookie[req[f].browser]]
    /\ NotesOverlap(req[f].browser)
    /\ UNCHANGED <<cookie, sessions, provider, spent, failures>>

ClearedIsKept(f) ==    \* Mutant: what clears the cookie is taken for a session.
    /\ At(f, "reply")
    /\ cookie' = IF req[f].sets = None THEN cookie
                 ELSE [cookie EXCEPT ![req[f].browser] = req[f].sets]
    /\ req' = [req EXCEPT ![f].sets = None,
                          ![f].at = IF req[f].answer = "redirect" THEN "authorizing" ELSE "answered"]
    /\ UNCHANGED <<sessions, provider, spent, overlapped, failures>>
\* The answer comes in.
Deliver(f) ==
    /\ At(f, "reply")
    /\ LET sets == req[f].sets
           b == req[f].browser
       IN  cookie' = CASE sets = None -> cookie
                       [] sets = Cleared -> [cookie EXCEPT ![b] = None]
                       [] OTHER -> [cookie EXCEPT ![b] = sets]
    /\ req' = [req EXCEPT ![f].sets = None,
                          ![f].at = IF req[f].answer = "redirect" THEN "authorizing" ELSE "answered"]
    /\ UNCHANGED <<sessions, provider, spent, overlapped, failures>>

\* A cookie lives as long as its session, 24 hours, but from a little later on.
CookieExpires(b) ==
    /\ cookie[b] # None
    /\ sessions[cookie[b]].life # "live"
    /\ cookie' = [cookie EXCEPT ![b] = None]
    /\ UNCHANGED <<req, sessions, provider, spent, overlapped, failures>>

(***************************************************************************)
(* HandleLogin, and what the login of upstreams does with sessions.        *)
(***************************************************************************)
CookieForgotten(f) ==    \* Mutant: the cookie of the new session is not set.
    /\ sessions' = [sessions EXCEPT ![Anonymous(f)] =
                        [life |-> "live", store |-> StoreOf(f), user |-> None, state |-> None]]
    /\ req' = [req EXCEPT ![f].at = "storeState", ![f].session = Anonymous(f)]
MakesSession(f) ==
    /\ sessions' = [sessions EXCEPT ![Anonymous(f)] =
                        [life |-> "live", store |-> StoreOf(f), user |-> None, state |-> None]]
    /\ req' = [req EXCEPT ![f].at = "storeState", ![f].session = Anonymous(f),
                          ![f].sets = Anonymous(f)]

\* The session of the cookie is taken as it is: nobody asks whether it exists.
FindSession(f) ==
    /\ At(f, "login")
    /\ IF ~provider THEN Replies(f, "error", None) /\ UNCHANGED sessions
       ELSE IF req[f].session # None THEN Goes(f, "storeState") /\ UNCHANGED sessions
       ELSE MakesSession(f)
    /\ UNCHANGED <<cookie, provider, spent, overlapped, failures>>

\* Here it must be one that exists, in the store of the login of upstreams.
FindUpstreamSession(f) ==
    /\ At(f, "upstreamLogin")
    /\ IF Live(Upstream, req[f].session) THEN Goes(f, "storeState") /\ UNCHANGED sessions
       ELSE MakesSession(f)
    /\ UNCHANGED <<cookie, provider, spent, overlapped, failures>>

StoreState(f) ==
    /\ At(f, "storeState")
    /\ IF Found(StoreOf(f), req[f].session)
         THEN /\ sessions' = [sessions EXCEPT ![req[f].session].state = f]
              /\ Replies(f, "redirect", req[f].sets)
         ELSE Replies(f, "error", req[f].sets) /\ UNCHANGED sessions
    /\ UNCHANGED <<cookie, provider, spent, overlapped, failures>>

(***************************************************************************)
(* HandleCallback.                                                         *)
(***************************************************************************)
StateMatches(f) ==
    LET s == req[f].session
    IN  Found(StoreOf(f), s) /\ sessions[s].state = req[f].of
CheckState(f) ==
    /\ At(f, "callback")
    /\ IF StoreOf(f) = Admin /\ ~provider THEN Replies(f, "error", None)
       ELSE IF StateMatches(f) THEN Goes(f, "exchange")
       ELSE Replies(f, "refused", None)
    /\ UNCHANGED <<cookie, sessions, provider, spent, overlapped, failures>>

AnyoneLetIn(f) ==    \* Mutant: the error of MapUserFromClaims is not looked at.
    /\ At(f, "exchange")
    /\ spent' = spent \cup {req[f].of}
    /\ IF req[f].of \notin spent THEN Goes(f, "delete") ELSE Replies(f, "refused", None)
    /\ UNCHANGED <<cookie, sessions, provider, overlapped, failures>>
\* A code is taken once.  MapUserFromClaims may refuse its user.
Exchange(f) ==
    LET login == req[f].of
    IN  /\ At(f, "exchange")
        /\ spent' = spent \cup {login}
        /\ IF login \notin spent /\ req[login].user \in Allowed \cup {None}
             THEN Goes(f, "delete")
             ELSE Replies(f, "refused", None)
        /\ UNCHANGED <<cookie, sessions, provider, overlapped, failures>>

DeleteOld(f) ==
    /\ At(f, "delete")
    /\ sessions' = [sessions EXCEPT ![req[f].session] = Gone]
    /\ IF req[f].kind = "upstream" THEN Replies(f, "loggedIn", Cleared) ELSE Goes(f, "create")
    /\ UNCHANGED <<cookie, provider, spent, overlapped, failures>>

CreateSession(f) ==
    /\ At(f, "create")
    /\ sessions' = [sessions EXCEPT ![OfUser(f)] =
                        [life |-> "live", store |-> Admin, user |-> req[req[f].of].user,
                         state |-> None]]
    /\ Replies(f, "loggedIn", OfUser(f))
    /\ UNCHANGED <<cookie, provider, spent, overlapped, failures>>

(***************************************************************************)
(* HandleLogout, and the authenticator of a site with nothing but a cookie.*)
(***************************************************************************)
OnlyCookieCleared(f) ==    \* Mutant: the session itself is not deleted.
    /\ At(f, "logout")
    /\ Replies(f, "loggedOut", Cleared)
    /\ UNCHANGED <<cookie, sessions, provider, spent, overlapped, failures>>
Logout(f) ==
    /\ At(f, "logout")
    /\ IF ~provider THEN Replies(f, "error", None) /\ UNCHANGED sessions
       ELSE /\ Replies(f, "loggedOut", Cleared)
            /\ sessions' = IF Found(Admin, req[f].session)
                             THEN [sessions EXCEPT ![req[f].session] = Gone]
                             ELSE sessions
    /\ UNCHANGED <<cookie, provider, spent, overlapped, failures>>

\* The user a session stands for; none, if it is anonymous.
CheckSession(site, s) == IF (site = Admin => provider) /\ Live(site, s) THEN sessions[s].user ELSE None
Visit(f) ==
    LET user == CheckSession(req[f].site, req[f].session)
    IN  /\ At(f, "visit")
        /\ req' = [req EXCEPT ![f].at = "answered", ![f].user = user,
                              ![f].answer = IF user = None THEN "refused" ELSE "admitted"]
        /\ UNCHANGED <<cookie, sessions, provider, spent, overlapped, failures>>

(***************************************************************************)
(* Failures.                                                               *)
(***************************************************************************)

\* The user does not agree, and the callback has no code; or the exchange or
\* the validation of the ID token fails.
LoginFails(f) ==
    /\ req[f].at \in {"authorizing", "exchange"}
    /\ Fails
    /\ Replies(f, "refused", None)
    /\ UNCHANGED <<cookie, sessions, provider, spent, overlapped>>

AnswerLost(f) ==
    /\ At(f, "reply")
    /\ Fails
    /\ req' = [req EXCEPT ![f].at = "lost", ![f].sets = None]
    /\ UNCHANGED <<cookie, sessions, provider, spent, overlapped>>

Expire(s) ==
    /\ sessions[s].life = "live"
    /\ Fails
    /\ sessions' = [sessions EXCEPT ![s].life = "expired"]
    /\ UNCHANGED <<req, cookie, provider, spent, overlapped>>

CleanupExpired(s) ==
    /\ sessions[s].life = "expired"
    /\ sessions' = [sessions EXCEPT ![s] = Gone]
    /\ UNCHANGED <<req, cookie, provider, spent, overlapped, failures>>

Restart ==
    /\ Fails
    /\ req' = [f \in Requests |->
                  IF req[f].at \in Handled THEN [req[f] EXCEPT !.at = "lost", !.sets = None]
                            ELSE req[f]]
    /\ sessions' = [s \in Ids |-> Gone]
    /\ provider' \in BOOLEAN
    /\ UNCHANGED <<cookie, spent, overlapped>>

-----------------------------------------------------------------------------
Send(f) == SendLogin(f) \/ SendAgain(f) \/ SendUpstream(f) \/ SendLogout(f) \/ SendVisit(f)

Handle(f) ==
    \/ FindSession(f) \/ FindUpstreamSession(f) \/ StoreState(f) \/ CheckState(f)
    \/ Exchange(f) \/ DeleteOld(f) \/ CreateSession(f) \/ Logout(f) \/ Visit(f)

Next ==
    \/ \E f \in Requests : Send(f) \/ Agree(f) \/ Handle(f) \/ Deliver(f)
                           \/ LoginFails(f) \/ AnswerLost(f)
    \/ \E s \in Ids : Expire(s) \/ CleanupExpired(s)
    \/ \E b \in Browsers : CookieExpires(b)
    \/ Restart

Spec == Init /\ [][Next]_vars

-----------------------------------------------------------------------------
(***************************************************************************)
(* Properties.                                                             *)
(***************************************************************************)
TypeOK ==
    /\ req \in [Requests ->
           [at : Handled \cup {"idle", "authorizing", "answered", "lost"},
            kind : Kinds \cup {None}, browser : Browsers \cup {None}, site : Sites \cup {None},
            of : Requests \cup {None}, session : Ids \cup {None}, user : Users \cup {None},
            sets : Ids \cup {Cleared, None}, answer : Answers]]
    /\ cookie \in [Browsers -> Ids \cup {None}]
    /\ sessions \in [Ids -> [life : {"none", "live", "expired"},
                             store : {Admin, Upstream, None},
                             user : Users \cup {None}, state : Requests \cup {None}]]
    /\ provider \in BOOLEAN
    /\ spent \subseteq Requests
    /\ overlapped \subseteq Browsers
    /\ failures \in 0 .. MaxFailures

Owner(s) == req[s[1]].browser

\* A session belongs to one browser: its cookie, the requests that carry it and
\* the login whose state it holds are all of this browser.
SessionsApart ==
    /\ \A b \in Browsers : cookie[b] # None => Owner(cookie[b]) = b
    /\ \A f \in Requests : req[f].session # None => Owner(req[f].session) = req[f].browser
    /\ \A s \in Ids : sessions[s].state # None => req[sessions[s].state].browser = Owner(s)

LoggedIn(f) == req[f].kind # "upstream" /\ (At(f, "delete") \/ At(f, "create")
                                           \/ req[f].answer = "loggedIn")

\* A session stands for a user only after this user has agreed in this browser
\* and has been let through, and a login, also one whose callback is called up
\* again, makes one such session.
SessionsEarned ==
    /\ \A s \in Ids : sessions[s].user # None =>
           LET login == req[s[1]].of
           IN  /\ s = OfUser(s[1]) /\ LoggedIn(s[1])
               /\ req[login].user = sessions[s].user /\ sessions[s].user \in Allowed
               /\ req[login].browser = Owner(s)
    /\ \A f, g \in Requests : LoggedIn(f) /\ LoggedIn(g) /\ req[f].of = req[g].of => f = g

\* A visit is admitted as a user who has logged in in this browser.
VisitsEarned ==
    \A v \in Requests : req[v].answer = "admitted" =>
        \E f \in Requests : /\ LoggedIn(f) /\ req[f].browser = req[v].browser
                            /\ req[req[f].of].user = req[v].user

OidcInv == SessionsApart /\ SessionsEarned /\ VisitsEarned

Used(b, kind) == \E f \in Requests : req[f].kind = kind /\ req[f].browser = b

\* The session of a user is in the cookie of the browser, or on its way there: it
\* can be logged out of.  Not so only if requests of the browser overlapped (an
\* older answer brings another cookie, or a login ends after the logout), if it
\* has also logged in to an upstream (the one cookie is taken for that), or if
\* an answer was lost.
SessionsReachable ==
    \A s \in Ids : sessions[s].life = "live" /\ sessions[s].user # None
        => \/ cookie[Owner(s)] = s
           \/ At(s[1], "reply")
           \/ Owner(s) \in overlapped
           \/ Used(Owner(s), "upstream")
           \/ failures > 0

\* A browser that waits for its answers is told that its session is not there
\* only if it has logged in to an upstream; and its callback is turned away only
\* if the user is not let in, or the browser has begun another login or logged
\* out.  (Unless something has failed.)
RefusedHasCause ==
    \A f \in Requests : LET b == req[f].browser IN
        req[f].kind = "login" /\ failures = 0 /\ b \notin overlapped =>
            /\ req[f].answer = "error" => Used(b, "upstream")
            /\ req[f].answer = "refused" =>
                   \/ req[f].user \in Users \ Allowed
                   \/ \E g \in Requests \ {f} :
                          req[g].browser = b /\ req[g].kind \in {"login", "upstream", "logout"}

\* After a logout was handled, a visit with the session it carried is not admitted:
\* whatever else the browser has in flight, and whichever callback or sweep
\* touches the session, it does not come back.
LogoutHolds ==
    [][\A l, v \in Requests :
          /\ req[l].kind = "logout" /\ req[l].answer = "loggedOut"
          /\ req[v].kind = "visit" /\ At(v, "visit") /\ req[v].session = req[l].session
          => req'[v].answer # "admitted"]_vars

\* README.md:284, "API clients can authenticate with [...] the session cookie
\* obtained after login": a visit with the cookie of a live session of a user is
\* admitted, wherever it goes.
SessionAdmits ==
    [][\A v \in Requests :
          At(v, "visit") /\ Found(Admin, req[v].session)
          /\ CheckSession(Admin, req[v].session) # None
          /\ req'[v].at = "answered"
          => req'[v].answer = "admitted"]_vars

=============================================================================
