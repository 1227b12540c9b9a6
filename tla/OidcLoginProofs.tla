-------------------------- MODULE OidcLoginProofs --------------------------
(***************************************************************************)
(* OidcInv and LogoutHolds for any browsers, requests, users and numbers   *)
(* of logins and failures.  Every step but Restart changes one request at  *)
(* most, and no request forgets whose it is, who has agreed and how it has *)
(* ended (Moves); what relates requests, cookies and sessions rests on     *)
(* that.                                                                   *)
(***************************************************************************)
EXTENDS OidcLogin, TLAPS

Callbacks == {"callback", "exchange", "delete", "create"}
Done == {"reply", "answered", "lost"}
Final == {"loggedIn", "loggedOut", "admitted"}

RequestType ==
    [at : Handled \cup {"idle", "authorizing", "answered", "lost"},
     kind : Kinds \cup {None}, browser : Browsers \cup {None}, site : Sites \cup {None},
     of : Requests \cup {None}, session : Ids \cup {None}, user : Users \cup {None},
     sets : Ids \cup {Cleared, None}, answer : Answers]
SessionType ==
    [life : {"none", "live", "expired"}, store : {Admin, Upstream, None},
     user : Users \cup {None}, state : Requests \cup {None}]

\* What a request is at each stage.
Fit(f, r) ==
    /\ r.at = "idle" => r = Idle
    /\ r.at # "idle" => r.browser \in Browsers /\ (r.kind \in {"login", "upstream"} => r.of = f)
    /\ r.at \in {"login", "upstreamLogin", "storeState", "authorizing"} \/ r.answer = "redirect"
           => r.kind \in {"login", "upstream"} /\ r.user = None
    /\ r.at \in {"logout", "visit"} => r.user = None
    /\ r.at \in Callbacks => /\ r.kind \in {"login", "upstream", "again"}
                             /\ r.kind = "login" => r.user # None
    /\ r.at = "create" => r.kind # "upstream"
    /\ r.at \notin Done \cup {"authorizing"} => r.answer = "none"
    /\ r.at = "authorizing" => r.answer = "redirect"
    /\ r.answer = "loggedIn" => r.kind \in {"login", "upstream", "again"}
Fits == \A f \in Requests : Fit(f, req[f])

\* What a request never loses.
Keeps(old, new) ==
    /\ old.at # "idle" => /\ new.at # "idle" /\ new.browser = old.browser
                          /\ new.kind = old.kind /\ new.of = old.of
    /\ old.user # None => new.user = old.user
    /\ old.answer \in Final
           => new.answer = old.answer /\ new.user = old.user /\ new.session = old.session

\* A callback that is called up again is one of a login of this browser.
Linked ==
    \A f \in Requests : req[f].at # "idle" /\ req[f].kind = "again" =>
        /\ req[f].of \in Requests
        /\ req[req[f].of].kind = "login" /\ req[req[f].of].user # None
        /\ req[req[f].of].browser = req[f].browser

\* A login that is let through has been the first to use its code.
Earned ==
    /\ \A f \in Requests : LoggedIn(f) =>
           /\ req[f].kind \in {"login", "again"}
           /\ req[f].of \in spent /\ req[req[f].of].user \in Allowed
    /\ \A f, g \in Requests : LoggedIn(f) /\ LoggedIn(g) /\ req[f].of = req[g].of => f = g

\* An id that a browser may have: the session of a user is known when it exists.
Known(s, b) == Owner(s) = b /\ (s[2] = "user" => req[s[1]].answer = "loggedIn")
Owned ==
    /\ \A b \in Browsers : cookie[b] # None => Known(cookie[b], b)
    /\ \A f \in Requests : req[f].session # None => Known(req[f].session, req[f].browser)
    /\ \A f \in Requests : req[f].sets \in Ids => Known(req[f].sets, req[f].browser)

\* The user of a session has logged in, with the request that made it.
Made(f, u) ==
    /\ req[f].answer = "loggedIn" /\ req[f].kind \in {"login", "again"}
    /\ req[req[f].of].user = u
Backed ==
    \A s \in Ids :
        /\ sessions[s].life = "none" => sessions[s].user = None
        /\ sessions[s].state # None => /\ req[sessions[s].state].at # "idle"
                                       /\ req[sessions[s].state].browser = Owner(s)
        /\ sessions[s].user # None => /\ s[2] = "user" /\ sessions[s].store = Admin
                                      /\ Made(s[1], sessions[s].user)

LoggedOutGone ==
    \A l \in Requests : req[l].answer = "loggedOut" /\ req[l].session # None
        => sessions[req[l].session].user = None

Visited ==
    \A v \in Requests : req[v].answer = "admitted" =>
        /\ req[v].user # None
        /\ \E f \in Requests : Made(f, req[v].user) /\ req[f].browser = req[v].browser

Inv == TypeOK /\ Fits /\ Linked /\ Earned /\ Owned /\ Backed /\ LoggedOutGone /\ Visited

(***************************************************************************)
(* One request moves, and keeps what Keeps says.                           *)
(***************************************************************************)
Moved(f) ==
    /\ req' = [req EXCEPT ![f] = req'[f]]
    /\ req'[f] \in RequestType /\ Fit(f, req'[f]) /\ Keeps(req[f], req'[f])

LEMMA IdleFits == Idle \in RequestType /\ \A f \in Requests : Fit(f, Idle)
BY DEF Idle, RequestType, Fit, Answers, Handled, Callbacks, Done

LEMMA SendMoves == ASSUME Inv, NEW f \in Requests, Send(f) PROVE Moved(f)
<1> DEFINE Sent(b, r) == [r EXCEPT !.browser = b, !.session = cookie[b]]
<1>1. \A b \in Browsers : cookie[b] \in Ids \cup {None}
  BY DEF Inv, TypeOK
<1>2. ASSUME NEW b \in Browsers, NEW r \in RequestType, Sends(f, b, r), Fit(f, Sent(b, r))
      PROVE  Moved(f)
  <2>1. req[f] = Idle /\ req' = [req EXCEPT ![f] = Sent(b, r)]
    BY <1>2 DEF Sends, At, Inv, Fits, Fit
  <2>2. req'[f] = Sent(b, r)
    BY <2>1 DEF Inv, TypeOK
  <2>3. Sent(b, r) \in RequestType
    BY <1>1 DEF RequestType
  <2>4. Keeps(req[f], Sent(b, r))
    BY <2>1 DEF Keeps, Idle, Final
  <2> QED BY <1>2, <2>1, <2>2, <2>3, <2>4 DEF Moved
<1>3. CASE SendLogin(f)
  <2>1. PICK b \in Browsers :
            Sends(f, b, [Idle EXCEPT !.at = "login", !.kind = "login", !.of = f])
    BY <1>3 DEF SendLogin
  <2> DEFINE r == [Idle EXCEPT !.at = "login", !.kind = "login", !.of = f]
  <2>2. "login" \in Kinds
    BY <2>1 DEF Sends, Idle
  <2>3. r \in RequestType
    BY <2>2, IdleFits DEF RequestType, Handled
  <2>4. Fit(f, Sent(b, r))
    BY DEF Idle, Fit, Callbacks, Done
  <2> QED BY <1>2, <2>1, <2>3, <2>4
<1>4. CASE SendUpstream(f)
  <2>1. PICK b \in Browsers :
            Sends(f, b, [Idle EXCEPT !.at = "upstreamLogin", !.kind = "upstream", !.of = f])
    BY <1>4 DEF SendUpstream
  <2> DEFINE r == [Idle EXCEPT !.at = "upstreamLogin", !.kind = "upstream", !.of = f]
  <2>2. "upstream" \in Kinds
    BY <2>1 DEF Sends, Idle
  <2>3. r \in RequestType
    BY <2>2, IdleFits DEF RequestType, Handled
  <2>4. Fit(f, Sent(b, r))
    BY DEF Idle, Fit, Callbacks, Done
  <2> QED BY <1>2, <2>1, <2>3, <2>4
<1>5. CASE SendLogout(f)
  <2>1. PICK b \in Browsers : Sends(f, b, [Idle EXCEPT !.at = "logout", !.kind = "logout"])
    BY <1>5 DEF SendLogout
  <2> DEFINE r == [Idle EXCEPT !.at = "logout", !.kind = "logout"]
  <2>2. "logout" \in Kinds
    BY <2>1 DEF Sends, Idle
  <2>3. r \in RequestType
    BY <2>2, IdleFits DEF RequestType, Handled
  <2>4. Fit(f, Sent(b, r))
    BY DEF Idle, Fit, Callbacks, Done
  <2> QED BY <1>2, <2>1, <2>3, <2>4
<1>6. CASE SendVisit(f)
  <2>1. PICK b \in Browsers, site \in Sites :
            Sends(f, b, [Idle EXCEPT !.at = "visit", !.kind = "visit", !.site = site])
    BY <1>6 DEF SendVisit
  <2> DEFINE r == [Idle EXCEPT !.at = "visit", !.kind = "visit", !.site = site]
  <2>2. "visit" \in Kinds
    BY <2>1 DEF Sends, Idle
  <2>3. r \in RequestType
    BY <2>2, IdleFits DEF RequestType, Handled
  <2>4. Fit(f, Sent(b, r))
    BY DEF Idle, Fit, Callbacks, Done
  <2> QED BY <1>2, <2>1, <2>3, <2>4
<1>7. CASE SendAgain(f)
  <2>1. PICK g \in Requests :
            /\ req[g].user # None
            /\ Sends(f, req[g].browser,
                     [Idle EXCEPT !.at = "callback", !.kind = "again", !.of = g])
    BY <1>7 DEF SendAgain
  <2> DEFINE r == [Idle EXCEPT !.at = "callback", !.kind = "again", !.of = g]
  <2>2. req[g].browser \in Browsers
    BY <2>1 DEF Inv, Fits, Fit, Idle
  <2>3. "again" \in Kinds
    BY <2>1 DEF Sends, Idle
  <2>4. r \in RequestType
    BY <2>3, IdleFits DEF RequestType, Handled
  <2>5. Fit(f, Sent(req[g].browser, r))
    BY <2>2 DEF Idle, Fit, Callbacks, Done
  <2> QED BY <1>2, <2>1, <2>2, <2>4, <2>5
<1> QED BY <1>3, <1>4, <1>5, <1>6, <1>7 DEF Send

\* All other requests but idle ones: what a stage writes.
LEMMA MovesTo ==
    ASSUME Inv, NEW f \in Requests, NEW r \in RequestType,
           req' = [req EXCEPT ![f] = r], Fit(f, r), Keeps(req[f], r)
    PROVE  Moved(f)
BY DEF Moved, Inv, TypeOK

LEMMA AgreeMoves == ASSUME Inv, NEW f \in Requests, Agree(f) PROVE Moved(f)
<1>1. PICK u \in IF req[f].kind = "login" THEN Users ELSE {None} :
          req' = [req EXCEPT ![f].at = "callback", ![f].user = u, ![f].answer = "none",
                             ![f].session = cookie[req[f].browser]]
  BY DEF Agree
<1> DEFINE r == [req[f] EXCEPT !.at = "callback", !.user = u, !.answer = "none",
                               !.session = cookie[req[f].browser]]
<1>2. req[f] \in RequestType /\ Fit(f, req[f]) /\ req[f].at = "authorizing"
  BY DEF Agree, At, Inv, Fits, TypeOK, RequestType
<1>3. cookie[req[f].browser] \in Ids \cup {None}
  BY <1>2 DEF Fit, Inv, TypeOK
<1>4. req' = [req EXCEPT ![f] = r]
  BY <1>1
<1>5. u \in Users \cup {None} /\ (req[f].kind = "login" => u # None)
  BY <1>1, OidcAssumption DEF OidcAssumption
<1>6. r \in RequestType
  BY <1>2, <1>3, <1>5 DEF RequestType, Handled, Answers
<1>7. Fit(f, r)
  BY <1>2, <1>5 DEF Fit, RequestType, Callbacks, Done
<1>8. Keeps(req[f], r)
  BY <1>2 DEF Fit, Keeps, Final, RequestType
<1> QED BY <1>4, <1>6, <1>7, <1>8, MovesTo

\* Handlers either go on to a stage or reply.
LEMMA GoesMoves ==
    ASSUME Inv, NEW f \in Requests, NEW stage \in Handled, Goes(f, stage),
           req[f].at \in Handled, req[f].at \notin {"reply", "visit", "logout"},
           \/ stage \in {"exchange", "delete", "create"} /\ req[f].at \in Callbacks
           \/ stage = "storeState" /\ req[f].at \in {"login", "upstreamLogin"},
           stage = "create" => req[f].kind # "upstream"
    PROVE  Moved(f)
<1> DEFINE r == [req[f] EXCEPT !.at = stage]
<1>1. req[f] \in RequestType /\ Fit(f, req[f])
  BY DEF Inv, Fits, TypeOK, RequestType
<1>2. req' = [req EXCEPT ![f] = r]
  BY DEF Goes
<1>3. r \in RequestType
  BY <1>1 DEF RequestType
<1>4. req[f].answer = "none" /\ r.answer = "none"
  BY <1>1 DEF Fit, Done, Handled, RequestType
<1>5. Fit(f, r)
  BY <1>1, <1>4 DEF Fit, RequestType, Callbacks, Done, Handled
<1>6. Keeps(req[f], r)
  BY <1>1, <1>4 DEF Keeps, Final, RequestType, Handled
<1> QED BY <1>2, <1>3, <1>5, <1>6, MovesTo

LEMMA RepliesMoves ==
    ASSUME Inv, NEW f \in Requests, NEW answer \in Answers, NEW sets \in Ids \cup {Cleared, None},
           Replies(f, answer, sets),
           req[f].at \in {"login", "storeState", "callback", "exchange", "delete", "create",
                         "logout", "authorizing"},
           answer = "redirect" => req[f].at = "storeState",
           answer = "loggedIn" => req[f].at \in Callbacks
    PROVE  Moved(f)
<1> DEFINE r == [req[f] EXCEPT !.at = "reply", !.answer = answer, !.sets = sets]
<1>1. req[f] \in RequestType /\ Fit(f, req[f])
  BY DEF Inv, Fits, TypeOK, RequestType
<1>2. req' = [req EXCEPT ![f] = r]
  BY DEF Replies
<1>3. r \in RequestType
  BY <1>1 DEF RequestType, Handled
<1>4. req[f].answer \in {"none", "redirect"}
  BY <1>1 DEF Fit, Done
<1>5. Fit(f, r)
  BY <1>1, <1>4 DEF Fit, RequestType, Callbacks, Done
<1>6. Keeps(req[f], r)
  BY <1>1, <1>4 DEF Keeps, Final, RequestType
<1> QED BY <1>2, <1>3, <1>5, <1>6, MovesTo

LEMMA MakesMoves ==
    ASSUME Inv, NEW f \in Requests, MakesSession(f), req[f].at \in {"login", "upstreamLogin"}
    PROVE  Moved(f)
<1> DEFINE r == [req[f] EXCEPT !.at = "storeState", !.session = Anonymous(f),
                               !.sets = Anonymous(f)]
<1>1. req[f] \in RequestType /\ Fit(f, req[f])
  BY DEF Inv, Fits, TypeOK, RequestType
<1>2. req' = [req EXCEPT ![f] = r]
  BY DEF MakesSession
<1>3. Anonymous(f) \in Ids
  BY DEF Anonymous, Ids
<1>4. r \in RequestType
  BY <1>1, <1>3 DEF RequestType, Handled
<1>5. req[f].answer = "none"
  BY <1>1 DEF Fit, Done
<1>6. Fit(f, r)
  BY <1>1, <1>5 DEF Fit, RequestType, Callbacks, Done
<1>7. Keeps(req[f], r)
  BY <1>1, <1>5 DEF Keeps, Final, RequestType
<1> QED BY <1>2, <1>4, <1>6, <1>7, MovesTo

LEMMA NotIds == None \notin Ids /\ Cleared \notin Ids /\ Cleared # None
BY OidcAssumption DEF OidcAssumption

LEMMA HandleMoves == ASSUME Inv, NEW f \in Requests, Handle(f) PROVE Moved(f)
<1> USE DEF At, Handled, Answers
<1>1. CASE FindSession(f)
  BY <1>1, GoesMoves, RepliesMoves, MakesMoves DEF FindSession
<1>2. CASE FindUpstreamSession(f)
  BY <1>2, GoesMoves, MakesMoves DEF FindUpstreamSession
<1>3. CASE StoreState(f)
  <2>1. req[f].sets \in Ids \cup {Cleared, None}
    BY DEF Inv, TypeOK
  <2> QED BY <1>3, <2>1, RepliesMoves DEF StoreState
<1>4. CASE CheckState(f)
  <2>1. /\ req[f].at = "callback"
        /\ (Goes(f, "exchange") \/ \E answer \in {"error", "refused"} : Replies(f, answer, None))
    BY <1>4 DEF CheckState
  <2>2. CASE Goes(f, "exchange")
    BY <2>1, <2>2, GoesMoves DEF Callbacks
  <2>3. CASE \E answer \in {"error", "refused"} : Replies(f, answer, None)
    BY <2>1, <2>3, RepliesMoves
  <2> QED BY <2>1, <2>2, <2>3
<1>5. CASE Exchange(f)
  <2>1. req[f].at = "exchange" /\ (Goes(f, "delete") \/ Replies(f, "refused", None))
    BY <1>5 DEF Exchange
  <2>2. CASE Goes(f, "delete")
    BY <2>1, <2>2, GoesMoves DEF Callbacks
  <2>3. CASE Replies(f, "refused", None)
    BY <2>1, <2>3, RepliesMoves
  <2> QED BY <2>1, <2>2, <2>3
<1>6. CASE DeleteOld(f)
  <2>1. /\ req[f].at = "delete"
        /\ IF req[f].kind = "upstream" THEN Replies(f, "loggedIn", Cleared) ELSE Goes(f, "create")
    BY <1>6 DEF DeleteOld
  <2>2. CASE req[f].kind = "upstream"
    BY <2>1, <2>2, RepliesMoves DEF Callbacks
  <2>3. CASE req[f].kind # "upstream"
    BY <2>1, <2>3, GoesMoves DEF Callbacks
  <2> QED BY <2>2, <2>3
<1>7. CASE CreateSession(f)
  <2>1. OfUser(f) \in Ids
    BY DEF OfUser, Ids
  <2> QED BY <1>7, <2>1, RepliesMoves DEF CreateSession, Callbacks
<1>8. CASE Logout(f)
  BY <1>8, RepliesMoves DEF Logout
<1>9. CASE Visit(f)
  <2>1. req[f] \in RequestType /\ Fit(f, req[f]) /\ req[f].at = "visit"
    BY <1>9 DEF Visit, Inv, Fits, TypeOK, RequestType
  <2>2. CheckSession(req[f].site, req[f].session) \in Users \cup {None}
    BY <2>1 DEF CheckSession, Live, Found, Inv, TypeOK, RequestType
  <2>3. PICK u \in Users \cup {None}, answer \in {"refused", "admitted"} :
            req' = [req EXCEPT ![f].at = "answered", ![f].user = u, ![f].answer = answer]
    BY <1>9, <2>2 DEF Visit
  <2> DEFINE r == [req[f] EXCEPT !.at = "answered", !.user = u, !.answer = answer]
  <2>4. r \in RequestType
    BY <2>1 DEF RequestType
  <2>5. Fit(f, r)
    BY <2>1 DEF Fit, RequestType, Callbacks, Done
  <2>6. Keeps(req[f], r)
    BY <2>1 DEF Fit, Keeps, Final, RequestType, Done
  <2> QED BY <2>3, <2>4, <2>5, <2>6, MovesTo
<1> QED BY <1>1, <1>2, <1>3, <1>4, <1>5, <1>6, <1>7, <1>8, <1>9 DEF Handle

\* The end of a request: its answer arrives or is lost.
LEMMA DeliverMoves == ASSUME Inv, NEW f \in Requests, Deliver(f) \/ AnswerLost(f) PROVE Moved(f)
<1>1. PICK stage \in {"authorizing", "answered", "lost"} :
          /\ req' = [req EXCEPT ![f].sets = None, ![f].at = stage]
          /\ stage = "authorizing" => req[f].answer = "redirect"
          /\ stage = "answered" => req[f].answer # "redirect"
  <2>1. CASE Deliver(f)
    <3> DEFINE stage == IF req[f].answer = "redirect" THEN "authorizing" ELSE "answered"
    <3>1. req' = [req EXCEPT ![f].sets = None, ![f].at = stage]
      BY <2>1 DEF Deliver
    <3> QED BY <3>1
  <2>2. CASE AnswerLost(f)
    <3>1. req' = [req EXCEPT ![f].sets = None, ![f].at = "lost"]
      BY <2>2 DEF AnswerLost, Inv, TypeOK
    <3> QED BY <3>1
  <2> QED BY <2>1, <2>2
<1> DEFINE r == [req[f] EXCEPT !.sets = None, !.at = stage]
<1>2. req[f] \in RequestType /\ Fit(f, req[f]) /\ req[f].at = "reply"
  BY DEF Deliver, AnswerLost, At, Inv, Fits, TypeOK, RequestType
<1>3. req' = [req EXCEPT ![f] = r]
  BY <1>1
<1>4. r \in RequestType
  BY <1>2 DEF RequestType
<1>5. Fit(f, r)
  BY <1>1, <1>2 DEF Fit, RequestType, Callbacks, Done
<1>6. Keeps(req[f], r)
  BY <1>2 DEF Keeps, RequestType
<1> QED BY <1>3, <1>4, <1>5, <1>6, MovesTo

LEMMA FailsMoves == ASSUME Inv, NEW f \in Requests, LoginFails(f) PROVE Moved(f)
BY RepliesMoves DEF LoginFails, Answers

LEMMA RestartMoves ==
    ASSUME Inv, Restart, NEW f \in Requests
    PROVE  req'[f] \in RequestType /\ Fit(f, req'[f]) /\ Keeps(req[f], req'[f])
<1>1. req[f] \in RequestType /\ Fit(f, req[f])
  BY DEF Inv, Fits, TypeOK, RequestType
<1>2. CASE req[f].at \in Handled
  <2>1. req'[f] = [req[f] EXCEPT !.at = "lost", !.sets = None]
    BY <1>2 DEF Restart
  <2>2. req'[f] \in RequestType
    BY <1>1, <2>1 DEF RequestType
  <2>3. Fit(f, req'[f])
    BY <1>1, <1>2, <2>1 DEF Fit, RequestType, Callbacks, Done, Handled
  <2> QED BY <1>1, <2>1, <2>2, <2>3 DEF Keeps, RequestType
<1>3. CASE req[f].at \notin Handled
  BY <1>1, <1>3 DEF Restart, Keeps
<1> QED BY <1>2, <1>3

LEMMA Moves ==
    ASSUME Inv, [Next]_vars
    PROVE  /\ req' \in [Requests -> RequestType]
           /\ \A f \in Requests : Fit(f, req'[f]) /\ Keeps(req[f], req'[f])
<1>1. req \in [Requests -> RequestType] /\ \A f \in Requests : Fit(f, req[f])
  BY DEF Inv, Fits, TypeOK, RequestType
<1>2. ASSUME NEW f \in Requests, Moved(f)
      PROVE  /\ req' \in [Requests -> RequestType]
             /\ \A g \in Requests : Fit(g, req'[g]) /\ Keeps(req[g], req'[g])
  BY <1>1, <1>2 DEF Moved, Keeps
<1>3. CASE UNCHANGED req
  BY <1>1, <1>3 DEF Keeps
<1>4. CASE Restart
  <2>1. req' \in [Requests -> RequestType]
    <3>1. req' = [f \in Requests |-> req'[f]]
      BY <1>4 DEF Restart
    <3> QED BY <3>1, <1>4, RestartMoves
  <2> QED BY <2>1, <1>4, RestartMoves
<1> QED
  BY <1>2, <1>3, <1>4, SendMoves, AgreeMoves, HandleMoves, DeliverMoves, FailsMoves
  DEF Next, vars, Expire, CleanupExpired, CookieExpires

(***************************************************************************)
(* What becomes of a session.                                              *)
(***************************************************************************)
NewSession(u) == [life |-> "live", store |-> Admin, user |-> u, state |-> None]
Turns(s) ==
    \/ sessions'[s] = sessions[s]
    \/ sessions'[s] = Gone
    \/ sessions[s].life = "live" /\ sessions'[s] = [sessions[s] EXCEPT !.life = "expired"]
    \/ \E site \in {Admin, Upstream} : sessions'[s] = [NewSession(None) EXCEPT !.store = site]
    \/ \E f \in Requests : /\ At(f, "storeState") /\ req[f].session = s
                          /\ sessions'[s] = [sessions[s] EXCEPT !.state = f]
    \/ \E f \in Requests : /\ CreateSession(f) /\ s = OfUser(f)
                          /\ sessions'[s] = NewSession(req[req[f].of].user)

LEMMA SessionTurns ==
    ASSUME Inv, [Next]_vars
    PROVE  sessions' = [s \in Ids |-> sessions'[s]] /\ \A s \in Ids : Turns(s)
<1>1. DOMAIN sessions = Ids /\ sessions = [s \in Ids |-> sessions[s]]
  BY DEF Inv, TypeOK
<1>2. CASE UNCHANGED sessions
  BY <1>1, <1>2 DEF Turns
<1>3. ASSUME NEW f \in Requests, MakesSession(f)
      PROVE  sessions' = [s \in Ids |-> sessions'[s]] /\ \A s \in Ids : Turns(s)
  <2>1. StoreOf(f) \in {Admin, Upstream}
    BY DEF StoreOf
  <2>2. sessions' = [sessions EXCEPT ![Anonymous(f)] = [NewSession(None) EXCEPT !.store = StoreOf(f)]]
    BY <1>3 DEF MakesSession, NewSession
  <2> QED BY <1>1, <2>1, <2>2 DEF Turns
<1>4. ASSUME NEW f \in Requests, StoreState(f)
      PROVE  sessions' = [s \in Ids |-> sessions'[s]] /\ \A s \in Ids : Turns(s)
  <2>1. CASE UNCHANGED sessions
    BY <1>1, <2>1 DEF Turns
  <2>2. CASE sessions' = [sessions EXCEPT ![req[f].session].state = f]
    <3>1. At(f, "storeState")
      BY <1>4 DEF StoreState
    <3>2. \A s \in Ids : sessions'[s] = IF s = req[f].session THEN [sessions[s] EXCEPT !.state = f]
                                                         ELSE sessions[s]
      BY <1>1, <2>2
    <3>3. sessions' = [s \in Ids |-> sessions'[s]]
      BY <1>1, <2>2
    <3> QED BY <3>1, <3>2, <3>3 DEF Turns
  <2> QED BY <1>4, <2>1, <2>2 DEF StoreState
<1>5. ASSUME NEW f \in Requests, DeleteOld(f) \/ Logout(f)
      PROVE  sessions' = [s \in Ids |-> sessions'[s]] /\ \A s \in Ids : Turns(s)
  BY <1>1, <1>5 DEF DeleteOld, Logout, Turns
<1>6. ASSUME NEW f \in Requests, CreateSession(f)
      PROVE  sessions' = [s \in Ids |-> sessions'[s]] /\ \A s \in Ids : Turns(s)
  <2>1. sessions' = [sessions EXCEPT ![OfUser(f)] = NewSession(req[req[f].of].user)]
    BY <1>6 DEF CreateSession, NewSession
  <2> QED BY <1>1, <1>6, <2>1 DEF Turns
<1>7. ASSUME NEW s \in Ids, Expire(s) \/ CleanupExpired(s)
      PROVE  sessions' = [t \in Ids |-> sessions'[t]] /\ \A t \in Ids : Turns(t)
  BY <1>1, <1>7 DEF Expire, CleanupExpired, Turns
<1>8. CASE Restart
  BY <1>8 DEF Restart, Turns
<1>9. CASE \E f \in Requests : Handle(f)
  BY <1>2, <1>3, <1>4, <1>5, <1>6, <1>9
  DEF Handle, FindSession, FindUpstreamSession, CheckState, Exchange, Visit
<1> QED
  BY <1>2, <1>7, <1>8, <1>9
  DEF Next, vars, Send, SendLogin, SendUpstream, SendLogout, SendVisit, SendAgain, Sends, Agree,
      Deliver, LoginFails, AnswerLost, CookieExpires

LEMMA Types == ASSUME Inv, [Next]_vars PROVE TypeOK'
<1>1. req' \in [Requests -> RequestType]
  BY Moves
<1>2. cookie' \in [Browsers -> Ids \cup {None}]
  <2>1. cookie \in [Browsers -> Ids \cup {None}]
    BY DEF Inv, TypeOK
  <2>2. CASE UNCHANGED cookie
    BY <2>1, <2>2
  <2>3. CASE \E b \in Browsers : CookieExpires(b)
    BY <2>1, <2>3 DEF CookieExpires
  <2>4. CASE \E f \in Requests : Deliver(f)
    <3>1. PICK f \in Requests : Deliver(f)
      BY <2>4
    <3>2. req[f].sets \in Ids \cup {Cleared, None}
      BY DEF Inv, TypeOK
    <3>3. \/ cookie' = cookie \/ cookie' = [cookie EXCEPT ![req[f].browser] = None]
          \/ req[f].sets \in Ids /\ cookie' = [cookie EXCEPT ![req[f].browser] = req[f].sets]
      BY <3>1, <3>2 DEF Deliver
    <3> QED BY <2>1, <3>3
  <2> QED
    BY <2>2, <2>3, <2>4
    DEF Next, vars, Send, SendLogin, SendUpstream, SendLogout, SendVisit, SendAgain, Sends, Agree,
        Handle, FindSession, FindUpstreamSession, StoreState, CheckState, Exchange, DeleteOld,
        CreateSession, Logout, Visit, LoginFails, AnswerLost, Expire, CleanupExpired, Restart
<1>3. sessions' \in [Ids -> SessionType]
  <2>1. \A s \in Ids : sessions[s] \in SessionType
    BY DEF Inv, TypeOK, SessionType
  <2>2. \A f \in Requests : CreateSession(f) => req[req[f].of].user \in Users \cup {None}
    <3>1. \A f \in Requests : CreateSession(f) => req[f].of \in Requests
      BY DEF CreateSession, At, Inv, Fits, Fit, Linked, Callbacks
    <3> QED BY <3>1 DEF Inv, TypeOK
  <2>3. ASSUME NEW s \in Ids PROVE sessions'[s] \in SessionType
    <3>1. Gone \in SessionType
      BY DEF Gone, SessionType
    <3>2. \A u \in Users \cup {None} : NewSession(u) \in SessionType
      BY DEF NewSession, SessionType
    <3>3. \A site \in {Admin, Upstream} : [NewSession(None) EXCEPT !.store = site] \in SessionType
      BY DEF NewSession, SessionType
    <3>4. [sessions[s] EXCEPT !.life = "expired"] \in SessionType
      BY <2>1 DEF SessionType
    <3>5. \A f \in Requests : [sessions[s] EXCEPT !.state = f] \in SessionType
      BY <2>1 DEF SessionType
    <3> QED BY <2>1, <2>2, <3>1, <3>2, <3>3, <3>4, <3>5, SessionTurns DEF Turns
  <2> QED BY <2>3, SessionTurns
<1>4. failures \in 0 .. MaxFailures /\ spent \subseteq Requests /\ overlapped \subseteq Browsers
      /\ provider \in BOOLEAN
  BY DEF Inv, TypeOK
<1>5. provider' \in BOOLEAN
  BY <1>4
  DEF Next, vars, Send, SendLogin, SendUpstream, SendLogout, SendVisit, SendAgain, Sends, Agree,
      Handle, FindSession, FindUpstreamSession, StoreState, CheckState, Exchange, DeleteOld,
      CreateSession, Logout, Visit, Deliver, LoginFails, AnswerLost, Expire, CleanupExpired,
      CookieExpires, Restart
<1>6. failures' \in 0 .. MaxFailures
  <2>1. Fails \/ UNCHANGED failures
    BY DEF Next, vars, Send, SendLogin, SendUpstream, SendLogout, SendVisit, SendAgain, Sends, Agree,
           Handle, FindSession, FindUpstreamSession, StoreState, CheckState, Exchange, DeleteOld,
           CreateSession, Logout, Visit, Deliver, LoginFails, AnswerLost, Expire, CleanupExpired,
           CookieExpires, Restart
  <2> QED BY <1>4, <2>1, OidcAssumption DEF OidcAssumption, Fails
<1>7. spent' \subseteq Requests
  <2>1. \A f \in Requests : Exchange(f) => req[f].of \in Requests
    BY DEF Exchange, At, Inv, Fits, Fit, Linked, Callbacks
  <2>2. UNCHANGED spent \/ \E f \in Requests : Exchange(f)
    BY DEF Next, vars, Send, SendLogin, SendUpstream, SendLogout, SendVisit, SendAgain, Sends, Agree,
           Handle, FindSession, FindUpstreamSession, StoreState, CheckState, DeleteOld,
           CreateSession, Logout, Visit, Deliver, LoginFails, AnswerLost, Expire, CleanupExpired,
           CookieExpires, Restart
  <2> QED BY <1>4, <2>1, <2>2 DEF Exchange
<1>8. overlapped' \subseteq Browsers
  <2>1. \A f \in Requests : Agree(f) => req[f].browser \in Browsers
    BY DEF Agree, At, Inv, Fits, Fit
  <2>2. \A g \in Requests : req[g].user # None => req[g].browser \in Browsers
    BY DEF Inv, Fits, Fit, Idle
  <2>3. UNCHANGED overlapped \/ \E b \in Browsers : NotesOverlap(b)
    BY <2>1, <2>2
    DEF Next, vars, Send, SendLogin, SendUpstream, SendLogout, SendVisit, SendAgain, Sends, Agree,
        Handle, FindSession, FindUpstreamSession, StoreState, CheckState, Exchange, DeleteOld,
        CreateSession, Logout, Visit, Deliver, LoginFails, AnswerLost, Expire, CleanupExpired,
        CookieExpires, Restart
  <2> QED BY <1>4, <2>3 DEF NotesOverlap
<1> QED BY <1>1, <1>2, <1>3, <1>5, <1>6, <1>7, <1>8 DEF TypeOK, RequestType, SessionType

(***************************************************************************)
(* The parts of the invariant that relate requests to one another.         *)
(***************************************************************************)
LEMMA Linking == ASSUME Inv, [Next]_vars PROVE Linked'
<1> SUFFICES ASSUME NEW f \in Requests, req'[f].at # "idle", req'[f].kind = "again"
             PROVE  /\ req'[f].of \in Requests
                    /\ req'[req'[f].of].kind = "login" /\ req'[req'[f].of].user # None
                    /\ req'[req'[f].of].browser = req'[f].browser
  BY DEF Linked
<1>1. CASE req[f].at # "idle"
  <2>1. req'[f].kind = req[f].kind /\ req'[f].of = req[f].of /\ req'[f].browser = req[f].browser
    BY <1>1, Moves DEF Keeps
  <2>2. /\ req[f].of \in Requests
        /\ req[req[f].of].kind = "login" /\ req[req[f].of].user # None
        /\ req[req[f].of].browser = req[f].browser
    BY <1>1, <2>1 DEF Inv, Linked
  <2>3. req[req[f].of].at # "idle"
    BY <2>2 DEF Inv, Fits, Fit, Idle
  <2> QED BY <2>1, <2>2, <2>3, Moves DEF Keeps
<1>2. CASE req[f].at = "idle"
  <2>1. SendAgain(f)
    <3>1. \E g \in Requests : Send(g) \/ Agree(g) \/ Handle(g) \/ Deliver(g) \/ LoginFails(g)
                                \/ AnswerLost(g)
      BY <1>2 DEF Next, vars, Restart, Handled, CookieExpires, Expire, CleanupExpired
    <3>2. PICK g \in Requests : Send(g) \/ Agree(g) \/ Handle(g) \/ Deliver(g) \/ LoginFails(g)
                                \/ AnswerLost(g)
      BY <3>1
    <3>3. Moved(g)
      BY <3>2, SendMoves, AgreeMoves, HandleMoves, DeliverMoves, FailsMoves
    <3>4. g = f
      BY <1>2, <3>3 DEF Moved, Inv, TypeOK
    <3>5. Send(f)
      BY <1>2, <3>2, <3>4
      DEF Agree, Handle, Deliver, LoginFails, AnswerLost, At, FindSession, FindUpstreamSession,
          StoreState, CheckState, Exchange, DeleteOld, CreateSession, Logout, Visit
    <3>6. req \in [Requests -> RequestType]
      BY DEF Inv, TypeOK, RequestType
    <3>7. SendLogin(f) => req'[f].kind = "login"
      BY <3>6 DEF SendLogin, Sends, Idle
    <3>8. SendUpstream(f) => req'[f].kind = "upstream"
      BY <3>6 DEF SendUpstream, Sends, Idle
    <3>9. SendLogout(f) => req'[f].kind = "logout"
      BY <3>6 DEF SendLogout, Sends, Idle
    <3>10. SendVisit(f) => req'[f].kind = "visit"
      BY <3>6 DEF SendVisit, Sends, Idle
    <3> QED BY <3>5, <3>7, <3>8, <3>9, <3>10 DEF Send
  <2>2. PICK g \in Requests :
            /\ req[g].kind = "login" /\ req[g].user # None
            /\ Sends(f, req[g].browser,
                     [Idle EXCEPT !.at = "callback", !.kind = "again", !.of = g])
    BY <2>1 DEF SendAgain
  <2>3. req'[f].of = g /\ req'[f].browser = req[g].browser
    BY <2>2 DEF Sends, Idle, Inv, TypeOK
  <2>4. g # f
    BY <1>2, <2>2 DEF Inv, Fits, Fit, Idle
  <2>5. req'[g] = req[g]
    BY <2>2, <2>4 DEF Sends, Inv, TypeOK
  <2> QED BY <2>2, <2>3, <2>5
<1> QED BY <1>1, <1>2

\* Who has been let through is at the end of its callback.
LEMMA CallbackOf ==
    ASSUME Inv, NEW f \in Requests, req[f].at # "idle", req[f].kind \in {"login", "upstream", "again"}
    PROVE  req[f].of \in Requests /\ req[req[f].of].browser = req[f].browser
BY DEF Inv, Fits, Fit, Linked

LEMMA LoggedInLater ==
    ASSUME Inv, NEW f \in Requests, LoggedIn(f)
    PROVE  /\ req[f].at \notin {"idle", "exchange"} /\ req[f].kind \in {"login", "again"}
           /\ req[f].of \in Requests /\ req[f].of \in spent
           /\ req[req[f].of].user \in Allowed /\ req[req[f].of].user # None
<1>1. req[f].at \notin {"idle", "exchange"}
  BY DEF LoggedIn, At, Inv, Fits, Fit, Done
<1>2. req[f].kind \in {"login", "again"} /\ req[f].of \in spent /\ req[req[f].of].user \in Allowed
  BY DEF Inv, Earned
<1>3. req[f].of \in Requests
  BY <1>1, <1>2, CallbackOf
<1> QED BY <1>1, <1>2, <1>3, OidcAssumption DEF OidcAssumption

\* A request comes to be let through by Exchange alone.
LEMMA LettingIn ==
    ASSUME Inv, [Next]_vars, NEW f \in Requests, LoggedIn(f)', ~LoggedIn(f)
    PROVE  Exchange(f) /\ req'[f].at = "delete"
<1>1. req[f] \in RequestType /\ req'[f] \in RequestType /\ Fit(f, req[f]) /\ Fit(f, req'[f])
      /\ Keeps(req[f], req'[f])
  BY Moves DEF Inv, Fits, TypeOK, RequestType
<1> DEFINE Through(r) == r.kind # "upstream" /\ (r.at \in {"delete", "create"} \/ r.answer = "loggedIn")
<1>0. Through(req'[f]) /\ ~Through(req[f])
  BY DEF LoggedIn, At
<1>2. req'[f] # req[f]
  BY <1>0
<1>3. ~Restart
  <2> SUFFICES ASSUME Restart PROVE FALSE
    OBVIOUS
  <2>1. req[f].at \in Handled => req'[f] = [req[f] EXCEPT !.at = "lost", !.sets = None]
    BY DEF Restart
  <2>2. req[f].at \notin Handled => req'[f] = req[f]
    BY DEF Restart
  <2> QED BY <1>1, <1>0, <2>1, <2>2 DEF RequestType
<1>4. PICK g \in Requests : Send(g) \/ Agree(g) \/ Handle(g) \/ Deliver(g) \/ LoginFails(g)
                            \/ AnswerLost(g)
  BY <1>2, <1>3 DEF Next, vars, CookieExpires, Expire, CleanupExpired
<1>5. g = f
  <2>1. Moved(g)
    BY <1>4, SendMoves, AgreeMoves, HandleMoves, DeliverMoves, FailsMoves
  <2> QED BY <1>2, <2>1 DEF Moved, Inv, TypeOK
<1>6. req \in [Requests -> RequestType]
  BY DEF Inv, TypeOK, RequestType
<1>7. \A stage \in Handled : Goes(f, stage) => req'[f] = [req[f] EXCEPT !.at = stage]
  BY <1>6 DEF Goes
<1>8. \A answer \in Answers : \A sets : Replies(f, answer, sets)
          => req'[f].at = "reply" /\ req'[f].answer = answer /\ req'[f].kind = req[f].kind
  BY <1>6 DEF Replies, RequestType
<1>9. ~Send(f)
  <2>1. SendLogin(f) => req'[f].at = "login"
    BY <1>6 DEF SendLogin, Sends, Idle
  <2>2. SendUpstream(f) => req'[f].at = "upstreamLogin"
    BY <1>6 DEF SendUpstream, Sends, Idle
  <2>3. SendLogout(f) => req'[f].at = "logout"
    BY <1>6 DEF SendLogout, Sends, Idle
  <2>4. SendVisit(f) => req'[f].at = "visit"
    BY <1>6 DEF SendVisit, Sends, Idle
  <2>5. SendAgain(f) => req'[f].at = "callback"
    BY <1>6 DEF SendAgain, Sends, Idle
  <2>6. req'[f].at \in {"login", "upstreamLogin", "logout", "visit", "callback"}
            => req'[f].answer = "none"
    BY <1>1 DEF Fit, Done
  <2> QED BY <1>0, <2>1, <2>2, <2>3, <2>4, <2>5, <2>6 DEF Send
<1>10. ~Agree(f)
  <2>1. Agree(f) => req'[f].at = "callback" /\ req'[f].answer = "none"
    BY <1>6 DEF Agree, RequestType
  <2> QED BY <1>0, <2>1
<1>11. ~(Deliver(f) \/ AnswerLost(f))
  BY <1>1, <1>6 DEF Deliver, AnswerLost, LoggedIn, At, RequestType
<1>12. ~LoginFails(f)
  BY <1>8 DEF LoginFails, LoggedIn, At, Answers
<1>13. ~(FindSession(f) \/ FindUpstreamSession(f) \/ StoreState(f) \/ CheckState(f) \/ Logout(f))
  BY <1>1, <1>6, <1>7, <1>8
  DEF FindSession, FindUpstreamSession, MakesSession, StoreState, CheckState, Logout, LoggedIn, At,
      Answers, Handled, RequestType
<1>14. ~Visit(f)
  <2>1. ASSUME NEW u, NEW answer \in {"refused", "admitted"},
               req' = [req EXCEPT ![f].at = "answered", ![f].user = u, ![f].answer = answer]
        PROVE  FALSE
    <3>1. req'[f].at = "answered" /\ req'[f].answer = answer
      BY <1>6, <2>1 DEF RequestType
    <3> QED BY <1>0, <3>1
  <2> QED BY <2>1 DEF Visit
<1>15. ~DeleteOld(f) /\ ~CreateSession(f)
  BY <1>1, <1>7, <1>8 DEF DeleteOld, CreateSession, LoggedIn, At, Answers, Handled, Fit
<1>16. Exchange(f)
  BY <1>4, <1>5, <1>9, <1>10, <1>11, <1>12, <1>13, <1>14, <1>15 DEF Handle
<1>17. ~Replies(f, "refused", None)
  BY <1>8, <1>0 DEF Answers
<1>18. Goes(f, "delete")
  BY <1>16, <1>17 DEF Exchange
<1> QED BY <1>1, <1>7, <1>16, <1>18 DEF Handled, RequestType

LEMMA SpentGrows == ASSUME Inv, [Next]_vars PROVE spent \subseteq spent'
BY DEF Next, vars, Send, SendLogin, SendUpstream, SendLogout, SendVisit, SendAgain, Sends, Agree,
       Handle, FindSession, FindUpstreamSession, StoreState, CheckState, Exchange, DeleteOld,
       CreateSession, Logout, Visit, Deliver, LoginFails, AnswerLost, Expire, CleanupExpired,
       CookieExpires, Restart

LEMMA Earning == ASSUME Inv, [Next]_vars PROVE Earned'
<1>1. ASSUME NEW f \in Requests, LoggedIn(f)
      PROVE  /\ req'[f].kind = req[f].kind /\ req'[f].of = req[f].of
             /\ req'[req[f].of].user = req[req[f].of].user
  BY <1>1, LoggedInLater, Moves DEF Keeps
<1>2. ASSUME NEW f \in Requests, LoggedIn(f)', ~LoggedIn(f)
      PROVE  /\ Exchange(f) /\ req[f].of \notin spent /\ req[f].of \in spent'
             /\ req[f].kind \in {"login", "again"} /\ req[f].of \in Requests
             /\ req[req[f].of].user \in Allowed
             /\ req'[f].kind = req[f].kind /\ req'[f].of = req[f].of
             /\ req'[req[f].of].user = req[req[f].of].user
             /\ \A g \in Requests \ {f} : req'[g] = req[g]
  <2>1. Exchange(f) /\ req'[f].at = "delete" /\ req[f].at = "exchange"
    BY <1>2, LettingIn DEF Exchange, At
  <2>2. req \in [Requests -> RequestType]
    BY DEF Inv, TypeOK, RequestType
  <2>3. /\ spent' = spent \cup {req[f].of}
        /\ req[f].of \notin spent /\ req[req[f].of].user \in Allowed \cup {None}
        /\ req' = [req EXCEPT ![f].at = "delete"]
    <3>1. ~Replies(f, "refused", None)
      BY <2>1, <2>2 DEF Replies, RequestType
    <3> QED BY <2>1, <3>1 DEF Exchange, Goes
  <2>4. req'[f].kind = req[f].kind /\ req'[f].of = req[f].of
    BY <2>1, Moves DEF Keeps
  <2>5. req[f].kind \in {"login", "again"}
    BY <1>2, <2>1, <2>4 DEF LoggedIn, At, Inv, Fits, Fit, Callbacks
  <2>6. req[f].of \in Requests
    BY <2>1, <2>5, CallbackOf
  <2>7. req[req[f].of].user # None
    BY <2>1, <2>5 DEF Inv, Fits, Fit, Linked, Callbacks
  <2> QED BY <2>1, <2>2, <2>3, <2>4, <2>5, <2>6, <2>7, Moves DEF Keeps
<1>3. ASSUME NEW f \in Requests, LoggedIn(f)'
      PROVE  req'[f].kind \in {"login", "again"} /\ req'[f].of \in spent'
             /\ req'[req'[f].of].user \in Allowed
  BY <1>1, <1>2, <1>3, LoggedInLater, SpentGrows
<1>4. ASSUME NEW f \in Requests, NEW g \in Requests,
             LoggedIn(f)', LoggedIn(g)', req'[f].of = req'[g].of
      PROVE  f = g
  <2>1. CASE LoggedIn(f) /\ LoggedIn(g)
    BY <1>1, <1>4, <2>1 DEF Inv, Earned
  <2>2. CASE LoggedIn(f) /\ ~LoggedIn(g)
    BY <1>1, <1>2, <1>4, <2>2, LoggedInLater
  <2>3. CASE ~LoggedIn(f) /\ LoggedIn(g)
    BY <1>1, <1>2, <1>4, <2>3, LoggedInLater
  <2>4. CASE ~LoggedIn(f) /\ ~LoggedIn(g)
    <3>1. g # f => LoggedIn(g)
      BY <1>2, <1>4, <2>4 DEF LoggedIn, At
    <3> QED BY <2>4, <3>1
  <2> QED BY <2>1, <2>2, <2>3, <2>4
<1> QED BY <1>3, <1>4 DEF Earned

(***************************************************************************)
(* Which sessions cookies and requests know.                               *)
(***************************************************************************)
\* Where the id a request carries, and the one its answer sets, come from.
TakesId(f, r) ==
    /\ \/ r.session \in {req[f].session, Anonymous(f)}
       \/ r.session = cookie[r.browser]
    /\ \/ r.sets \in {req[f].sets, None, Cleared, Anonymous(f)}
       \/ r.sets = OfUser(f) /\ r.answer = "loggedIn"

LEMMA IdsTaken == ASSUME Inv, [Next]_vars, NEW f \in Requests PROVE TakesId(f, req'[f])
<1>1. req \in [Requests -> RequestType]
  BY DEF Inv, TypeOK, RequestType
<1>2. CASE req'[f] = req[f]
  BY <1>2 DEF TakesId
<1>3. CASE Restart
  <2>1. req[f].at \in Handled => req'[f] = [req[f] EXCEPT !.at = "lost", !.sets = None]
    BY <1>3 DEF Restart
  <2>2. req[f].at \notin Handled => req'[f] = req[f]
    BY <1>3 DEF Restart
  <2> QED BY <1>1, <2>1, <2>2 DEF TakesId, RequestType
<1>5. CASE Send(f)
  <2> DEFINE Sent == req'[f].session = cookie[req'[f].browser] /\ req'[f].sets = None
  <2>1. SendLogin(f) => Sent
    BY <1>1 DEF SendLogin, Sends, Idle
  <2>2. SendUpstream(f) => Sent
    BY <1>1 DEF SendUpstream, Sends, Idle
  <2>3. SendLogout(f) => Sent
    BY <1>1 DEF SendLogout, Sends, Idle
  <2>4. SendVisit(f) => Sent
    BY <1>1 DEF SendVisit, Sends, Idle
  <2>5. SendAgain(f) => Sent
    BY <1>1 DEF SendAgain, Sends, Idle
  <2>6. Sent
    BY <1>5, <2>1, <2>2, <2>3, <2>4, <2>5 DEF Send
  <2> QED BY <2>6 DEF TakesId
<1>6. CASE Agree(f)
  <2>1. req'[f].session = cookie[req'[f].browser] /\ req'[f].sets = req[f].sets
    BY <1>1, <1>6 DEF Agree, RequestType
  <2> QED BY <2>1 DEF TakesId
<1>7. \A stage : Goes(f, stage) => TakesId(f, req'[f])
  BY <1>1 DEF Goes, TakesId, RequestType
<1>8. \A answer, sets : /\ Replies(f, answer, sets)
                       /\ \/ sets \in {req[f].sets, None, Cleared}
                          \/ sets = OfUser(f) /\ answer = "loggedIn"
          => TakesId(f, req'[f])
  <2> SUFFICES ASSUME NEW answer, NEW sets, Replies(f, answer, sets),
                      \/ sets \in {req[f].sets, None, Cleared}
                      \/ sets = OfUser(f) /\ answer = "loggedIn"
               PROVE  TakesId(f, req'[f])
    OBVIOUS
  <2>1. req'[f].session = req[f].session /\ req'[f].sets = sets /\ req'[f].answer = answer
    BY <1>1 DEF Replies, RequestType
  <2> QED BY <2>1 DEF TakesId
<1>9. MakesSession(f) => TakesId(f, req'[f])
  <2>1. MakesSession(f) => req'[f].session = Anonymous(f) /\ req'[f].sets = Anonymous(f)
    BY <1>1 DEF MakesSession, RequestType
  <2> QED BY <2>1 DEF TakesId
<1>10. CASE Handle(f)
  <2>1. Visit(f) => TakesId(f, req'[f])
    <3>1. Visit(f) => req'[f].session = req[f].session /\ req'[f].sets = req[f].sets
      BY <1>1 DEF Visit, RequestType
    <3> QED BY <3>1 DEF TakesId
  <2> QED
    BY <1>7, <1>8, <1>9, <1>10, <2>1
    DEF Handle, FindSession, FindUpstreamSession, StoreState, CheckState, Exchange, DeleteOld,
        CreateSession, Logout
<1>11. CASE Deliver(f) \/ AnswerLost(f)
  <2>1. req'[f].session = req[f].session /\ req'[f].sets = None
    BY <1>1, <1>11 DEF Deliver, AnswerLost, RequestType
  <2> QED BY <2>1 DEF TakesId
<1>12. CASE LoginFails(f)
  BY <1>8, <1>12 DEF LoginFails
<1>13. ASSUME NEW g \in Requests, g # f, Moved(g) PROVE req'[f] = req[f]
  BY <1>1, <1>13 DEF Moved
<1> QED
  BY <1>2, <1>3, <1>5, <1>6, <1>10, <1>11, <1>12, <1>13, SendMoves, AgreeMoves, HandleMoves,
     DeliverMoves, FailsMoves
  DEF Next, vars, CookieExpires, Expire, CleanupExpired

\* What is known of a session stays so.
KnownThen(s, b) == req'[s[1]].browser = b /\ (s[2] = "user" => req'[s[1]].answer = "loggedIn")
LEMMA KnownStays ==
    ASSUME Inv, [Next]_vars, NEW s \in Ids, NEW b \in Browsers, Known(s, b)
    PROVE  KnownThen(s, b)
<1>1. s[1] \in Requests
  BY DEF Ids
<1>2. req[s[1]].at # "idle"
  <2>1. None \notin Browsers
    BY OidcAssumption DEF OidcAssumption
  <2> QED BY <1>1, <2>1 DEF Known, Owner, Inv, Fits, Fit, Idle
<1> QED BY <1>1, <1>2, Moves DEF Keeps, Known, KnownThen, Owner, Final

LEMMA CookieTurns ==
    ASSUME Inv, [Next]_vars, NEW b \in Browsers
    PROVE  \/ cookie'[b] \in {cookie[b], None}
           \/ \E f \in Requests : req[f].browser = b /\ req[f].sets \in Ids /\ cookie'[b] = req[f].sets
<1>1. cookie \in [Browsers -> Ids \cup {None}]
  BY DEF Inv, TypeOK
<1>2. CASE \E f \in Requests : Deliver(f)
  <2>1. PICK f \in Requests : Deliver(f)
    BY <1>2
  <2>2. req[f].sets \in Ids \cup {Cleared, None}
    BY DEF Inv, TypeOK
  <2>3. \/ cookie' = cookie \/ cookie' = [cookie EXCEPT ![req[f].browser] = None]
        \/ req[f].sets \in Ids /\ cookie' = [cookie EXCEPT ![req[f].browser] = req[f].sets]
    BY <2>1, <2>2 DEF Deliver
  <2> QED BY <1>1, <2>3
<1>3. CASE \E c \in Browsers : CookieExpires(c)
  BY <1>1, <1>3 DEF CookieExpires
<1> QED
  BY <1>2, <1>3
  DEF Next, vars, Send, SendLogin, SendUpstream, SendLogout, SendVisit, SendAgain, Sends, Agree,
      Handle, FindSession, FindUpstreamSession, StoreState, CheckState, Exchange, DeleteOld,
      CreateSession, Logout, Visit, LoginFails, AnswerLost, Expire, CleanupExpired, Restart

LEMMA Owning == ASSUME Inv, [Next]_vars PROVE Owned'
<1>1. ASSUME NEW b \in Browsers, cookie'[b] # None PROVE KnownThen(cookie'[b], b)
  <2>1. cookie'[b] \in Ids /\ Known(cookie'[b], b)
    BY <1>1, CookieTurns, NotIds DEF Inv, Owned, TypeOK
  <2> QED BY <2>1, KnownStays
<1>2. \A f \in Requests : req'[f].browser \in Browsers \/ req'[f] = Idle
  BY Moves DEF Fit
<1>3. \A f \in Requests : req[f] # Idle => req[f].browser = req'[f].browser
  BY Moves DEF Keeps, Inv, Fits, Fit
<1>4. \A f \in Requests : KnownThen(Anonymous(f), req'[f].browser)
  BY DEF KnownThen, Anonymous
<1>5. ASSUME NEW f \in Requests, req'[f].session # None
      PROVE  KnownThen(req'[f].session, req'[f].browser)
  <2>1. req'[f].browser \in Browsers
    BY <1>2, <1>5 DEF Idle
  <2>2. CASE req'[f].session = Anonymous(f)
    BY <1>4, <2>2
  <2>3. CASE req'[f].session = cookie[req'[f].browser]
    <3>1. req'[f].session \in Ids /\ Known(req'[f].session, req'[f].browser)
      BY <1>5, <2>1, <2>3 DEF Inv, Owned, TypeOK
    <3> QED BY <2>1, <3>1, KnownStays
  <2>4. CASE req'[f].session = req[f].session
    <3>1. req[f] # Idle
      BY <1>5, <2>4 DEF Idle
    <3>2. req'[f].session \in Ids /\ Known(req'[f].session, req'[f].browser)
      BY <1>3, <1>5, <2>4, <3>1 DEF Inv, Owned, TypeOK
    <3> QED BY <2>1, <3>2, KnownStays
  <2> QED BY <2>2, <2>3, <2>4, IdsTaken DEF TakesId
<1>6. ASSUME NEW f \in Requests, req'[f].sets \in Ids
      PROVE  KnownThen(req'[f].sets, req'[f].browser)
  <2>1. req'[f].browser \in Browsers
    BY <1>2, <1>6, NotIds DEF Idle
  <2>2. CASE req'[f].sets = Anonymous(f)
    BY <1>4, <2>2
  <2>3. CASE req'[f].sets = OfUser(f) /\ req'[f].answer = "loggedIn"
    BY <2>3 DEF KnownThen, OfUser
  <2>4. CASE req'[f].sets = req[f].sets
    <3>1. req[f] # Idle
      BY <1>6, <2>4, NotIds DEF Idle
    <3>2. Known(req'[f].sets, req'[f].browser)
      BY <1>3, <1>6, <2>4, <3>1 DEF Inv, Owned
    <3> QED BY <1>6, <2>1, <3>2, KnownStays
  <2> QED BY <1>6, <2>2, <2>3, <2>4, IdsTaken, NotIds DEF TakesId
<1> QED BY <1>1, <1>5, <1>6 DEF Owned, Known, KnownThen, Owner

(***************************************************************************)
(* What sessions, logouts and visits rest on.                              *)
(***************************************************************************)
MadeThen(f, u) ==
    /\ req'[f].answer = "loggedIn" /\ req'[f].kind \in {"login", "again"}
    /\ req'[req'[f].of].user = u
LEMMA MadeStays ==
    ASSUME Inv, [Next]_vars, NEW f \in Requests, NEW u \in Users, Made(f, u)
    PROVE  MadeThen(f, u) /\ req'[f].browser = req[f].browser
<1>1. req[f].at # "idle"
  BY DEF Made, Inv, Fits, Fit, Idle
<1>2. /\ req'[f].answer = req[f].answer /\ req'[f].kind = req[f].kind
      /\ req'[f].of = req[f].of /\ req'[f].browser = req[f].browser
  BY <1>1, Moves DEF Made, Keeps, Final
<1>3. req[f].of \in Requests
  BY <1>1, CallbackOf DEF Made
<1>4. u # None
  BY OidcAssumption DEF OidcAssumption
<1>5. req'[req[f].of].user = u
  BY <1>3, <1>4, Moves DEF Made, Keeps
<1> QED BY <1>2, <1>5 DEF Made, MadeThen

\* A request that makes the session of a user has not answered yet.
LEMMA Creating ==
    ASSUME Inv, [Next]_vars, NEW f \in Requests, CreateSession(f), NEW u \in Users,
           u = req[req[f].of].user
    PROVE  MadeThen(f, u) /\ req[f].answer = "none"
<1>1. req \in [Requests -> RequestType] /\ req[f].at = "create"
  BY DEF Inv, TypeOK, RequestType, CreateSession, At
<1>2. req[f].answer = "none" /\ req[f].kind \in {"login", "again"}
  BY <1>1 DEF Inv, Fits, Fit, Callbacks, Done
<1>3. req'[f].answer = "loggedIn"
  BY <1>1 DEF CreateSession, Replies, RequestType
<1>4. req'[f].kind = req[f].kind /\ req'[f].of = req[f].of
  BY <1>1, Moves DEF Keeps
<1>5. req[f].of \in Requests
  BY <1>1, <1>2, CallbackOf
<1>6. u # None
  BY OidcAssumption DEF OidcAssumption
<1>7. req'[req[f].of].user = u
  BY <1>5, <1>6, Moves DEF Keeps
<1> QED BY <1>2, <1>3, <1>4, <1>7 DEF MadeThen

LEMMA Backing == ASSUME Inv, [Next]_vars PROVE Backed'
<1> DEFINE StateFits(s) ==
        sessions'[s].state # None => /\ req'[sessions'[s].state].at # "idle"
                                     /\ req'[sessions'[s].state].browser = req'[s[1]].browser
           UserFits(s) ==
        sessions'[s].user # None => /\ s[2] = "user" /\ sessions'[s].store = Admin
                                    /\ MadeThen(s[1], sessions'[s].user)
<1>1. ASSUME NEW f \in Requests, NEW s \in Ids, req[f].at # "idle", req[f].browser = Owner(s)
      PROVE  req'[f].at # "idle" /\ req'[f].browser = req'[s[1]].browser
  <2>1. s[1] \in Requests
    BY DEF Ids
  <2>2. req[s[1]].at # "idle"
    BY <1>1, <2>1, OidcAssumption DEF OidcAssumption, Owner, Inv, Fits, Fit, Idle
  <2> QED BY <1>1, <2>1, <2>2, Moves DEF Keeps, Owner
<1>2. ASSUME NEW s \in Ids, sessions'[s].state = sessions[s].state PROVE StateFits(s)
  <2>1. sessions[s].state \in Requests \cup {None}
    BY DEF Inv, TypeOK
  <2> QED BY <1>1, <1>2, <2>1 DEF Inv, Backed
<1>3. ASSUME NEW s \in Ids, sessions'[s].user = sessions[s].user,
             sessions'[s].store = sessions[s].store
      PROVE  UserFits(s)
  <2>1. s[1] \in Requests /\ sessions[s].user \in Users \cup {None}
    BY DEF Ids, Inv, TypeOK
  <2> QED BY <1>3, <2>1, MadeStays DEF Inv, Backed
<1>4. ASSUME NEW s \in Ids
      PROVE  /\ sessions'[s].life = "none" => sessions'[s].user = None
             /\ StateFits(s) /\ UserFits(s)
  <2>1. sessions[s] \in SessionType
    BY DEF Inv, TypeOK, SessionType
  <2>2. CASE sessions'[s] = sessions[s]
    BY <1>2, <1>3, <2>2 DEF Inv, Backed
  <2>3. CASE sessions'[s] = Gone
    BY <2>3 DEF Gone
  <2>4. CASE sessions[s].life = "live" /\ sessions'[s] = [sessions[s] EXCEPT !.life = "expired"]
    <3>1. /\ sessions'[s].state = sessions[s].state /\ sessions'[s].user = sessions[s].user
          /\ sessions'[s].store = sessions[s].store /\ sessions'[s].life = "expired"
      BY <2>1, <2>4 DEF SessionType
    <3> QED BY <1>2, <1>3, <3>1
  <2>5. CASE \E site \in {Admin, Upstream} : sessions'[s] = [NewSession(None) EXCEPT !.store = site]
    BY <2>5 DEF NewSession
  <2>6. ASSUME NEW f \in Requests, At(f, "storeState"), req[f].session = s,
               sessions'[s] = [sessions[s] EXCEPT !.state = f]
        PROVE  /\ sessions'[s].life = "none" => sessions'[s].user = None
               /\ StateFits(s) /\ UserFits(s)
    <3>1. /\ sessions'[s].state = f /\ sessions'[s].user = sessions[s].user
          /\ sessions'[s].store = sessions[s].store /\ sessions'[s].life = sessions[s].life
      BY <2>1, <2>6 DEF SessionType
    <3>2. req[f].browser = Owner(s)
      BY <2>6, NotIds DEF Inv, Owned, Known
    <3>3. StateFits(s)
      BY <1>1, <2>6, <3>1, <3>2 DEF At
    <3>4. UserFits(s)
      BY <1>3, <3>1
    <3> QED BY <3>1, <3>3, <3>4 DEF Inv, Backed
  <2>7. ASSUME NEW f \in Requests, CreateSession(f), s = OfUser(f),
               sessions'[s] = NewSession(req[req[f].of].user)
        PROVE  /\ sessions'[s].life = "none" => sessions'[s].user = None
               /\ StateFits(s) /\ UserFits(s)
    <3>1. s[1] = f /\ s[2] = "user"
      BY <2>7 DEF OfUser
    <3>2. /\ sessions'[s].life = "live" /\ sessions'[s].state = None
          /\ sessions'[s].store = Admin /\ sessions'[s].user = req[req[f].of].user
      BY <2>7 DEF NewSession
    <3>3. sessions'[s].user \in Users \cup {None}
      BY Types DEF TypeOK
    <3> QED BY <2>7, <3>1, <3>2, <3>3, Creating
  <2> QED BY <2>2, <2>3, <2>4, <2>5, <2>6, <2>7, SessionTurns DEF Turns
<1> QED BY <1>4 DEF Backed, Owner, Made, MadeThen

\* Logout alone answers that one is logged out, and Visit that one is let in.
LEMMA Answering ==
    ASSUME Inv, [Next]_vars, NEW f \in Requests,
           req'[f].answer \in {"loggedOut", "admitted"}, req'[f].answer # req[f].answer
    PROVE  IF req'[f].answer = "loggedOut" THEN Logout(f) ELSE Visit(f)
<1>1. req \in [Requests -> RequestType]
  BY DEF Inv, TypeOK, RequestType
<1>2. ~Restart
  <2> SUFFICES ASSUME Restart PROVE FALSE
    OBVIOUS
  <2>1. req[f].at \in Handled => req'[f] = [req[f] EXCEPT !.at = "lost", !.sets = None]
    BY DEF Restart
  <2>2. req[f].at \notin Handled => req'[f] = req[f]
    BY DEF Restart
  <2> QED BY <1>1, <2>1, <2>2 DEF RequestType
<1>3. PICK g \in Requests : Send(g) \/ Agree(g) \/ Handle(g) \/ Deliver(g) \/ LoginFails(g)
                            \/ AnswerLost(g)
  BY <1>2 DEF Next, vars, CookieExpires, Expire, CleanupExpired
<1>4. g = f
  <2>1. Moved(g)
    BY <1>3, SendMoves, AgreeMoves, HandleMoves, DeliverMoves, FailsMoves
  <2> QED BY <1>1, <2>1 DEF Moved
<1>5. \A stage : Goes(f, stage) => req'[f].answer = req[f].answer
  BY <1>1 DEF Goes, RequestType
<1>6. \A answer, sets : Replies(f, answer, sets) => req'[f].answer = answer
  BY <1>1 DEF Replies, RequestType
<1>7. MakesSession(f) => req'[f].answer = req[f].answer
  BY <1>1 DEF MakesSession, RequestType
<1>8. ~Send(f)
  <2>1. SendLogin(f) => req'[f].answer = "none"
    BY <1>1 DEF SendLogin, Sends, Idle
  <2>2. SendUpstream(f) => req'[f].answer = "none"
    BY <1>1 DEF SendUpstream, Sends, Idle
  <2>3. SendLogout(f) => req'[f].answer = "none"
    BY <1>1 DEF SendLogout, Sends, Idle
  <2>4. SendVisit(f) => req'[f].answer = "none"
    BY <1>1 DEF SendVisit, Sends, Idle
  <2>5. SendAgain(f) => req'[f].answer = "none"
    BY <1>1 DEF SendAgain, Sends, Idle
  <2> QED BY <2>1, <2>2, <2>3, <2>4, <2>5 DEF Send
<1>9. ~Agree(f)
  <2>1. Agree(f) => req'[f].answer = "none"
    BY <1>1 DEF Agree, RequestType
  <2> QED BY <2>1
<1>10. ~Deliver(f) /\ ~AnswerLost(f)
  BY <1>1 DEF Deliver, AnswerLost, RequestType
<1>11. ~LoginFails(f)
  BY <1>6 DEF LoginFails
<1>12. Logout(f) \/ Visit(f)
  BY <1>3, <1>4, <1>5, <1>6, <1>7, <1>8, <1>9, <1>10, <1>11
  DEF Handle, FindSession, FindUpstreamSession, StoreState, CheckState, Exchange, DeleteOld,
      CreateSession
<1>13. Visit(f) => req'[f].answer \in {"refused", "admitted"}
  <2>1. Visit(f) => \E u, answer : /\ answer \in {"refused", "admitted"}
                                   /\ req' = [req EXCEPT ![f].at = "answered", ![f].user = u,
                                                         ![f].answer = answer]
    BY DEF Visit
  <2> QED BY <1>1, <2>1 DEF RequestType
<1>14. Logout(f) => req'[f].answer \in {"error", "loggedOut"}
  BY <1>6 DEF Logout
<1> QED BY <1>12, <1>13, <1>14

LEMMA LoggingOut == ASSUME Inv, [Next]_vars PROVE LoggedOutGone'
<1> SUFFICES ASSUME NEW l \in Requests, req'[l].answer = "loggedOut", req'[l].session # None
             PROVE  sessions'[req'[l].session].user = None
  BY DEF LoggedOutGone
<1> DEFINE s == req'[l].session
<1>1. CASE req[l].answer = "loggedOut"
  <2>1. s = req[l].session /\ s \in Ids /\ sessions[s] \in SessionType
    BY <1>1, Moves DEF Keeps, Final, Inv, TypeOK, SessionType
  <2>2. sessions[s].user = None
    BY <1>1, <2>1 DEF Inv, LoggedOutGone
  <2>3. ASSUME NEW f \in Requests, CreateSession(f), s = OfUser(f) PROVE FALSE
    <3>1. s[1] = f /\ s[2] = "user"
      BY <2>3 DEF OfUser
    <3>2. Known(s, req[l].browser)
      BY <2>1, NotIds DEF Inv, Owned
    <3>3. req[f].answer = "loggedIn"
      BY <3>1, <3>2 DEF Known
    <3>4. req[f].answer = "none"
      BY <2>3 DEF CreateSession, At, Inv, Fits, Fit, Done
    <3> QED BY <3>3, <3>4
  <2>4. [sessions[s] EXCEPT !.life = "expired"].user = None
    BY <2>1, <2>2 DEF SessionType
  <2>5. \A f \in Requests : [sessions[s] EXCEPT !.state = f].user = None
    BY <2>1, <2>2 DEF SessionType
  <2>6. \A site : [NewSession(None) EXCEPT !.store = site].user = None
    BY DEF NewSession
  <2>7. Gone.user = None
    BY DEF Gone
  <2> QED BY <2>1, <2>2, <2>3, <2>4, <2>5, <2>6, <2>7, SessionTurns DEF Turns
<1>2. CASE req[l].answer # "loggedOut"
  <2>1. Logout(l)
    BY <1>2, Answering
  <2>2. s = req[l].session /\ provider
    BY <2>1 DEF Logout, Replies, Inv, TypeOK
  <2>3. s \in Ids
    BY <2>2 DEF Inv, TypeOK
  <2>4. CASE Found(Admin, s)
    BY <2>1, <2>2, <2>3, <2>4 DEF Logout, Gone, Inv, TypeOK
  <2>5. CASE ~Found(Admin, s)
    <3>1. sessions' = sessions
      BY <2>1, <2>2, <2>5 DEF Logout
    <3>2. sessions[s].user = None
      BY <2>3, <2>5 DEF Found, Inv, Backed
    <3> QED BY <3>1, <3>2
  <2> QED BY <2>4, <2>5
<1> QED BY <1>1, <1>2

\* Who a visit is admitted as: the user of the session, who has one in the
\* store of the admin endpoint.
LEMMA Admitted ==
    ASSUME Inv, NEW v \in Requests, Visit(v), req'[v].answer = "admitted"
    PROVE  LET s == req[v].session
           IN  /\ s \in Ids /\ sessions[s].user \in Users
               /\ req'[v].user = sessions[s].user /\ req'[v].browser = req[v].browser
<1>1. req \in [Requests -> RequestType]
  BY DEF Inv, TypeOK, RequestType
<1> DEFINE u == CheckSession(req[v].site, req[v].session)
<1>2. req' = [req EXCEPT ![v].at = "answered", ![v].user = u,
                         ![v].answer = IF u = None THEN "refused" ELSE "admitted"]
  BY DEF Visit
<1>3. u # None /\ req'[v].user = u /\ req'[v].browser = req[v].browser
  BY <1>1, <1>2 DEF RequestType
<1>4. req[v].session \in Ids /\ u = sessions[req[v].session].user
  BY <1>1, <1>3 DEF CheckSession, Live, Found, RequestType
<1> QED BY <1>3, <1>4 DEF Inv, TypeOK

LEMMA Visiting == ASSUME Inv, [Next]_vars PROVE Visited'
<1> SUFFICES ASSUME NEW v \in Requests, req'[v].answer = "admitted"
             PROVE  /\ req'[v].user # None
                    /\ \E f \in Requests : /\ MadeThen(f, req'[v].user)
                                           /\ req'[f].browser = req'[v].browser
  BY DEF Visited, Made, MadeThen
<1>1. CASE req[v].answer = "admitted"
  <2>1. PICK f \in Requests : Made(f, req[v].user) /\ req[f].browser = req[v].browser
    BY <1>1 DEF Inv, Visited
  <2>2. req[v].at # "idle"
    BY <1>1 DEF Inv, Fits, Fit, Idle
  <2>3. req'[v].user = req[v].user /\ req'[v].browser = req[v].browser
    BY <1>1, <2>2, Moves DEF Keeps, Final
  <2>4. req[v].user # None /\ req[v].user \in Users
    BY <1>1 DEF Inv, Visited, TypeOK
  <2> QED BY <2>1, <2>3, <2>4, MadeStays
<1>2. CASE req[v].answer # "admitted"
  <2> DEFINE s == req[v].session
  <2>1. Visit(v)
    BY <1>2, Answering
  <2>2. /\ s \in Ids /\ sessions[s].user \in Users
        /\ req'[v].user = sessions[s].user /\ req'[v].browser = req[v].browser
    BY <2>1, Admitted
  <2>3. sessions[s].user # None
    BY <2>2, OidcAssumption DEF OidcAssumption
  <2>4. s[1] \in Requests /\ Made(s[1], sessions[s].user)
    BY <2>2, <2>3 DEF Ids, Inv, Backed
  <2>5. req[s[1]].browser = req[v].browser
    BY <2>2, NotIds DEF Inv, Owned, Known, Owner
  <2> QED BY <2>2, <2>3, <2>4, <2>5, MadeStays
<1> QED BY <1>1, <1>2

(***************************************************************************)
(* The theorems.                                                           *)
(***************************************************************************)
LEMMA Initially == Init => Inv
<1> SUFFICES ASSUME Init PROVE Inv
  OBVIOUS
<1>1. req = [f \in Requests |-> Idle] /\ \A f \in Requests : req[f] = Idle
  BY DEF Init
<1>2. \A s \in Ids : sessions[s] = Gone
  BY DEF Init
<1>3. TypeOK
  <2>1. req \in [Requests -> RequestType]
    BY <1>1, IdleFits
  <2>2. sessions \in [Ids -> SessionType]
    BY DEF Init, Gone, SessionType
  <2>3. failures \in 0 .. MaxFailures
    BY OidcAssumption DEF OidcAssumption, Init
  <2> QED BY <2>1, <2>2, <2>3 DEF Init, TypeOK, RequestType, SessionType
<1>4. Fits
  BY <1>1, IdleFits DEF Fits
<1>5. Linked /\ Earned /\ LoggedOutGone /\ Visited
  BY <1>1 DEF Idle, Linked, Earned, LoggedIn, At, LoggedOutGone, Visited
<1>6. Owned
  BY <1>1, NotIds DEF Init, Owned, Idle
<1>7. Backed
  BY <1>2 DEF Backed, Gone
<1> QED BY <1>3, <1>4, <1>5, <1>6, <1>7 DEF Inv

LEMMA Inductive == Inv /\ [Next]_vars => Inv'
<1> SUFFICES ASSUME Inv, [Next]_vars PROVE Inv'
  OBVIOUS
<1>1. Fits'
  BY Moves DEF Fits, Fit
<1> QED
  BY <1>1, Types, Linking, Earning, Owning, Backing, LoggingOut, Visiting DEF Inv

THEOREM Invariance == Spec => []Inv
BY Initially, Inductive, PTL DEF Spec

\* Every request, cookie, session and store has one of the values the code
\* gives it, whichever way requests, failures and restarts overlap.
THEOREM TypeCorrect == Spec => []TypeOK
<1>1. Inv => TypeOK
  BY DEF Inv
<1> QED BY <1>1, Invariance, PTL

LEMMA InvImpliesOidcInv == Inv => OidcInv
<1> SUFFICES ASSUME Inv PROVE OidcInv
  OBVIOUS
<1>1. ASSUME NEW s \in Ids, sessions[s].user # None
      PROVE  LET login == req[s[1]].of
             IN  /\ s = OfUser(s[1]) /\ LoggedIn(s[1])
                 /\ req[login].user = sessions[s].user /\ sessions[s].user \in Allowed
                 /\ req[login].browser = Owner(s)
  <2>1. s[1] \in Requests /\ s = <<s[1], s[2]>>
    BY DEF Ids
  <2>2. s[2] = "user" /\ Made(s[1], sessions[s].user)
    BY <1>1 DEF Inv, Backed
  <2>3. LoggedIn(s[1])
    BY <2>2 DEF Made, LoggedIn
  <2>4. req[req[s[1]].of].user \in Allowed /\ req[s[1]].at # "idle"
        /\ req[s[1]].kind \in {"login", "again"}
    BY <2>1, <2>3, LoggedInLater
  <2>5. req[req[s[1]].of].browser = Owner(s)
    BY <2>1, <2>4, CallbackOf DEF Owner
  <2> QED BY <2>1, <2>2, <2>3, <2>4, <2>5 DEF OfUser, Made
<1>2. SessionsEarned
  BY <1>1 DEF SessionsEarned, Inv, Earned
<1>3. SessionsApart
  BY DEF SessionsApart, Inv, Owned, Known, Backed
<1>4. VisitsEarned
  BY DEF VisitsEarned, Inv, Visited, Made, LoggedIn
<1> QED BY <1>2, <1>3, <1>4 DEF OidcInv

\* A session belongs to one browser, stands for a user only after this user has
\* agreed and been let through there, a login makes one such session at most, and
\* no visit is admitted otherwise: for any overlap of the handlers of
\* auth_handlers.go, of the sweep and of the answers they send.
THEOREM SessionsRight == Spec => []OidcInv
BY InvImpliesOidcInv, Invariance, PTL

\* What HandleLogout has logged out stays so: no callback, sweep or visit that was
\* in flight brings the session back, and CheckSession never admits it.
THEOREM LogoutFinal == Spec => LogoutHolds
<1> DEFINE Holds == \A l, v \in Requests :
        /\ req[l].kind = "logout" /\ req[l].answer = "loggedOut"
        /\ req[v].kind = "visit" /\ At(v, "visit") /\ req[v].session = req[l].session
        => req'[v].answer # "admitted"
<1>1. ASSUME Inv, [Next]_vars PROVE Holds
  <2> SUFFICES ASSUME NEW l \in Requests, NEW v \in Requests,
                      req[l].answer = "loggedOut", At(v, "visit"),
                      req[v].session = req[l].session, req'[v].answer = "admitted"
               PROVE  FALSE
    OBVIOUS
  <2>1. req[v].answer = "none"
    BY <1>1 DEF At, Inv, Fits, Fit, Done
  <2>2. Visit(v)
    BY <1>1, <2>1, Answering
  <2>3. req[v].session \in Ids /\ sessions[req[v].session].user \in Users
    BY <1>1, <2>2, Admitted
  <2>4. sessions[req[v].session].user = None
    BY <1>1, <2>3, NotIds DEF Inv, LoggedOutGone
  <2> QED BY <2>3, <2>4, OidcAssumption DEF OidcAssumption
<1>2. Inv /\ [Next]_vars => [Holds]_vars
  BY <1>1
<1> QED BY <1>2, Initially, Inductive, PTL DEF Spec, LogoutHolds, Holds

=============================================================================
