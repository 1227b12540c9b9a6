------------------------ MODULE OidcLoginCauseProofs ------------------------
(***************************************************************************)
(* As long as nothing fails, for a browser that waits for its answers and  *)
(* does not log in to upstreams: it can log out of the session it has, and *)
(* its login is turned away only for a cause of its own.                   *)
(***************************************************************************)
EXTENDS OidcLoginProofs

\* Without a failure there is a provider, and no session has expired.  Which kinds
\* of requests are at which stages, and when an answer is about to set a cookie.
StagesOf(r) ==
    /\ r.at = "login" => r.kind = "login"
    /\ r.at = "upstreamLogin" => r.kind = "upstream"
    /\ r.at \in {"logout", "visit"} => r.kind = r.at
    /\ r.kind = "visit" => r.at \in {"idle", "visit", "answered", "lost"}
    /\ r.at \notin {"storeState", "reply"} => r.sets = None
    /\ r.of # None => r.kind \in {"login", "upstream", "again"}
    /\ r.at # "idle" => r.kind \in AllKinds
Sound ==
    /\ \A f \in Requests : StagesOf(req[f])
    /\ \A f \in spent : req[f].at # "idle"
    /\ failures = 0 => provider /\ \A s \in Ids : sessions[s].life # "expired"

Of(b) == {f \in Requests : req[f].browser = b}
Busy(f) == req[f].at \in Handled
UserSession(s) == sessions[s].life = "live" /\ sessions[s].user # None

OneByOne(b) == \A f, g \in Of(b) : Busy(f) /\ Busy(g) => f = g

\* The session of a user is in the cookie or on its way there, and a request that is
\* handled has it, or has not made another one.
Reachable(b, s) ==
    /\ cookie[b] = s \/ (At(s[1], "reply") /\ req[s[1]].sets = s)
    /\ \A f \in Of(b) :
           /\ req[f].at \in {"login", "callback", "exchange", "delete", "logout"}
                  => req[f].session = s
           /\ req[f].at # "create"
           /\ req[f].at \in {"storeState", "reply"} => req[f].sets \in {None, s}
UserReachable(b) == \A s \in Ids : UserSession(s) /\ Owner(s) = b => Reachable(b, s)

\* The session of the cookie exists, or another cookie is on its way; so a login finds it.
Existing(s) == s \in Ids /\ Found(Admin, s)
Replaced(f) == At(f, "create") \/ (At(f, "reply") /\ req[f].sets # None)
CookieExists(b) == cookie[b] # None => Existing(cookie[b]) \/ \E f \in Of(b) : Replaced(f)
\* The session of the cookie as it is when the answer to f has come.
Coming(b, f) == IF req[f].sets = None THEN cookie[b] ELSE req[f].sets
LoginFinds(b, f) ==
    /\ At(f, "login") => req[f].session = cookie[b]
                         /\ (cookie[b] # None => Existing(cookie[b]))
    /\ At(f, "storeState") => req[f].session = Coming(b, f) /\ Existing(Coming(b, f))
    /\ req[f].sets \in Ids => Existing(req[f].sets)
    /\ req[f].kind = "login" => req[f].answer # "error"

\* Until its code is exchanged, a login's callback is called up once.
Open(f) ==
    /\ req[f].kind = "login"
    /\ req[f].at \in {"login", "storeState", "authorizing", "callback", "exchange"}
       \/ (At(f, "reply") /\ req[f].answer = "redirect")
CalledOnce(f) == Open(f) => f \notin spent /\ \A g \in Requests : req[g].of = f => g = f

\* The only login of a browser finds its state again.
Sole(b, f) ==
    /\ req[f].kind = "login"
    /\ \A g \in Of(b) \ {f} : req[g].kind \notin {"login", "upstream", "logout"}
HasState(s, f) == Existing(s) /\ sessions[s].state = f
StateKept(b, f) ==
    Sole(b, f) =>
        /\ At(f, "reply") /\ req[f].answer = "redirect" => HasState(Coming(b, f), f)
        /\ At(f, "authorizing") => HasState(cookie[b], f)
        /\ At(f, "callback") => HasState(req[f].session, f)
        /\ req[f].answer = "refused" => req[f].user \in Users \ Allowed

Orderly(b) ==
    /\ OneByOne(b) /\ UserReachable(b) /\ CookieExists(b)
    /\ \A f \in Of(b) : LoginFinds(b, f) /\ CalledOnce(f) /\ StateKept(b, f)

Patient(b) == b \notin overlapped /\ ~Used(b, "upstream")
CauseInv == Sound /\ (failures = 0 => \A b \in Browsers : Patient(b) => Orderly(b))

(***************************************************************************)
(* What a request is after it has moved.                                   *)
(***************************************************************************)
Same(g) ==
    /\ req'[g].browser = req[g].browser /\ req'[g].kind = req[g].kind /\ req'[g].of = req[g].of
    /\ req'[g].session = req[g].session /\ req'[g].user = req[g].user

LEMMA GoesTo ==
    ASSUME Inv, NEW g \in Requests, NEW stage, Goes(g, stage)
    PROVE  Same(g) /\ req'[g].at = stage /\ req'[g].sets = req[g].sets /\ req'[g].answer = req[g].answer
BY DEF Goes, Same, Inv, TypeOK

LEMMA RepliesTo ==
    ASSUME Inv, NEW g \in Requests, NEW answer, NEW sets, Replies(g, answer, sets)
    PROVE  Same(g) /\ req'[g].at = "reply" /\ req'[g].sets = sets /\ req'[g].answer = answer
BY DEF Replies, Same, Inv, TypeOK

LEMMA MakesTo ==
    ASSUME Inv, NEW g \in Requests, MakesSession(g)
    PROVE  /\ req'[g].browser = req[g].browser /\ req'[g].kind = req[g].kind
           /\ req'[g].of = req[g].of /\ req'[g].user = req[g].user
           /\ req'[g].at = "storeState" /\ req'[g].answer = req[g].answer
           /\ req'[g].session = Anonymous(g) /\ req'[g].sets = Anonymous(g)
BY DEF MakesSession, Inv, TypeOK

LEMMA AgreesTo ==
    ASSUME Inv, NEW g \in Requests, Agree(g)
    PROVE  /\ req'[g].browser = req[g].browser /\ req'[g].kind = req[g].kind
           /\ req'[g].of = req[g].of /\ req'[g].sets = req[g].sets
           /\ req'[g].at = "callback" /\ req'[g].answer = "none"
           /\ req'[g].session = cookie[req[g].browser]
BY DEF Agree, Inv, TypeOK

LEMMA VisitsTo ==
    ASSUME Inv, NEW g \in Requests, Visit(g)
    PROVE  /\ req'[g].browser = req[g].browser /\ req'[g].kind = req[g].kind
           /\ req'[g].of = req[g].of /\ req'[g].session = req[g].session
           /\ req'[g].sets = req[g].sets /\ req'[g].at = "answered"
BY DEF Visit, Inv, TypeOK

LEMMA DeliversTo ==
    ASSUME Inv, NEW g \in Requests, Deliver(g)
    PROVE  /\ Same(g) /\ req'[g].sets = None /\ req'[g].answer = req[g].answer
           /\ req'[g].at = IF req[g].answer = "redirect" THEN "authorizing" ELSE "answered"
BY DEF Deliver, Same, Inv, TypeOK

\* A request is sent with the cookie its browser has then.
LEMMA SentAs ==
    ASSUME Inv, NEW g \in Requests, Send(g)
    PROVE  LET r == req'[g]
           IN  /\ req[g].at = "idle" /\ NotesOverlap(r.browser)
               /\ UNCHANGED <<cookie, sessions, provider, spent, failures>>
               /\ r.session = cookie[r.browser] /\ r.sets = None /\ r.answer = "none"
               /\ \/ r.at = "login" /\ r.kind = "login" /\ r.of = g
                  \/ r.at = "upstreamLogin" /\ r.kind = "upstream" /\ r.of = g
                  \/ r.at \in {"logout", "visit"} /\ r.kind = r.at /\ r.of = None
                  \/ /\ r.at = "callback" /\ r.kind = "again" /\ r.of \in Requests
                     /\ req[r.of].kind = "login" /\ req[r.of].user # None
<1>1. DOMAIN req = Requests
  BY DEF Inv, TypeOK
<1> DEFINE r == req'[g]
           Common == /\ req[g].at = "idle" /\ NotesOverlap(r.browser)
                     /\ UNCHANGED <<cookie, sessions, provider, spent, failures>>
                     /\ r.session = cookie[r.browser] /\ r.sets = None /\ r.answer = "none"
<1>2. CASE SendLogin(g)
  <2>1. PICK b \in Browsers : Sends(g, b, [Idle EXCEPT !.at = "login", !.kind = "login", !.of = g])
    BY <1>2 DEF SendLogin
  <2>2. Common /\ r.at = "login" /\ r.kind = "login" /\ r.of = g
    BY <1>1, <2>1 DEF Sends, At, Idle
  <2> QED BY <2>2
<1>3. CASE SendUpstream(g)
  <2>1. PICK b \in Browsers : Sends(g, b, [Idle EXCEPT !.at = "upstreamLogin", !.kind = "upstream", !.of = g])
    BY <1>3 DEF SendUpstream
  <2>2. Common /\ r.at = "upstreamLogin" /\ r.kind = "upstream" /\ r.of = g
    BY <1>1, <2>1 DEF Sends, At, Idle
  <2> QED BY <2>2
<1>4. CASE SendLogout(g)
  <2>1. PICK b \in Browsers : Sends(g, b, [Idle EXCEPT !.at = "logout", !.kind = "logout"])
    BY <1>4 DEF SendLogout
  <2>2. Common /\ r.at = "logout" /\ r.kind = "logout" /\ r.of = None
    BY <1>1, <2>1 DEF Sends, At, Idle
  <2> QED BY <2>2
<1>5. CASE SendVisit(g)
  <2>1. PICK b \in Browsers, site \in Sites :
            Sends(g, b, [Idle EXCEPT !.at = "visit", !.kind = "visit", !.site = site])
    BY <1>5 DEF SendVisit
  <2>2. Common /\ r.at = "visit" /\ r.kind = "visit" /\ r.of = None
    BY <1>1, <2>1 DEF Sends, At, Idle
  <2> QED BY <2>2
<1>6. CASE SendAgain(g)
  <2>1. PICK h \in Requests :
            /\ req[h].kind = "login" /\ req[h].user # None
            /\ Sends(g, req[h].browser, [Idle EXCEPT !.at = "callback", !.kind = "again", !.of = h])
    BY <1>6 DEF SendAgain
  <2>2. Common /\ r.at = "callback" /\ r.kind = "again" /\ r.of = h
    BY <1>1, <2>1 DEF Sends, At, Idle
  <2> QED BY <2>1, <2>2
<1> QED BY <1>2, <1>3, <1>4, <1>5, <1>6 DEF Send

(***************************************************************************)
(* Sound.                                                                  *)
(***************************************************************************)
LEMMA StagesStay ==
    ASSUME Inv, [Next]_vars, \A f \in Requests : StagesOf(req[f])
    PROVE  \A f \in Requests : StagesOf(req'[f])
<1> SUFFICES ASSUME NEW f \in Requests PROVE StagesOf(req'[f])
  OBVIOUS
<1> USE DEF At
<1>1. StagesOf(req[f]) /\ Fit(f, req[f]) /\ req[f] \in RequestType /\ DOMAIN req = Requests
  BY DEF Inv, Fits, TypeOK, RequestType
<1>2. CASE req'[f] = req[f]
  BY <1>1, <1>2
<1>3. CASE Restart
  <2>1. CASE req[f].at \in Handled
    <3>1. req'[f] = [req[f] EXCEPT !.at = "lost", !.sets = None]
      BY <1>3, <2>1 DEF Restart
    <3>2. /\ req'[f].at = "lost" /\ req'[f].sets = None
          /\ req'[f].kind = req[f].kind /\ req'[f].of = req[f].of
      BY <1>1, <3>1 DEF RequestType
    <3> QED BY <1>1, <2>1, <3>2 DEF StagesOf, Handled
  <2>2. CASE req[f].at \notin Handled
    BY <1>1, <1>3, <2>2 DEF Restart
  <2> QED BY <2>1, <2>2
<1>4. CASE Send(f)
  <2> DEFINE r == req'[f]
  <2>1. /\ r.sets = None
        /\ \/ r.at = "login" /\ r.kind = "login"
           \/ r.at = "upstreamLogin" /\ r.kind = "upstream"
           \/ r.at \in {"logout", "visit"} /\ r.kind = r.at /\ r.of = None
           \/ r.at = "callback" /\ r.kind = "again"
    BY <1>4, SentAs
  <2> HIDE DEF r
  <2> QED BY <2>1 DEF StagesOf, r, AllKinds
<1>5. CASE Agree(f)
  <2>1. req[f].at = "authorizing" /\ req[f].kind \in {"login", "upstream"} /\ req[f].sets = None
    BY <1>1, <1>5 DEF Agree, Fit, StagesOf
  <2>2. req'[f].kind = req[f].kind /\ req'[f].of = req[f].of /\ req'[f].sets = None
        /\ req'[f].at = "callback"
    BY <1>5, <2>1, AgreesTo
  <2> QED BY <2>1, <2>2 DEF StagesOf
<1>6. CASE Deliver(f)
  <2>1. req[f].at = "reply" /\ req[f].kind # "visit"
        /\ (req[f].of # None => req[f].kind \in {"login", "upstream", "again"})
    BY <1>1, <1>6 DEF Deliver, StagesOf
  <2>2. req'[f].kind = req[f].kind /\ req'[f].of = req[f].of /\ req'[f].sets = None
        /\ req'[f].at \in {"authorizing", "answered"}
    BY <1>6, DeliversTo DEF Same
  <2> QED BY <2>1, <2>2 DEF StagesOf
<1>7. ASSUME NEW stage \in {"storeState", "exchange", "delete", "create"}, Goes(f, stage),
             req[f].at \in {"login", "upstreamLogin"} \cup Callbacks
      PROVE  StagesOf(req'[f])
  BY <1>1, <1>7, GoesTo DEF Same, Fit, StagesOf, Callbacks
<1>8. ASSUME NEW answer, NEW sets, Replies(f, answer, sets),
             req[f].at \in {"login", "upstreamLogin", "storeState", "logout", "authorizing"} \cup Callbacks
      PROVE  StagesOf(req'[f])
  BY <1>1, <1>8, RepliesTo DEF Same, Fit, StagesOf, Callbacks
<1>9. ASSUME MakesSession(f), req[f].at \in {"login", "upstreamLogin"} PROVE StagesOf(req'[f])
  BY <1>1, <1>9, MakesTo DEF Fit, StagesOf
<1>10. CASE Visit(f)
  BY <1>1, <1>10, VisitsTo DEF Visit, StagesOf
<1>11. CASE Handle(f)
  BY <1>7, <1>8, <1>9, <1>10, <1>11
  DEF Handle, FindSession, FindUpstreamSession, StoreState, CheckState, Exchange, DeleteOld,
      CreateSession, Logout, Callbacks
<1>12. CASE LoginFails(f)
  BY <1>8, <1>12 DEF LoginFails, Callbacks
<1>13. CASE AnswerLost(f)
  <2>1. /\ req'[f].at = "lost" /\ req'[f].sets = None
        /\ req'[f].kind = req[f].kind /\ req'[f].of = req[f].of
    BY <1>1, <1>13 DEF AnswerLost, RequestType
  <2> QED BY <1>1, <1>13, <2>1 DEF StagesOf, AnswerLost
<1>14. ASSUME NEW g \in Requests, g # f, Moved(g) PROVE req'[f] = req[f]
  BY <1>1, <1>14 DEF Moved
<1> QED
  BY <1>2, <1>3, <1>4, <1>5, <1>6, <1>11, <1>12, <1>13, <1>14, SendMoves, AgreeMoves,
     HandleMoves, DeliverMoves, FailsMoves
  DEF Next, vars, CookieExpires, Expire, CleanupExpired
\* The steps that are not failures.
Acts(g) == Send(g) \/ Agree(g) \/ Handle(g) \/ Deliver(g)
Calm ==
    /\ Inv /\ [Next]_vars /\ failures = 0 /\ failures' = 0
    /\ \/ UNCHANGED vars
       \/ \E g \in Requests : Acts(g)
       \/ \E b \in Browsers : CookieExpires(b)
       \/ \E s \in Ids : CleanupExpired(s)

LEMMA NothingFails == ASSUME Inv, [Next]_vars, failures' = 0 PROVE Calm
<1>1. failures \in Nat
  BY DEF Inv, TypeOK
<1>2. ~Fails
  BY <1>1 DEF Fails
<1>3. \/ UNCHANGED vars
      \/ \E g \in Requests : Acts(g)
      \/ \E b \in Browsers : CookieExpires(b)
      \/ \E s \in Ids : CleanupExpired(s)
  BY <1>2 DEF Next, Acts, LoginFails, AnswerLost, Expire, Restart
<1>4. UNCHANGED failures
  BY <1>3
  DEF vars, Acts, Send, SendLogin, SendUpstream, SendLogout, SendVisit, SendAgain, Sends, Agree,
      Handle, FindSession, FindUpstreamSession, StoreState, CheckState, Exchange, DeleteOld,
      CreateSession, Logout, Visit, Deliver, CookieExpires, CleanupExpired
<1> QED BY <1>3, <1>4 DEF Calm

\* Who writes to a session: its own request makes it, and then requests that carry it.
Deletes(g, s) == (DeleteOld(g) \/ Logout(g)) /\ req[g].session = s /\ sessions'[s] = Gone
Writes(g, s) ==
    \/ /\ FindSession(g) \/ FindUpstreamSession(g)
       /\ s = Anonymous(g) /\ sessions'[s] = [NewSession(None) EXCEPT !.store = StoreOf(g)]
    \/ StoreState(g) /\ req[g].session = s /\ sessions'[s] = [sessions[s] EXCEPT !.state = g]
    \/ Deletes(g, s)
    \/ CreateSession(g) /\ s = OfUser(g) /\ sessions'[s] = NewSession(req[req[g].of].user)

LEMMA SessionWrites ==
    ASSUME Calm, NEW s \in Ids
    PROVE  sessions'[s] = sessions[s] \/ (\E g \in Requests : Writes(g, s)) \/ CleanupExpired(s)
<1>1. DOMAIN sessions = Ids
  BY DEF Calm, Inv, TypeOK
<1>2. CASE UNCHANGED sessions
  BY <1>2
<1>3. ASSUME NEW t \in Ids, t # s, CleanupExpired(t) PROVE sessions'[s] = sessions[s]
  BY <1>1, <1>3 DEF CleanupExpired
<1>4. ASSUME NEW g \in Requests, FindSession(g) \/ FindUpstreamSession(g)
      PROVE  sessions'[s] = sessions[s] \/ Writes(g, s)
  <2>1. CASE MakesSession(g)
    BY <1>1, <1>4, <2>1 DEF MakesSession, Writes, NewSession
  <2>2. CASE UNCHANGED sessions
    BY <2>2
  <2> QED BY <1>4, <2>1, <2>2 DEF FindSession, FindUpstreamSession
<1>5. ASSUME NEW g \in Requests, StoreState(g)
      PROVE  sessions'[s] = sessions[s] \/ Writes(g, s)
  BY <1>1, <1>5 DEF StoreState, Writes
<1>6. ASSUME NEW g \in Requests, DeleteOld(g) \/ Logout(g)
      PROVE  sessions'[s] = sessions[s] \/ Writes(g, s)
  <2>1. UNCHANGED sessions \/ sessions' = [sessions EXCEPT ![req[g].session] = Gone]
    BY <1>6 DEF DeleteOld, Logout
  <2> QED BY <1>1, <1>6, <2>1 DEF Writes, Deletes
<1>7. ASSUME NEW g \in Requests, CreateSession(g)
      PROVE  sessions'[s] = sessions[s] \/ Writes(g, s)
  <2>1. sessions' = [sessions EXCEPT ![OfUser(g)] = NewSession(req[req[g].of].user)]
    BY <1>7 DEF CreateSession, NewSession
  <2> QED BY <1>1, <1>7, <2>1 DEF Writes
<1>8. ASSUME NEW g \in Requests, Acts(g) PROVE sessions'[s] = sessions[s] \/ Writes(g, s)
  <2>1. Handle(g) => sessions'[s] = sessions[s] \/ Writes(g, s)
    BY <1>2, <1>4, <1>5, <1>6, <1>7 DEF Handle, CheckState, Exchange, Visit
  <2>2. Send(g) => UNCHANGED sessions
    BY SentAs DEF Calm
  <2> QED BY <1>2, <1>8, <2>1, <2>2 DEF Acts, Agree, Deliver
<1> QED BY <1>2, <1>3, <1>8 DEF Calm, vars, CookieExpires

LEMMA SoundStays == ASSUME Inv, [Next]_vars, Sound PROVE Sound'
<1>1. \A f \in Requests : StagesOf(req'[f])
  BY StagesStay DEF Sound
<1>2. ASSUME NEW f \in spent' PROVE req'[f].at # "idle"
  <2>1. UNCHANGED spent \/ \E g \in Requests : Exchange(g)
    BY DEF Next, vars, Send, SendLogin, SendUpstream, SendLogout, SendVisit, SendAgain, Sends, Agree,
           Handle, FindSession, FindUpstreamSession, StoreState, CheckState, DeleteOld,
           CreateSession, Logout, Visit, Deliver, LoginFails, AnswerLost, Expire, CleanupExpired,
           CookieExpires, Restart
  <2>2. CASE f \in spent
    BY <2>2, Moves DEF Keeps, Sound, Inv, TypeOK
  <2>3. ASSUME NEW g \in Requests, Exchange(g), f = req[g].of PROVE req'[f].at # "idle"
    <3>1. req[g].at = "exchange" /\ req[g].browser \in Browsers
          /\ req[g].kind \in {"login", "upstream", "again"}
      BY <2>3 DEF Exchange, At, Inv, Fits, Fit, Callbacks
    <3>2. f \in Requests /\ req[f].browser \in Browsers
      BY <2>3, <3>1, CallbackOf
    <3>3. req[f].at # "idle"
      BY <3>2, OidcAssumption DEF OidcAssumption, Inv, Fits, Fit, Idle
    <3> QED BY <3>2, <3>3, Moves DEF Keeps
  <2> QED BY <1>2, <2>1, <2>2, <2>3 DEF Exchange
<1>3. ASSUME failures' = 0
      PROVE  provider' /\ \A s \in Ids : sessions'[s].life # "expired"
  <2>1. Calm
    BY <1>3, NothingFails
  <2>2. provider /\ \A s \in Ids : sessions[s].life # "expired"
    BY <2>1 DEF Calm, Sound
  <2>3. UNCHANGED provider
    BY <2>1
    DEF Calm, vars, Acts, Send, SendLogin, SendUpstream, SendLogout, SendVisit, SendAgain, Sends,
        Agree, Handle, FindSession, FindUpstreamSession, StoreState, CheckState, Exchange,
        DeleteOld, CreateSession, Logout, Visit, Deliver, CookieExpires, CleanupExpired
  <2>4. ASSUME NEW s \in Ids PROVE sessions'[s].life # "expired"
    <3>1. sessions[s] \in SessionType /\ sessions[s].life # "expired"
      BY <2>2 DEF Inv, TypeOK, SessionType
    <3>2. \A g \in Requests : Writes(g, s) => sessions'[s].life # "expired"
      BY <3>1 DEF Writes, Deletes, Gone, NewSession, SessionType
    <3>3. ~CleanupExpired(s)
      BY <3>1 DEF CleanupExpired
    <3> QED BY <2>1, <3>1, <3>2, <3>3, SessionWrites
  <2> QED BY <2>2, <2>3, <2>4
<1> QED BY <1>1, <1>2, <1>3 DEF Sound
(***************************************************************************)
(* A step of another browser.                                              *)
(***************************************************************************)
Step ==
    /\ Calm /\ Inv' /\ Sound /\ Sound' /\ provider
    /\ \/ UNCHANGED vars
       \/ \E g \in Requests : Acts(g)
       \/ \E b \in Browsers : CookieExpires(b)

LEMMA StepOf == ASSUME Inv, [Next]_vars, Sound, failures' = 0 PROVE Step
<1>1. Calm /\ Inv' /\ Sound'
  BY NothingFails, Inductive, SoundStays
<1>2. provider /\ \A s \in Ids : ~CleanupExpired(s)
  BY <1>1 DEF Calm, Sound, CleanupExpired
<1> QED BY <1>1, <1>2 DEF Step, Calm

LEMMA NoBrowser == None \notin Browsers /\ None \notin Requests
BY OidcAssumption DEF OidcAssumption

LEMMA OneActs ==
    ASSUME Step, NEW g \in Requests, Acts(g)
    PROVE  /\ \A h \in Requests \ {g} : req'[h] = req[h]
           /\ req[g].browser \in Browsers => req'[g].browser = req[g].browser
           /\ ~Send(g) => req[g].browser \in Browsers
           /\ req'[g].browser \in Browsers /\ req'[g].at # "idle"
<1>1. Moved(g) /\ Inv
  BY SendMoves, AgreeMoves, HandleMoves, DeliverMoves DEF Step, Calm, Acts
<1>2. \A h \in Requests \ {g} : req'[h] = req[h]
  BY <1>1 DEF Moved, Inv, TypeOK
<1>3. Fit(g, req[g]) /\ Keeps(req[g], req'[g]) /\ Fit(g, req'[g])
  BY <1>1 DEF Moved, Inv, Fits
<1>4. req[g].browser \in Browsers => req[g].at # "idle"
  BY <1>3, NoBrowser DEF Fit, Idle
<1>5. ~Send(g) => req[g].at # "idle"
  BY DEF Acts, Agree, Deliver, Handle, FindSession, FindUpstreamSession, StoreState, CheckState,
         Exchange, DeleteOld, CreateSession, Logout, Visit, At
<1>6. Send(g) => req'[g].at # "idle"
  BY <1>1, SentAs
<1> QED BY <1>2, <1>3, <1>4, <1>5, <1>6 DEF Fit, Keeps

LEMMA WritesOwn ==
    ASSUME Step, NEW g \in Requests, NEW s \in Ids, Writes(g, s)
    PROVE  /\ Acts(g) /\ Owner(s) = req[g].browser /\ req'[g].browser = req[g].browser
           /\ req[g].browser \in Browsers
<1>1. Handle(g)
  BY DEF Writes, Deletes, Handle
<1>2. req[g].browser \in Browsers /\ req'[g].browser = req[g].browser
  <2>1. Acts(g) /\ ~(req[g].at = "idle")
    BY <1>1
    DEF Acts, Handle, FindSession, FindUpstreamSession, StoreState, CheckState, Exchange,
        DeleteOld, CreateSession, Logout, Visit, At
  <2>2. req[g].browser \in Browsers
    BY <2>1 DEF Step, Calm, Inv, Fits, Fit
  <2> QED BY <2>1, <2>2, OneActs
<1>3. Owner(s) = req[g].browser
  <2>1. CASE s = Anonymous(g) \/ s = OfUser(g)
    BY <2>1 DEF Anonymous, OfUser, Owner
  <2>2. CASE req[g].session = s
    BY <2>2, NotIds DEF Step, Calm, Inv, Owned, Known
  <2> QED BY <2>1, <2>2 DEF Writes, Deletes
<1> QED BY <1>1, <1>2, <1>3 DEF Acts

\* Sessions change by who shares their browser.
LEMMA SessionStays ==
    ASSUME Step, NEW s \in Ids, \A g \in Requests : Acts(g) => req'[g].browser # Owner(s)
    PROVE  sessions'[s] = sessions[s]
<1>1. \A g \in Requests : ~Writes(g, s)
  BY WritesOwn
<1>2. ~CleanupExpired(s)
  BY DEF Step, Calm, Sound, CleanupExpired
<1> QED BY <1>1, <1>2, SessionWrites DEF Step

LEMMA OfThen ==
    ASSUME Step, NEW g \in Requests, NEW f \in Requests, req'[g].of = f
    PROVE  req'[f].browser = req'[g].browser
BY NoBrowser DEF Step, Sound, StagesOf, Inv, Fits, Fit, Linked, Idle

\* What holds of a browser, holds as long as its requests, cookie and sessions stay.
LEMMA Framed ==
    ASSUME Step, NEW b \in Browsers, Orderly(b), cookie'[b] = cookie[b],
           \A g \in Requests : Acts(g) => req'[g].browser # b
    PROVE  Orderly(b)'
<1>1. ASSUME NEW h \in Requests
      PROVE  /\ req'[h].browser = b <=> req[h].browser = b
             /\ req[h].browser = b => req'[h] = req[h]
  <2>1. CASE \E g \in Requests : Acts(g)
    <3>1. PICK g \in Requests : Acts(g)
      BY <2>1
    <3>2. req[g].browser # b /\ req'[g].browser # b
      BY <3>1, OneActs
    <3> QED BY <3>1, <3>2, OneActs
  <2>2. CASE UNCHANGED req
    BY <2>2
  <2> QED BY <2>1, <2>2 DEF Step, vars, CookieExpires
<1>2. Of(b)' = Of(b) /\ \A f \in Of(b) : req'[f] = req[f]
  BY <1>1 DEF Of
<1>3. \A s \in Ids : (Owner(s) = b => sessions'[s] = sessions[s]) /\ (Owner(s)' = b <=> Owner(s) = b)
  <2>1. \A s \in Ids : s[1] \in Requests
    BY DEF Ids
  <2> QED BY <1>1, <2>1, SessionStays DEF Owner
<1>4. Inv
  BY DEF Step, Calm
<1>5. cookie[b] # None => cookie[b] \in Ids /\ Owner(cookie[b]) = b
  BY <1>4 DEF Inv, TypeOK, Owned, Known
<1>6. \A f \in Of(b) : (req[f].sets \in Ids => Owner(req[f].sets) = b)
                       /\ (req[f].session # None => req[f].session \in Ids /\ Owner(req[f].session) = b)
  BY <1>4 DEF Inv, TypeOK, Owned, Known, Of
<1>7. \A s \in Ids : Owner(s) = b => (Existing(s)' <=> Existing(s))
  BY <1>3 DEF Existing, Found
<1>8. OneByOne(b)'
  BY <1>2 DEF Orderly, OneByOne, Busy
<1>9. UserReachable(b)'
  <2> SUFFICES ASSUME NEW s \in Ids, UserSession(s)', Owner(s)' = b PROVE Reachable(b, s)'
    BY DEF UserReachable
  <2>1. UserSession(s) /\ Owner(s) = b
    BY <1>3 DEF UserSession
  <2>2. s[1] \in Of(b)
    BY <2>1 DEF Owner, Of, Ids
  <2> QED BY <1>2, <2>1, <2>2 DEF Orderly, UserReachable, Reachable, At
<1>10. CookieExists(b)'
  <2>1. \A f \in Of(b) : Replaced(f)' <=> Replaced(f)
    BY <1>2 DEF Replaced, At
  <2> QED BY <1>2, <1>5, <1>7, <2>1 DEF Orderly, CookieExists
<1>11. ASSUME NEW f \in Of(b) PROVE LoginFinds(b, f)' /\ CalledOnce(f)' /\ StateKept(b, f)'
  <2>1. req'[f] = req[f] /\ f \in Requests
    BY <1>2 DEF Of
  <2>2. Coming(b, f)' = Coming(b, f)
    BY <2>1 DEF Coming
  <2>3. LoginFinds(b, f) /\ CalledOnce(f) /\ StateKept(b, f)
    BY DEF Orderly
  <2>4. Coming(b, f) \in Ids => Owner(Coming(b, f)) = b
    BY <1>5, <1>6 DEF Coming
  <2>5. LoginFinds(b, f)'
    <3>1. Existing(Coming(b, f)) => Existing(Coming(b, f))'
      BY <1>7, <2>2, <2>4 DEF Existing
    <3> QED BY <1>5, <1>6, <1>7, <2>1, <2>2, <2>3, <3>1 DEF LoginFinds, At
  <2>6. CalledOnce(f)'
    <3> SUFFICES ASSUME Open(f)' PROVE f \notin spent' /\ \A g \in Requests : req'[g].of = f => g = f
      BY DEF CalledOnce
    <3>1. Open(f)
      BY <2>1 DEF Open, At
    <3>2. f \notin spent /\ \A g \in Requests : req[g].of = f => g = f
      BY <2>3, <3>1 DEF CalledOnce
    <3>3. \A g \in Requests : req'[g].of = f => g = f
      BY <1>1, <1>2, <2>1, <3>2, OfThen DEF Of
    <3>4. UNCHANGED spent \/ \E g \in Requests : Exchange(g)
      BY DEF Step, vars, Acts, Send, SendLogin, SendUpstream, SendLogout, SendVisit, SendAgain,
             Sends, Agree, Handle, FindSession, FindUpstreamSession, StoreState, CheckState,
             DeleteOld, CreateSession, Logout, Visit, Deliver, CookieExpires
    <3>5. ASSUME NEW g \in Requests, Exchange(g) PROVE req[g].of # f
      <4>1. Acts(g) /\ req'[g].browser # b
        BY <3>5 DEF Acts, Handle
      <4>2. g # f
        BY <1>1, <4>1 DEF Of
      <4> QED BY <3>2, <4>2
    <3> QED BY <3>2, <3>3, <3>4, <3>5 DEF Exchange
  <2>7. StateKept(b, f)'
    <3> SUFFICES ASSUME Sole(b, f)' PROVE StateKept(b, f)'
      BY DEF StateKept
    <3>1. Sole(b, f)
      BY <1>2, <2>1 DEF Sole
    <3>2. \A s \in Ids : Owner(s) = b => (HasState(s, f)' <=> HasState(s, f))
      BY <1>3, <1>7 DEF HasState
    <3>3. HasState(Coming(b, f), f) => HasState(Coming(b, f), f)'
      BY <2>2, <2>4, <3>2 DEF HasState, Existing
    <3>4. HasState(cookie[b], f) => HasState(cookie[b], f)'
      BY <1>5, <3>2, NotIds DEF HasState, Existing
    <3>5. HasState(req[f].session, f) => HasState(req[f].session, f)'
      BY <1>6, <2>1, <3>2, NotIds DEF HasState, Existing
    <3> QED BY <2>1, <2>3, <3>1, <3>3, <3>4, <3>5 DEF StateKept, At
  <2> QED BY <2>5, <2>6, <2>7
<1> QED BY <1>2, <1>8, <1>9, <1>10, <1>11 DEF Orderly
\* A cookie expires only after its session has gone.
LEMMA CookieGone ==
    ASSUME Step, NEW b \in Browsers, Orderly(b), CookieExpires(b)
    PROVE  Orderly(b)'
<1>1. cookie'[b] = None /\ UNCHANGED <<req, sessions, spent>>
  BY DEF CookieExpires, Step, Calm, Inv, TypeOK
<1>2. cookie[b] \in Ids /\ ~Existing(cookie[b]) /\ ~UserSession(cookie[b])
  BY DEF CookieExpires, Step, Calm, Sound, Inv, TypeOK, Existing, Found, UserSession
<1>3. Of(b)' = Of(b)
  BY <1>1 DEF Of
<1>4. OneByOne(b)'
  BY <1>1, <1>3 DEF Orderly, OneByOne, Busy
<1>5. UserReachable(b)'
  <2> SUFFICES ASSUME NEW s \in Ids, UserSession(s)', Owner(s)' = b PROVE Reachable(b, s)'
    BY DEF UserReachable
  <2>1. UserSession(s) /\ Owner(s) = b
    BY <1>1 DEF UserSession, Owner
  <2>2. Reachable(b, s) /\ s # cookie[b]
    BY <1>2, <2>1 DEF Orderly, UserReachable
  <2> QED BY <1>1, <1>3, <2>2 DEF Reachable, At
<1>6. CookieExists(b)'
  BY <1>1 DEF CookieExists
<1>7. ASSUME NEW f \in Of(b) PROVE LoginFinds(b, f)' /\ CalledOnce(f)' /\ StateKept(b, f)'
  <2>1. LoginFinds(b, f) /\ CalledOnce(f) /\ StateKept(b, f)
    BY <1>3, <1>7 DEF Orderly
  <2>2. \A s : Existing(s)' <=> Existing(s)
    BY <1>1 DEF Existing, Found
  <2>3. Existing(Coming(b, f)) => Coming(b, f)' = Coming(b, f)
    BY <1>1, <1>2 DEF Coming
  <2>4. \A s : HasState(s, f)' <=> HasState(s, f)
    BY <1>1, <2>2 DEF HasState
  <2>5. LoginFinds(b, f)'
    <3>1. req[f].at # "login"
      BY <1>2, <2>1, NotIds DEF LoginFinds, At
    <3>2. Existing(Coming(b, f)) => Existing(Coming(b, f))'
      BY <2>2, <2>3
    <3> QED BY <1>1, <2>1, <2>2, <2>3, <3>1, <3>2 DEF LoginFinds, At
  <2>6. CalledOnce(f)'
    BY <1>1, <2>1 DEF CalledOnce, Open, At
  <2>7. StateKept(b, f)'
    <3> SUFFICES ASSUME Sole(b, f)' PROVE StateKept(b, f)'
      BY DEF StateKept
    <3>1. Sole(b, f)
      BY <1>1, <1>3 DEF Sole
    <3>2. HasState(Coming(b, f), f) => HasState(Coming(b, f), f)'
      BY <2>3, <2>4 DEF HasState
    <3>3. ~HasState(cookie[b], f)
      BY <1>2 DEF HasState
    <3>4. HasState(req[f].session, f) => HasState(req[f].session, f)'
      BY <1>1, <2>4
    <3> QED BY <1>1, <2>1, <3>1, <3>2, <3>3, <3>4 DEF StateKept, At
  <2> QED BY <2>5, <2>6, <2>7
<1> QED BY <1>3, <1>4, <1>5, <1>6, <1>7 DEF Orderly

(***************************************************************************)
(* A step of the browser itself.  Other requests of it only wait.          *)
(***************************************************************************)
Acting(b, g) ==
    /\ Step /\ Acts(g) /\ req'[g].browser = b
    /\ Orderly(b) /\ Patient(b) /\ Patient(b)'

LEMMA UsedStays ==
    ASSUME Step, NEW b \in Browsers, Patient(b)'
    PROVE  Patient(b)
<1>1. b \notin overlapped
  <2>1. overlapped \subseteq overlapped'
    <3>1. \A g \in Requests : Send(g) => NotesOverlap(req'[g].browser)
      BY SentAs DEF Step, Calm
    <3> QED
      BY <3>1
      DEF Step, vars, Acts, Agree, NotesOverlap, Handle, FindSession, FindUpstreamSession,
          StoreState, CheckState, Exchange, DeleteOld, CreateSession, Logout, Visit, Deliver,
          CookieExpires
  <2> QED BY <2>1 DEF Patient
<1>2. ASSUME NEW f \in Requests, req[f].kind = "upstream", req[f].browser = b PROVE FALSE
  <2>1. req[f].at # "idle"
    BY <1>2, NoBrowser DEF Step, Calm, Inv, Fits, Fit, Idle
  <2>2. req'[f].kind = "upstream" /\ req'[f].browser = b
    BY <1>2, <2>1, Moves DEF Step, Calm, Keeps
  <2> QED BY <2>2 DEF Patient, Used
<1> QED BY <1>1, <1>2 DEF Patient, Used

\* Nothing of the browser is handled when a request is sent or comes back, and
\* nothing else when one is handled.
LEMMA OthersWait ==
    ASSUME NEW b \in Browsers, NEW g \in Requests, Acting(b, g),
           NEW h \in Requests \ {g}, req[h].browser = b
    PROVE  req'[h] = req[h] /\ ~Busy(h) /\ req[h].sets = None /\ ~Replaced(h)
<1>1. req'[h] = req[h]
  BY OneActs DEF Acting
<1>2. ASSUME Send(g) \/ Agree(g) PROVE ~Busy(h)
  <2>1. NotesOverlap(b)
    <3>1. CASE Send(g)
      BY <3>1, SentAs DEF Acting, Step, Calm
    <3>2. CASE Agree(g)
      BY <3>2, AgreesTo DEF Agree, Acting, Step, Calm
    <3> QED BY <1>2, <3>1, <3>2
  <2> QED BY <2>1 DEF NotesOverlap, Acting, Patient, Busy
<1>3. ASSUME Handle(g) \/ Deliver(g) PROVE ~Busy(h)
  <2>1. Busy(g) /\ ~Send(g)
    BY <1>3
    DEF Busy, Handled, Handle, FindSession, FindUpstreamSession, StoreState, CheckState,
        Exchange, DeleteOld, CreateSession, Logout, Visit, Deliver, At, Send, SendLogin,
        SendUpstream, SendLogout, SendVisit, SendAgain, Sends
  <2>2. req[g].browser = b
    BY <2>1, OneActs DEF Acting
  <2> QED BY <2>1, <2>2 DEF Acting, Orderly, OneByOne, Of
<1>4. ~Busy(h)
  BY <1>2, <1>3 DEF Acting, Acts
<1>5. req[h].sets = None
  BY <1>4 DEF Acting, Step, Sound, StagesOf, Busy, Handled
<1> QED BY <1>1, <1>4, <1>5 DEF Replaced, At, Busy, Handled
LEMMA Before ==
    ASSUME NEW b \in Browsers, NEW g \in Requests, Acting(b, g)
    PROVE  /\ Inv /\ Inv' /\ Sound /\ Sound' /\ provider
           /\ ~Send(g) => /\ req[g].browser = b /\ req[g].at # "idle"
                          /\ req'[g].kind = req[g].kind /\ req'[g].of = req[g].of
                          /\ req[g].kind # "upstream"
           /\ \A h \in Requests \ {g} : req'[h] = req[h]
           /\ \A h \in Requests : req'[h].browser = b /\ h # g => req[h].browser = b
<1>1. Step /\ Inv /\ Inv' /\ Sound /\ Sound' /\ provider
  BY DEF Acting, Step, Calm
<1>2. ASSUME ~Send(g)
      PROVE  /\ req[g].browser = b /\ req[g].at # "idle"
             /\ req'[g].kind = req[g].kind /\ req'[g].of = req[g].of
             /\ req[g].kind # "upstream"
  <2>1. req[g].browser = b
    BY <1>1, <1>2, OneActs DEF Acting
  <2>2. req[g].at # "idle"
    BY <1>1, <2>1, NoBrowser DEF Inv, Fits, Fit, Idle
  <2> QED BY <1>1, <2>1, <2>2, Moves DEF Keeps, Acting, Patient, Used, Step, Calm
<1>3. \A h \in Requests \ {g} : req'[h] = req[h]
  BY <1>1, OneActs DEF Acting
<1> QED BY <1>1, <1>2, <1>3

\* Open stages follow one another.
LEMMA OpenBefore ==
    ASSUME NEW b \in Browsers, NEW g \in Requests, Acting(b, g), ~Send(g), Open(g)'
    PROVE  Open(g) /\ ~Exchange(g)
<1>1. Inv /\ Sound /\ req'[g].kind = "login" /\ req[g].kind = "login"
  BY Before DEF Open
<1> USE DEF At
<1>2. CASE Agree(g)
  BY <1>1, <1>2 DEF Agree, Open, Exchange
<1>3. CASE Deliver(g)
  <2>1. req[g].at = "reply"
    BY <1>3 DEF Deliver
  <2>2. req'[g].at = "authorizing" => req[g].answer = "redirect"
    BY <1>1, <1>3, DeliversTo
  <2>3. req'[g].at \in {"authorizing", "answered"}
    BY <1>1, <1>3, DeliversTo
  <2> QED BY <1>1, <2>1, <2>2, <2>3 DEF Open, Exchange
<1>4. CASE FindSession(g) \/ StoreState(g) \/ CheckState(g)
  <2>1. req[g].at \in {"login", "storeState", "callback"}
    BY <1>4 DEF FindSession, StoreState, CheckState
  <2> QED BY <1>1, <2>1 DEF Open, Exchange
<1>5. CASE Exchange(g)
  BY <1>1, <1>5, GoesTo, RepliesTo DEF Exchange, Open
<1>6. CASE DeleteOld(g)
  BY <1>1, <1>6, GoesTo, RepliesTo DEF DeleteOld, Open
<1>7. CASE CreateSession(g)
  BY <1>1, <1>7, RepliesTo DEF CreateSession, Open
<1>8. CASE Logout(g)
  BY <1>1, <1>8, RepliesTo DEF Logout, Open
<1>9. CASE Visit(g)
  BY <1>1, <1>9, VisitsTo DEF Visit, Open
<1>10. CASE FindUpstreamSession(g)
  BY <1>1, <1>10 DEF FindUpstreamSession, Sound, StagesOf
<1> QED BY <1>2, <1>3, <1>4, <1>5, <1>6, <1>7, <1>8, <1>9, <1>10 DEF Acting, Acts, Handle

LEMMA SpentTurns ==
    ASSUME Step PROVE UNCHANGED spent \/ \E g \in Requests : Exchange(g) /\ spent' = spent \cup {req[g].of}
BY DEF Step, vars, Acts, Send, SendLogin, SendUpstream, SendLogout, SendVisit, SendAgain, Sends,
       Agree, Handle, FindSession, FindUpstreamSession, StoreState, CheckState, Exchange,
       DeleteOld, CreateSession, Logout, Visit, Deliver, CookieExpires

\* Until its code is exchanged, its callback is not called up again: that would overlap.
LEMMA CalledOnceStays ==
    ASSUME NEW b \in Browsers, NEW g \in Requests, Acting(b, g),
           NEW f \in Requests, req'[f].browser = b
    PROVE  CalledOnce(f)'
<1> SUFFICES ASSUME Open(f)' PROVE f \notin spent' /\ \A h \in Requests : req'[h].of = f => h = f
  BY DEF CalledOnce
<1>1. Step /\ Inv /\ Sound /\ Acts(g) /\ req'[f].kind = "login"
  BY Before DEF Acting, Open
<1>2. CASE f = g /\ Send(g)
  <2>1. req[f].at = "idle" /\ req[f].browser = None
    BY <1>1, <1>2, SentAs DEF Inv, Fits, Fit, Idle
  <2>2. f \notin spent
    BY <1>1, <2>1 DEF Sound
  <2>3. ASSUME NEW h \in Requests \ {f}, req'[h].of = f PROVE FALSE
    <3>1. req[h].of = f /\ req[h].kind \in {"login", "upstream", "again"} /\ req[h].at # "idle"
      BY <1>1, <1>2, <2>3, OneActs, NoBrowser DEF Sound, StagesOf, Inv, Fits, Fit, Idle
    <3> QED BY <1>1, <2>1, <3>1, CallbackOf, NoBrowser DEF Inv, Fits, Fit
  <2>4. ASSUME NEW h \in Requests, Exchange(h) PROVE req[h].of # f
    <3>1. req[h].at # "idle" /\ req[h].kind \in {"login", "upstream", "again"}
          /\ req[h].browser \in Browsers
      BY <1>1, <2>4 DEF Exchange, At, Inv, Fits, Fit, Callbacks
    <3> QED BY <1>1, <2>1, <3>1, CallbackOf, NoBrowser
  <2> QED BY <1>1, <2>2, <2>3, <2>4, SpentTurns
<1>3. CASE ~(f = g /\ Send(g))
  <2>1. Open(f) /\ (f = g => ~Exchange(g))
    <3>1. CASE f = g
      BY <1>3, <3>1, OpenBefore
    <3>2. CASE f # g
      BY <1>1, <3>2, OneActs DEF Open, At
    <3> QED BY <3>1, <3>2
  <2>2. f \notin spent /\ \A h \in Requests : req[h].of = f => h = f
    <3>1. req[f].browser = b
      BY <1>1, <1>3, Before
    <3> QED BY <2>1, <3>1 DEF Acting, Orderly, CalledOnce, Of
  <2>3. ASSUME NEW h \in Requests, Exchange(h), req[h].of = f PROVE FALSE
    <3>1. h = f
      BY <2>2, <2>3
    <3>2. req'[f] # req[f]
      BY <1>1, <2>3, <3>1, GoesTo, RepliesTo DEF Exchange, At
    <3> QED BY <1>1, <2>1, <2>3, <3>1, <3>2, OneActs
  <2>4. ASSUME NEW h \in Requests, req'[h].of = f PROVE h = f
    <3>1. CASE h # g \/ ~Send(g)
      BY <1>1, <2>2, <2>4, <3>1, OneActs, Before
    <3>2. CASE h = g /\ Send(g)
      <4>1. CASE req[f].kind = "login" /\ req[f].user # None /\ f # g
        <5>1. req[f].browser = b
          BY <1>1, <1>3, Before
        <5>2. ~Busy(f)
          BY <4>1, <5>1, OthersWait
        <5> QED BY <1>1, <2>1, <4>1, <5>2 DEF Open, Busy, Handled, At, Inv, Fits, Fit
      <4> QED BY <1>1, <1>3, <2>4, <3>2, <4>1, SentAs, NoBrowser
    <3> QED BY <3>1, <3>2
  <2> QED BY <1>1, <2>2, <2>3, <2>4, SpentTurns
<1> QED BY <1>2, <1>3

\* So a login that waits for its user keeps the state of its session.
LEMMA OthersOrderly ==
    ASSUME NEW b \in Browsers, NEW g \in Requests, Acting(b, g),
           NEW h \in Requests \ {g}, req'[h].browser = b
    PROVE  LoginFinds(b, h)' /\ StateKept(b, h)'
<1>1. req'[h] = req[h] /\ ~Busy(h) /\ req[h].sets = None /\ req[h].browser = b
  BY Before, OthersWait
<1>2. LoginFinds(b, h) /\ StateKept(b, h)
  BY <1>1 DEF Acting, Orderly, Of
<1>3. LoginFinds(b, h)'
  BY <1>1, <1>2, NotIds DEF LoginFinds, At, Busy, Handled
<1>4. ASSUME Sole(b, h)' PROVE StateKept(b, h)'
  <2>1. Sole(b, h)
    <3>1. ASSUME NEW f \in Of(b) \ {h} PROVE req[f].kind \notin {"login", "upstream", "logout"}
      <4>1. CASE f = g
        <5>1. ~Send(g)
          BY <4>1, SentAs, Before, NoBrowser DEF Inv, Fits, Fit, Idle, Of
        <5> QED BY <1>4, <4>1, <5>1, Before DEF Sole, Of, Acting
      <4>2. CASE f # g
        BY <1>4, <4>2, Before DEF Sole, Of
      <4> QED BY <4>1, <4>2
    <3> QED BY <1>1, <1>4, <3>1 DEF Sole
  <2>2. ASSUME At(h, "authorizing") PROVE UNCHANGED <<cookie, sessions>>
    <3>1. req'[g].kind \in AllKinds \ {"login", "upstream", "logout"}
      BY <1>4, OneActs, Before DEF Sole, Of, Acting, Sound, StagesOf
    <3>2. req'[g].kind # "again"
      <4> SUFFICES ASSUME req'[g].kind = "again" PROVE FALSE
        OBVIOUS
      <4>1. /\ req'[g].of \in Requests /\ req'[req'[g].of].kind = "login"
            /\ req'[req'[g].of].browser = b
        BY OneActs, Before DEF Inv, Linked, Acting
      <4>2. req'[g].of = h
        BY <1>4, <4>1 DEF Sole, Of
      <4>3. Open(h)'
        BY <1>1, <1>4, <2>2 DEF Open, At, Sole
      <4> QED BY <4>2, <4>3, CalledOnceStays DEF CalledOnce
    <3>3. Send(g) \/ Visit(g)
      <4>1. ASSUME ~Send(g) PROVE req[g].at \in {"visit", "answered", "lost"}
        BY <3>1, <3>2, <4>1, Before DEF AllKinds, Sound, StagesOf
      <4> QED
        BY <4>1
        DEF Acting, Acts, Agree, Handle, FindSession, FindUpstreamSession, StoreState,
            CheckState, Exchange, DeleteOld, CreateSession, Logout, Deliver, At
    <3> QED BY <3>3, SentAs, Before DEF Visit
  <2>3. At(h, "authorizing") => HasState(cookie[b], h)'
    BY <1>2, <2>1, <2>2 DEF StateKept, HasState, Existing, Found
  <2>4. At(h, "authorizing") => cookie'[b] = cookie[b]
    BY <2>2
  <2> QED BY <1>1, <1>2, <2>1, <2>3, <2>4 DEF StateKept, At, Busy, Handled
<1> QED BY <1>3, <1>4 DEF StateKept

LEMMA Assembled ==
    ASSUME NEW b \in Browsers, NEW g \in Requests, Acting(b, g),
           UserReachable(b)', CookieExists(b)', LoginFinds(b, g)', StateKept(b, g)'
    PROVE  Orderly(b)'
<1>1. OneByOne(b)'
  <2>1. ASSUME NEW h \in Of(b)', h # g PROVE ~Busy(h)'
    BY <2>1, Before, OthersWait DEF Of, Busy
  <2> QED BY <2>1 DEF OneByOne
<1> QED BY <1>1, CalledOnceStays, OthersOrderly DEF Orderly, Of
(***************************************************************************)
(* The session of a user.                                                  *)
(***************************************************************************)
\* It was there before, and in the cookie unless an answer brings it, or has just been made.
LEMMA UsersBefore ==
    ASSUME NEW b \in Browsers, NEW g \in Requests, Acting(b, g),
           NEW s \in Ids, UserSession(s)', Owner(s)' = b
    PROVE  \/ /\ UserSession(s) /\ Owner(s) = b /\ Reachable(b, s) /\ ~Deletes(g, s)
              /\ ~At(g, "reply") => cookie[b] = s
           \/ CreateSession(g) /\ s = OfUser(g)
<1>1. Step /\ Inv /\ Inv' /\ Calm /\ Sound /\ s[1] \in Requests
  BY Before DEF Acting, Step, Ids
<1>2. ASSUME UserSession(s), ~Deletes(g, s)
      PROVE  /\ UserSession(s) /\ Owner(s) = b /\ Reachable(b, s) /\ ~Deletes(g, s)
             /\ ~At(g, "reply") => cookie[b] = s
  <2>1. req[s[1]].at # "idle"
    BY <1>1, <1>2 DEF UserSession, Backed, Made, Inv, Fits, Fit, Idle
  <2>2. Owner(s) = b
    BY <1>1, <2>1, Moves DEF Calm, Keeps, Owner
  <2>3. Reachable(b, s)
    BY <1>2, <2>2 DEF Acting, Orderly, UserReachable
  <2>4. ASSUME ~At(g, "reply") PROVE ~At(s[1], "reply")
    <3>1. CASE s[1] = g
      BY <2>4, <3>1
    <3>2. CASE s[1] # g
      BY <1>1, <2>2, <3>2, OthersWait DEF Owner, Busy, Handled, At
    <3> QED BY <3>1, <3>2
  <2> QED BY <1>2, <2>2, <2>3, <2>4 DEF Reachable
<1>3. ~Deletes(g, s)
  BY DEF Deletes, Gone, UserSession
<1>4. ~CleanupExpired(s)
  BY <1>1 DEF Calm, Sound, CleanupExpired
<1>5. CASE sessions'[s] = sessions[s]
  BY <1>2, <1>3, <1>5 DEF UserSession
<1>6. ASSUME NEW h \in Requests, Writes(h, s)
      PROVE  UserSession(s) \/ (CreateSession(h) /\ s = OfUser(h))
  <2>1. [NewSession(None) EXCEPT !.store = StoreOf(h)].user = None
    BY DEF NewSession
  <2>2. sessions[s] \in SessionType
    BY <1>1 DEF Inv, TypeOK, SessionType
  <2>3. [sessions[s] EXCEPT !.state = h].user = sessions[s].user
        /\ [sessions[s] EXCEPT !.state = h].life = sessions[s].life
    BY <2>2 DEF SessionType
  <2>4. sessions'[s].life = "live" /\ sessions'[s].user # None
    BY DEF UserSession
  <2>5. sessions'[s] # Gone
    BY <2>4 DEF Gone
  <2>6. CASE sessions'[s] = [sessions[s] EXCEPT !.state = h]
    BY <2>3, <2>4, <2>6 DEF UserSession
  <2> QED BY <1>6, <2>1, <2>4, <2>5, <2>6 DEF Writes, Deletes
<1>7. ASSUME NEW h \in Requests, CreateSession(h) PROVE h = g
  <2>1. Acts(h) /\ req'[h] # req[h]
    BY <1>1, <1>7, RepliesTo DEF Acts, Handle, CreateSession, At
  <2> QED BY <2>1, Before
<1> QED BY <1>1, <1>2, <1>3, <1>4, <1>5, <1>6, <1>7, SessionWrites

LEMMA ReachableBy ==
    ASSUME NEW b \in Browsers, NEW g \in Requests, Acting(b, g), NEW s \in Ids,
           cookie'[b] = s \/ (s[1] = g /\ req'[g].at = "reply" /\ req'[g].sets = s),
           req'[g].at \in {"login", "callback", "exchange", "delete", "logout"}
               => req'[g].session = s,
           req'[g].at # "create",
           req'[g].at \in {"storeState", "reply"} => req'[g].sets \in {None, s}
    PROVE  Reachable(b, s)'
<1>1. ASSUME NEW h \in Of(b)', h # g
      PROVE  req'[h].at \notin {"login", "callback", "exchange", "delete", "logout", "create",
                               "storeState", "reply"}
  BY <1>1, Before, OthersWait DEF Of, Busy, Handled
<1> QED BY <1>1 DEF Reachable, At

\* What is left to show of the request that acts.
Mine(b, g) ==
    UserReachable(b)' /\ CookieExists(b)' /\ LoginFinds(b, g)' /\ StateKept(b, g)'

LEMMA SoleBefore ==
    ASSUME NEW b \in Browsers, NEW g \in Requests, Acting(b, g), ~Send(g), Sole(b, g)'
    PROVE  Sole(b, g) /\ StateKept(b, g) /\ LoginFinds(b, g) /\ CalledOnce(g)
<1>1. \A h \in Of(b) \ {g} : h \in Of(b)' \ {g} /\ req'[h] = req[h]
  BY Before DEF Of
<1>2. req'[g].kind = req[g].kind /\ g \in Of(b)
  BY Before DEF Of
<1> QED BY <1>1, <1>2 DEF Sole, Acting, Orderly

\* Nobody else is about to set a cookie.
LEMMA CookieBefore ==
    ASSUME NEW b \in Browsers, NEW g \in Requests, Acting(b, g), cookie[b] # None,
           Replaced(g) => Send(g)
    PROVE  Existing(cookie[b])
<1>1. \A h \in Of(b) : h # g => ~Replaced(h)
  BY OthersWait DEF Of
<1>2. g \in Of(b) => ~Send(g)
  BY SentAs, Before, NoBrowser DEF Of, Inv, Fits, Fit, Idle
<1> QED BY <1>1, <1>2 DEF Acting, Orderly, CookieExists

LEMMA SendOrderly ==
    ASSUME NEW b \in Browsers, NEW g \in Requests, Acting(b, g), Send(g) PROVE Mine(b, g)
<1>1. Inv /\ req'[g].browser = b
  BY Before DEF Acting
<1>2. /\ UNCHANGED <<cookie, sessions>> /\ req[g].at = "idle"
      /\ req'[g].at \in {"login", "upstreamLogin", "logout", "visit", "callback"}
      /\ req'[g].session = cookie[b] /\ req'[g].sets = None /\ req'[g].answer = "none"
      /\ req'[g].at = "callback" => req'[g].kind = "again"
  BY <1>1, SentAs
<1>3. ~Replaced(g)
  BY <1>2 DEF Replaced, At
<1>4. cookie[b] # None => Existing(cookie[b])' /\ cookie'[b] = cookie[b]
  BY <1>2, <1>3, CookieBefore DEF Existing, Found
<1>5. UserReachable(b)'
  <2> SUFFICES ASSUME NEW s \in Ids, UserSession(s)', Owner(s)' = b PROVE Reachable(b, s)'
    BY DEF UserReachable
  <2>1. cookie[b] = s
    BY <1>2, UsersBefore DEF At, CreateSession
  <2> QED BY <1>2, <2>1, ReachableBy
<1>6. CookieExists(b)'
  BY <1>2, <1>4 DEF CookieExists
<1>7. LoginFinds(b, g)'
  BY <1>2, <1>4, NotIds DEF LoginFinds, At
<1>8. StateKept(b, g)'
  BY <1>2 DEF StateKept, At, Sole
<1> QED BY <1>5, <1>6, <1>7, <1>8 DEF Mine

LEMMA AgreeOrderly ==
    ASSUME NEW b \in Browsers, NEW g \in Requests, Acting(b, g), Agree(g) PROVE Mine(b, g)
<1>1. /\ Inv /\ ~Send(g) /\ req[g].browser = b /\ req[g].at = "authorizing" /\ req[g].sets = None
      /\ UNCHANGED <<cookie, sessions>>
  <2>1. req[g].at = "authorizing" /\ UNCHANGED <<cookie, sessions>>
    BY DEF Agree, At
  <2>2. ~Send(g)
    BY <2>1, SentAs, Before
  <2> QED BY <2>1, <2>2, Before DEF Sound, StagesOf
<1>2. /\ req'[g].at = "callback" /\ req'[g].sets = None /\ req'[g].answer = "none"
      /\ req'[g].session = cookie[b]
  BY <1>1, AgreesTo
<1>3. UserReachable(b)'
  <2> SUFFICES ASSUME NEW s \in Ids, UserSession(s)', Owner(s)' = b PROVE Reachable(b, s)'
    BY DEF UserReachable
  <2>1. cookie[b] = s
    BY <1>1, UsersBefore DEF At, CreateSession
  <2> QED BY <1>1, <1>2, <2>1, ReachableBy
<1>4. CookieExists(b)'
  <2>1. cookie[b] # None => Existing(cookie[b])
    BY <1>1, CookieBefore DEF Replaced, At
  <2> QED BY <1>1, <2>1 DEF CookieExists, Existing, Found
<1>5. LoginFinds(b, g)'
  BY <1>2, NotIds DEF LoginFinds, At
<1>6. StateKept(b, g)'
  <2> SUFFICES ASSUME Sole(b, g)' PROVE HasState(req[g].session, g)'
    BY <1>2 DEF StateKept, At
  <2>1. HasState(cookie[b], g)
    BY <1>1, SoleBefore DEF StateKept, At
  <2> QED BY <1>1, <1>2, <2>1 DEF HasState, Existing, Found
<1> QED BY <1>3, <1>4, <1>5, <1>6 DEF Mine
\* Sessions are as they were: then only the request itself matters.
LEMMA Unwritten ==
    ASSUME NEW b \in Browsers, NEW g \in Requests, Acting(b, g), ~Send(g),
           UNCHANGED <<cookie, sessions>>, req[g].at \notin {"reply", "create"},
           req'[g].at \notin {"login", "storeState", "callback", "create"}, req'[g].sets = None,
           req'[g].at \in {"exchange", "delete", "logout"}
               => req[g].at \in {"callback", "exchange", "logout"} /\ req'[g].session = req[g].session,
           req'[g].kind = "login" => req'[g].answer # "error"
    PROVE  UserReachable(b)' /\ CookieExists(b)' /\ LoginFinds(b, g)'
<1>1. UserReachable(b)'
  <2> SUFFICES ASSUME NEW s \in Ids, UserSession(s)', Owner(s)' = b PROVE Reachable(b, s)'
    BY DEF UserReachable
  <2>1. cookie[b] = s /\ Reachable(b, s)
    BY UsersBefore DEF At, CreateSession
  <2>2. g \in Of(b)
    BY Before DEF Of
  <2>3. req'[g].at \in {"exchange", "delete", "logout"} => req'[g].session = s
    BY <2>1, <2>2 DEF Reachable
  <2> QED BY <2>1, <2>3, ReachableBy
<1>2. CookieExists(b)'
  <2>1. cookie[b] # None => Existing(cookie[b])
    BY CookieBefore DEF Replaced, At
  <2> QED BY <2>1 DEF CookieExists, Existing, Found
<1>3. LoginFinds(b, g)'
  BY NotIds DEF LoginFinds, At
<1> QED BY <1>1, <1>2, <1>3

LEMMA FindOrderly ==
    ASSUME NEW b \in Browsers, NEW g \in Requests, Acting(b, g), FindSession(g) PROVE Mine(b, g)
<1>1. /\ Inv /\ ~Send(g) /\ req[g].browser = b /\ req[g].at = "login" /\ req[g].kind = "login"
      /\ req[g].sets = None /\ req[g].answer = "none" /\ UNCHANGED cookie /\ provider
  <2>1. req[g].at = "login" /\ UNCHANGED cookie
    BY DEF FindSession, At
  <2>2. ~Send(g)
    BY <2>1, SentAs, Before
  <2> QED BY <2>1, <2>2, Before DEF Sound, StagesOf, Inv, Fits, Fit, Done
<1>2. LoginFinds(b, g) /\ req[g].session = cookie[b] /\ (cookie[b] # None => Existing(cookie[b]))
  BY <1>1 DEF Acting, Orderly, LoginFinds, At, Of
<1>3. CASE req[g].session # None
  <2>1. /\ Same(g) /\ req'[g].at = "storeState" /\ req'[g].sets = None /\ req'[g].answer = "none"
        /\ UNCHANGED sessions
    BY <1>1, <1>3, GoesTo DEF FindSession
  <2>2. UserReachable(b)'
    <3> SUFFICES ASSUME NEW s \in Ids, UserSession(s)', Owner(s)' = b PROVE Reachable(b, s)'
      BY DEF UserReachable
    <3>1. cookie[b] = s
      BY <1>1, UsersBefore DEF At, CreateSession
    <3> QED BY <1>1, <2>1, <3>1, ReachableBy
  <2>3. Existing(cookie[b])'
    BY <1>1, <1>2, <1>3, <2>1 DEF Existing, Found
  <2>4. LoginFinds(b, g)'
    BY <1>1, <1>2, <2>1, <2>3, NotIds DEF LoginFinds, At, Coming, Same
  <2>5. StateKept(b, g)'
    BY <2>1 DEF StateKept, At
  <2> QED BY <2>2, <2>3, <2>4, <2>5 DEF Mine, CookieExists
<1>4. CASE req[g].session = None
  <2>1. MakesSession(g) /\ cookie[b] = None
    BY <1>1, <1>2, <1>4 DEF FindSession
  <2>2. /\ req'[g].at = "storeState" /\ req'[g].sets = Anonymous(g) /\ req'[g].answer = "none"
        /\ req'[g].session = Anonymous(g)
    BY <1>1, <2>1, MakesTo
  <2>3. Anonymous(g) \in Ids
    BY DEF Anonymous, Ids
  <2>4. Existing(Anonymous(g))'
    <3>1. /\ sessions'[Anonymous(g)].life = "live" /\ sessions'[Anonymous(g)].store = Admin
          /\ Anonymous(g) # None
      BY <1>1, <2>1, <2>3, NotIds DEF MakesSession, StoreOf, Inv, TypeOK
    <3> QED BY <2>3, <3>1 DEF Existing, Found
  <2>5. UserReachable(b)'
    <3> SUFFICES ASSUME NEW s \in Ids, UserSession(s)', Owner(s)' = b PROVE FALSE
      BY DEF UserReachable
    <3> QED BY <1>1, <2>1, UsersBefore, NotIds DEF At, CreateSession
  <2>6. CookieExists(b)'
    BY <1>1, <2>1 DEF CookieExists
  <2>7. LoginFinds(b, g)'
    BY <2>2, <2>3, <2>4, NotIds DEF LoginFinds, At, Coming
  <2>8. StateKept(b, g)'
    BY <2>2 DEF StateKept, At
  <2> QED BY <2>5, <2>6, <2>7, <2>8 DEF Mine
<1> QED BY <1>3, <1>4

LEMMA StoreOrderly ==
    ASSUME NEW b \in Browsers, NEW g \in Requests, Acting(b, g), StoreState(g) PROVE Mine(b, g)
<1>1. /\ Inv /\ ~Send(g) /\ req[g].browser = b /\ req[g].at = "storeState" /\ req[g].kind = "login"
      /\ UNCHANGED cookie
  <2>1. req[g].at = "storeState" /\ UNCHANGED cookie
    BY DEF StoreState, At
  <2>2. ~Send(g)
    BY <2>1, SentAs, Before
  <2> QED BY <2>1, <2>2, Before DEF Inv, Fits, Fit
<1>2. g \in Of(b) /\ LoginFinds(b, g)
  BY <1>1 DEF Acting, Orderly, Of
<1>3. req[g].session = Coming(b, g) /\ Existing(Coming(b, g)) /\ req[g].session \in Ids
  BY <1>1, <1>2 DEF LoginFinds, At, Existing
<1>4. Found(StoreOf(g), req[g].session)
  BY <1>1, <1>3 DEF Existing, StoreOf
<1>5. /\ Same(g) /\ req'[g].at = "reply" /\ req'[g].sets = req[g].sets /\ req'[g].answer = "redirect"
      /\ sessions' = [sessions EXCEPT ![req[g].session].state = g]
  BY <1>1, <1>4, RepliesTo DEF StoreState
<1>6. \A s : Existing(s) => Existing(s)'
  <2>1. \A s \in Ids : sessions'[s].life = sessions[s].life /\ sessions'[s].store = sessions[s].store
    BY <1>1, <1>5 DEF Inv, TypeOK
  <2> QED BY <2>1 DEF Existing, Found
<1>7. UserReachable(b)'
  <2> SUFFICES ASSUME NEW s \in Ids, UserSession(s)', Owner(s)' = b PROVE Reachable(b, s)'
    BY DEF UserReachable
  <2>1. cookie[b] = s /\ Reachable(b, s)
    BY <1>1, UsersBefore DEF At, CreateSession
  <2>2. req[g].sets \in {None, s}
    BY <1>1, <1>2, <2>1 DEF Reachable, At
  <2> QED BY <1>1, <1>5, <2>1, <2>2, ReachableBy
<1>8. CookieExists(b)'
  <2>1. cookie[b] # None => Existing(cookie[b])
    BY <1>1, CookieBefore DEF Replaced, At
  <2> QED BY <1>1, <1>6, <2>1 DEF CookieExists
<1>9. LoginFinds(b, g)'
  BY <1>2, <1>5, <1>6 DEF LoginFinds, At
<1>10. StateKept(b, g)'
  <2>1. Coming(b, g)' = req[g].session
    BY <1>1, <1>3, <1>5 DEF Coming
  <2>2. Existing(req[g].session) /\ sessions'[req[g].session].state = g
    BY <1>1, <1>3, <1>5 DEF Inv, TypeOK
  <2>3. HasState(Coming(b, g), g)'
    BY <1>6, <2>1, <2>2 DEF HasState, Existing, Found
  <2> QED BY <1>5, <2>3 DEF StateKept, At
<1> QED BY <1>7, <1>8, <1>9, <1>10 DEF Mine

LEMMA CheckOrderly ==
    ASSUME NEW b \in Browsers, NEW g \in Requests, Acting(b, g), CheckState(g) PROVE Mine(b, g)
<1>1. /\ Inv /\ ~Send(g) /\ req[g].at = "callback" /\ req[g].sets = None /\ req[g].answer = "none"
      /\ req[g].kind \in {"login", "again"} /\ (req[g].kind = "login" => req[g].of = g)
      /\ UNCHANGED <<cookie, sessions>> /\ provider
  <2>1. req[g].at = "callback" /\ UNCHANGED <<cookie, sessions>>
    BY DEF CheckState, At
  <2>2. ~Send(g)
    BY <2>1, SentAs, Before
  <2> QED BY <2>1, <2>2, Before DEF Sound, StagesOf, Inv, Fits, Fit, Done, Callbacks
<1>2. \/ Goes(g, "exchange") /\ StateMatches(g)
      \/ Replies(g, "refused", None) /\ ~StateMatches(g)
  BY <1>1 DEF CheckState
<1>3. /\ Same(g) /\ req'[g].at \in {"exchange", "reply"} /\ req'[g].sets = None
      /\ req'[g].answer \in {"none", "refused"}
      /\ req'[g].answer = "refused" => ~StateMatches(g)
  BY <1>1, <1>2, GoesTo, RepliesTo
<1>4. UserReachable(b)' /\ CookieExists(b)' /\ LoginFinds(b, g)'
  BY <1>1, <1>3, Unwritten DEF Same
<1>5. StateKept(b, g)'
  <2> SUFFICES ASSUME Sole(b, g)' PROVE req'[g].answer # "refused"
    BY <1>3 DEF StateKept, At
  <2>1. Sole(b, g) /\ StateKept(b, g)
    BY <1>1, SoleBefore
  <2>2. HasState(req[g].session, g)
    BY <1>1, <2>1 DEF StateKept, At
  <2>3. req[g].kind = "login"
    BY <2>1 DEF Sole
  <2>4. StateMatches(g)
    BY <1>1, <2>2, <2>3 DEF StateMatches, HasState, Existing, StoreOf
  <2> QED BY <1>3, <2>4
<1> QED BY <1>4, <1>5 DEF Mine
LEMMA ExchangeOrderly ==
    ASSUME NEW b \in Browsers, NEW g \in Requests, Acting(b, g), Exchange(g) PROVE Mine(b, g)
<1>1. /\ Inv /\ ~Send(g) /\ req[g].at = "exchange" /\ req[g].sets = None /\ req[g].answer = "none"
      /\ req[g].kind = "login" => req[g].of = g /\ req[g].user # None
      /\ UNCHANGED <<cookie, sessions>>
  <2>1. req[g].at = "exchange" /\ UNCHANGED <<cookie, sessions>>
    BY DEF Exchange, At
  <2>2. ~Send(g)
    BY <2>1, SentAs, Before
  <2> QED BY <2>1, <2>2, Before DEF Sound, StagesOf, Inv, Fits, Fit, Done, Callbacks
<1>2. \/ Goes(g, "delete")
      \/ /\ Replies(g, "refused", None)
         /\ req[g].of \in spent \/ req[req[g].of].user \notin Allowed \cup {None}
  BY DEF Exchange
<1>3. /\ Same(g) /\ req'[g].at \in {"delete", "reply"} /\ req'[g].sets = None
      /\ req'[g].answer \in {"none", "refused"}
      /\ req'[g].answer = "refused"
             => req[g].of \in spent \/ req[req[g].of].user \notin Allowed \cup {None}
  BY <1>1, <1>2, GoesTo, RepliesTo
<1>4. UserReachable(b)' /\ CookieExists(b)' /\ LoginFinds(b, g)'
  BY <1>1, <1>3, Unwritten DEF Same
<1>5. StateKept(b, g)'
  <2> SUFFICES ASSUME Sole(b, g)', req'[g].answer = "refused" PROVE req'[g].user \in Users \ Allowed
    BY <1>3 DEF StateKept, At
  <2>1. Sole(b, g) /\ CalledOnce(g)
    BY <1>1, SoleBefore
  <2>2. req[g].kind = "login" /\ g \notin spent
    BY <1>1, <2>1 DEF Sole, CalledOnce, Open, At
  <2>3. req[g].user \notin Allowed \cup {None}
    BY <1>1, <1>3, <2>2
  <2>4. req[g].user \in Users
    BY <1>1, <2>2 DEF Inv, TypeOK
  <2> QED BY <1>3, <2>3, <2>4 DEF Same
<1> QED BY <1>4, <1>5 DEF Mine

\* A login takes the old session of the user away, a logout takes it for good.
LEMMA DeleteOrderly ==
    ASSUME NEW b \in Browsers, NEW g \in Requests, Acting(b, g), DeleteOld(g) PROVE Mine(b, g)
<1>1. /\ Inv /\ ~Send(g) /\ req[g].browser = b /\ req[g].at = "delete" /\ req[g].sets = None
      /\ req[g].answer = "none" /\ req[g].kind # "upstream"
  <2>1. req[g].at = "delete"
    BY DEF DeleteOld, At
  <2>2. ~Send(g)
    BY <2>1, SentAs, Before
  <2> QED BY <2>1, <2>2, Before DEF Sound, StagesOf, Inv, Fits, Fit, Done
<1>2. /\ Same(g) /\ req'[g].at = "create" /\ req'[g].sets = None /\ req'[g].answer = "none"
      /\ sessions' = [sessions EXCEPT ![req[g].session] = Gone]
  BY <1>1, GoesTo DEF DeleteOld
<1>3. UserReachable(b)'
  <2> SUFFICES ASSUME NEW s \in Ids, UserSession(s)', Owner(s)' = b PROVE FALSE
    BY DEF UserReachable
  <2>1. Reachable(b, s) /\ ~Deletes(g, s)
    BY <1>1, UsersBefore DEF At, CreateSession
  <2>2. req[g].session = s
    BY <1>1, <2>1 DEF Reachable, Of
  <2>3. sessions'[s] = Gone
    BY <1>1, <1>2, <2>2 DEF Inv, TypeOK
  <2> QED BY <2>1, <2>2, <2>3 DEF Deletes
<1>4. CookieExists(b)'
  <2>1. Replaced(g)' /\ g \in Of(b)'
    BY <1>1, <1>2 DEF Replaced, At, Of, Same
  <2> QED BY <2>1 DEF CookieExists
<1>5. LoginFinds(b, g)' /\ StateKept(b, g)'
  BY <1>2, NotIds DEF LoginFinds, StateKept, At
<1> QED BY <1>3, <1>4, <1>5 DEF Mine

LEMMA CreateOrderly ==
    ASSUME NEW b \in Browsers, NEW g \in Requests, Acting(b, g), CreateSession(g) PROVE Mine(b, g)
<1>1. Inv /\ ~Send(g) /\ req[g].browser = b /\ req[g].at = "create"
  <2>1. req[g].at = "create"
    BY DEF CreateSession, At
  <2>2. ~Send(g)
    BY <2>1, SentAs, Before
  <2> QED BY <2>1, <2>2, Before
<1>2. OfUser(g) \in Ids /\ OfUser(g)[1] = g /\ OfUser(g) # None
  <2>1. OfUser(g) \in Ids /\ OfUser(g)[1] = g
    BY DEF OfUser, Ids
  <2> QED BY <2>1, NotIds
<1>3. Same(g) /\ req'[g].at = "reply" /\ req'[g].sets = OfUser(g) /\ req'[g].answer = "loggedIn"
  BY <1>1, RepliesTo DEF CreateSession
<1>4. Existing(OfUser(g))'
  <2>1. sessions'[OfUser(g)].life = "live" /\ sessions'[OfUser(g)].store = Admin
    BY <1>1, <1>2 DEF CreateSession, Inv, TypeOK
  <2> QED BY <1>2, <2>1 DEF Existing, Found
<1>5. UserReachable(b)'
  <2> SUFFICES ASSUME NEW s \in Ids, UserSession(s)', Owner(s)' = b PROVE Reachable(b, s)'
    BY DEF UserReachable
  <2>1. ~Reachable(b, s)
    BY <1>1 DEF Reachable, Of
  <2>2. s = OfUser(g)
    BY <2>1, UsersBefore
  <2> QED BY <1>2, <1>3, <2>2, ReachableBy
<1>6. CookieExists(b)'
  <2>1. Replaced(g)' /\ g \in Of(b)'
    BY <1>1, <1>2, <1>3 DEF Replaced, At, Of, Same
  <2> QED BY <2>1 DEF CookieExists
<1>7. LoginFinds(b, g)' /\ StateKept(b, g)'
  BY <1>3, <1>4 DEF LoginFinds, StateKept, At
<1> QED BY <1>5, <1>6, <1>7 DEF Mine

LEMMA LogoutOrderly ==
    ASSUME NEW b \in Browsers, NEW g \in Requests, Acting(b, g), Logout(g) PROVE Mine(b, g)
<1>1. Inv /\ ~Send(g) /\ req[g].browser = b /\ req[g].at = "logout" /\ req[g].kind = "logout"
      /\ provider
  <2>1. req[g].at = "logout"
    BY DEF Logout, At
  <2>2. ~Send(g)
    BY <2>1, SentAs, Before
  <2> QED BY <2>1, <2>2, Before DEF Sound, StagesOf
<1>2. /\ Same(g) /\ req'[g].at = "reply" /\ req'[g].sets = Cleared /\ req'[g].answer = "loggedOut"
  BY <1>1, RepliesTo DEF Logout
<1>3. UserReachable(b)'
  <2> SUFFICES ASSUME NEW s \in Ids, UserSession(s)', Owner(s)' = b PROVE FALSE
    BY DEF UserReachable
  <2>1. UserSession(s) /\ Reachable(b, s) /\ ~Deletes(g, s)
    BY <1>1, UsersBefore DEF At, CreateSession
  <2>2. req[g].session = s
    BY <1>1, <2>1 DEF Reachable, Of
  <2>3. Found(Admin, s)
    BY <1>1, <2>1, NotIds DEF Found, UserSession, Inv, Backed
  <2>4. sessions'[s] = Gone
    BY <1>1, <2>2, <2>3 DEF Logout, Inv, TypeOK
  <2> QED BY <2>1, <2>2, <2>4 DEF Deletes
<1>4. CookieExists(b)'
  <2>1. Replaced(g)' /\ g \in Of(b)'
    BY <1>1, <1>2, NotIds DEF Replaced, At, Of, Same
  <2> QED BY <2>1 DEF CookieExists
<1>5. LoginFinds(b, g)' /\ StateKept(b, g)'
  BY <1>1, <1>2, NotIds DEF LoginFinds, StateKept, Sole, At, Same
<1> QED BY <1>3, <1>4, <1>5 DEF Mine

LEMMA VisitOrderly ==
    ASSUME NEW b \in Browsers, NEW g \in Requests, Acting(b, g), Visit(g) PROVE Mine(b, g)
<1>1. /\ Inv /\ ~Send(g) /\ req[g].at = "visit" /\ req[g].kind = "visit" /\ req[g].sets = None
      /\ UNCHANGED <<cookie, sessions>>
  <2>1. req[g].at = "visit" /\ UNCHANGED <<cookie, sessions>>
    BY DEF Visit, At
  <2>2. ~Send(g)
    BY <2>1, SentAs, Before
  <2> QED BY <2>1, <2>2, Before DEF Sound, StagesOf
<1>2. req'[g].at = "answered" /\ req'[g].kind = "visit" /\ req'[g].sets = None
  BY <1>1, VisitsTo
<1>3. UserReachable(b)' /\ CookieExists(b)' /\ LoginFinds(b, g)'
  BY <1>1, <1>2, Unwritten
<1>4. StateKept(b, g)'
  BY <1>2 DEF StateKept, Sole
<1> QED BY <1>3, <1>4 DEF Mine

\* The answer brings the cookie that was coming.
LEMMA DeliverOrderly ==
    ASSUME NEW b \in Browsers, NEW g \in Requests, Acting(b, g), Deliver(g) PROVE Mine(b, g)
<1>1. Inv /\ ~Send(g) /\ req[g].browser = b /\ req[g].at = "reply" /\ UNCHANGED sessions
  <2>1. req[g].at = "reply" /\ UNCHANGED sessions
    BY DEF Deliver, At
  <2>2. ~Send(g)
    BY <2>1, SentAs, Before
  <2> QED BY <2>1, <2>2, Before
<1>2. g \in Of(b) /\ LoginFinds(b, g) /\ req[g].sets \in Ids \cup {Cleared, None}
  BY <1>1 DEF Acting, Orderly, Of, Inv, TypeOK
<1>3. /\ Same(g) /\ req'[g].sets = None /\ req'[g].answer = req[g].answer
      /\ req'[g].at \in {"authorizing", "answered"}
      /\ req'[g].at = "authorizing" => req[g].answer = "redirect"
  BY <1>1, DeliversTo
<1>4. /\ req[g].sets = None => cookie'[b] = cookie[b]
      /\ req[g].sets = Cleared => cookie'[b] = None
      /\ req[g].sets \in Ids => cookie'[b] = req[g].sets
  BY <1>1, NotIds DEF Deliver, Inv, TypeOK
<1>5. UserReachable(b)'
  <2> SUFFICES ASSUME NEW s \in Ids, UserSession(s)', Owner(s)' = b PROVE Reachable(b, s)'
    BY DEF UserReachable
  <2>1. Reachable(b, s) /\ Owner(s) = b
    BY <1>1, UsersBefore DEF At, CreateSession
  <2>2. req[g].sets \in {None, s}
    BY <1>1, <1>2, <2>1 DEF Reachable
  <2>3. s[1] # g => ~At(s[1], "reply")
    BY <2>1, OthersWait DEF Owner, Ids, Busy, Handled, At
  <2>4. cookie'[b] = s
    BY <1>4, <2>1, <2>2, <2>3, NotIds DEF Reachable
  <2> QED BY <1>3, <2>4, ReachableBy
<1>6. CookieExists(b)'
  <2>1. ASSUME req[g].sets = None, cookie[b] # None PROVE Existing(cookie[b])
    BY <1>1, <2>1, CookieBefore DEF Replaced, At
  <2>2. \A s : Existing(s)' <=> Existing(s)
    BY <1>1 DEF Existing, Found
  <2>3. req[g].sets \in Ids => Existing(req[g].sets)
    BY <1>2 DEF LoginFinds
  <2> QED BY <1>2, <1>4, <2>1, <2>2, <2>3 DEF CookieExists
<1>7. LoginFinds(b, g)'
  BY <1>2, <1>3, NotIds DEF LoginFinds, At, Same
<1>8. StateKept(b, g)'
  <2> SUFFICES ASSUME Sole(b, g)' PROVE StateKept(b, g)'
    BY DEF StateKept
  <2>1. StateKept(b, g) /\ Sole(b, g)
    BY <1>1, SoleBefore
  <2>2. ASSUME req'[g].at = "authorizing" PROVE HasState(cookie[b], g)'
    <3>1. HasState(Coming(b, g), g)
      BY <1>1, <1>3, <2>1, <2>2 DEF StateKept, At
    <3>2. cookie'[b] = Coming(b, g)
      BY <1>2, <1>4, <3>1, NotIds DEF Coming, HasState, Existing
    <3> QED BY <1>1, <3>1, <3>2 DEF HasState, Existing, Found
  <2> QED BY <1>1, <1>3, <2>1, <2>2 DEF StateKept, At, Same
<1> QED BY <1>5, <1>6, <1>7, <1>8 DEF Mine

(***************************************************************************)
(* The theorems.                                                           *)
(***************************************************************************)
LEMMA ActingOrderly ==
    ASSUME NEW b \in Browsers, NEW g \in Requests, Acting(b, g) PROVE Orderly(b)'
<1>1. ~FindUpstreamSession(g)
  <2> SUFFICES ASSUME FindUpstreamSession(g) PROVE FALSE
    OBVIOUS
  <2>1. req[g].at = "upstreamLogin"
    BY DEF FindUpstreamSession, At
  <2>2. ~Send(g)
    BY <2>1, SentAs, Before
  <2> QED BY <2>1, <2>2, Before DEF Sound, StagesOf
<1>2. Mine(b, g)
  BY <1>1, SendOrderly, AgreeOrderly, FindOrderly, StoreOrderly, CheckOrderly, ExchangeOrderly,
     DeleteOrderly, CreateOrderly, LogoutOrderly, VisitOrderly, DeliverOrderly
  DEF Acting, Acts, Handle
<1> QED BY <1>2, Assembled DEF Mine

LEMMA OrderlyStays ==
    ASSUME Step, NEW b \in Browsers, Patient(b)', Patient(b) => Orderly(b)
    PROVE  Orderly(b)'
<1>1. Patient(b) /\ Orderly(b)
  BY UsedStays
<1>2. ASSUME NEW g \in Requests, Acts(g), req'[g].browser = b PROVE Orderly(b)'
  BY <1>1, <1>2, ActingOrderly DEF Acting
<1>3. CASE CookieExpires(b)
  BY <1>1, <1>3, CookieGone
<1>4. ASSUME \A g \in Requests : Acts(g) => req'[g].browser # b, ~CookieExpires(b)
      PROVE  cookie'[b] = cookie[b]
  <2>1. DOMAIN cookie = Browsers
    BY DEF Step, Calm, Inv, TypeOK
  <2>2. ASSUME NEW c \in Browsers, CookieExpires(c) PROVE cookie'[b] = cookie[b]
    BY <1>4, <2>1, <2>2 DEF CookieExpires
  <2>3. ASSUME NEW g \in Requests, Acts(g) PROVE cookie'[b] = cookie[b]
    <3>1. CASE Deliver(g)
      <4>1. req[g].browser # b
        BY <1>4, <2>3, OneActs
      <4> QED BY <2>1, <3>1, <4>1 DEF Deliver
    <3>2. Send(g) => UNCHANGED cookie
      BY SentAs DEF Step, Calm
    <3> QED
      BY <2>3, <3>1, <3>2
      DEF Acts, Agree, Handle, FindSession, FindUpstreamSession, StoreState, CheckState, Exchange,
          DeleteOld, CreateSession, Logout, Visit
  <2> QED BY <2>2, <2>3 DEF Step, vars
<1>5. CASE (\A g \in Requests : Acts(g) => req'[g].browser # b) /\ ~CookieExpires(b)
  BY <1>1, <1>4, <1>5, Framed
<1> QED BY <1>2, <1>3, <1>5

LEMMA CausesInitially == Init => CauseInv
<1> SUFFICES ASSUME Init PROVE CauseInv
  OBVIOUS
<1>1. \A f \in Requests : req[f] = Idle
  BY DEF Init
<1>2. Sound
  <2>1. StagesOf(Idle)
    BY DEF StagesOf, Idle
  <2>2. failures = 0 => provider
    BY DEF Init
  <2>3. \A s \in Ids : sessions[s].life # "expired"
    BY DEF Init, Gone
  <2> QED BY <1>1, <2>1, <2>2, <2>3 DEF Init, Sound
<1>3. ASSUME NEW b \in Browsers PROVE Orderly(b)
  <2>1. Of(b) = {}
    BY <1>1, NoBrowser DEF Of, Idle
  <2>2. UserReachable(b) /\ CookieExists(b)
    BY DEF Init, UserReachable, UserSession, Gone, CookieExists
  <2> QED BY <2>1, <2>2 DEF Orderly, OneByOne
<1> QED BY <1>2, <1>3 DEF CauseInv

LEMMA CausesInductive == Inv /\ CauseInv /\ [Next]_vars => CauseInv'
<1> SUFFICES ASSUME Inv, CauseInv, [Next]_vars PROVE CauseInv'
  OBVIOUS
<1>1. Sound /\ Sound'
  BY SoundStays DEF CauseInv
<1>2. ASSUME failures' = 0, NEW b \in Browsers, Patient(b)' PROVE Orderly(b)'
  <2>1. Step
    BY <1>1, <1>2, StepOf
  <2>2. Patient(b) => Orderly(b)
    BY <2>1 DEF Step, Calm, CauseInv
  <2> QED BY <1>2, <2>1, <2>2, OrderlyStays
<1> QED BY <1>1, <1>2 DEF CauseInv

\* What a browser that waits for its answers can rely on as long as nothing fails:
\* one request at a time, a session that is in its cookie and a login that finds it.
THEOREM Causes == Spec => []CauseInv
BY Initially, Inductive, CausesInitially, CausesInductive, PTL DEF Spec

\* The session of a user can always be logged out of: it is in the cookie of the
\* browser or on its way there, whatever other browsers, sweeps and the callbacks
\* of auth_handlers.go do, unless the browser itself overlaps its requests or
\* logs in to an upstream, or something fails.
THEOREM SessionsStayReachable == Spec => []SessionsReachable
<1>1. Inv /\ CauseInv => SessionsReachable
  <2> SUFFICES ASSUME Inv, CauseInv, NEW s \in Ids, sessions[s].life = "live",
                      sessions[s].user # None, Owner(s) \notin overlapped,
                      ~Used(Owner(s), "upstream"), ~(failures > 0)
               PROVE  cookie[Owner(s)] = s \/ At(s[1], "reply")
    BY DEF SessionsReachable
  <2>1. failures = 0
    BY DEF Inv, TypeOK
  <2>2. s[1] \in Requests /\ req[s[1]].answer = "loggedIn"
    BY DEF Ids, Inv, Backed, Made
  <2>3. Owner(s) \in Browsers
    BY <2>2 DEF Owner, Inv, Fits, Fit, Idle
  <2>4. Reachable(Owner(s), s)
    BY <2>1, <2>3 DEF CauseInv, Patient, Orderly, UserReachable, UserSession
  <2> QED BY <2>4 DEF Reachable
<1> QED BY <1>1, Invariance, Causes, PTL

\* A browser that waits for its answers is never told that a session is not there, and its
\* only login is turned away only because its user may not come in: HandleLogin's
\* unchecked cookie and HandleCallback's one state per session do no harm then.
THEOREM RefusalsHaveCause == Spec => []RefusedHasCause
<1>1. Inv /\ CauseInv => RefusedHasCause
  <2> SUFFICES ASSUME Inv, CauseInv, NEW f \in Requests, req[f].kind = "login", failures = 0,
                      req[f].browser \notin overlapped
               PROVE  LET b == req[f].browser
                      IN  /\ req[f].answer = "error" => Used(b, "upstream")
                          /\ req[f].answer = "refused" =>
                                 \/ req[f].user \in Users \ Allowed
                                 \/ \E g \in Requests \ {f} :
                                        /\ req[g].browser = b
                                        /\ req[g].kind \in {"login", "upstream", "logout"}
    BY DEF RefusedHasCause
  <2> DEFINE b == req[f].browser
  <2>1. CASE Used(b, "upstream")
    <3>1. PICK g \in Requests : req[g].kind = "upstream" /\ req[g].browser = b
      BY <2>1 DEF Used
    <3> QED BY <2>1, <3>1
  <2>2. CASE ~Used(b, "upstream")
    <3>1. CASE b \in Browsers
      <4>1. Orderly(b) /\ f \in Of(b)
        BY <2>2, <3>1 DEF CauseInv, Patient, Of
      <4>2. LoginFinds(b, f) /\ StateKept(b, f)
        BY <4>1 DEF Orderly
      <4>3. Sole(b, f) \/ \E g \in Requests \ {f} :
                              req[g].browser = b /\ req[g].kind \in {"login", "upstream", "logout"}
        BY DEF Sole, Of
      <4> QED BY <4>2, <4>3 DEF LoginFinds, StateKept
    <3>2. CASE b \notin Browsers
      BY <3>2 DEF Inv, Fits, Fit, Idle
    <3> QED BY <3>1, <3>2
  <2> QED BY <2>1, <2>2
<1> QED BY <1>1, Invariance, Causes, PTL


=============================================================================
