---------------------- MODULE UpstreamLoginCauseProofs ----------------------
(***************************************************************************)
(* As long as nothing fails: a login is turned away only because of        *)
(* another one, and of the logins of one upstream, from one browser each,  *)
(* one gets its client a token.                                            *)
(***************************************************************************)
EXTENDS UpstreamLoginProofs

\* A client asks for a login only while it has no token, and does not ask again before
\* it gets one; who was let through finds one or the other.
Given == {"signal", "delete", "finish", "done"}
AsksOnce ==
    /\ \A n \in Names : loginRequired[n] =>
           authInfo[n] # 0 /\ bearer[n] = None /\ keeper[n] \in {"leaving", "parked"}
    /\ \A n \in Names : keeper[n] = "asking" => bearer[n] = None
    /\ \A f \in Flows : LetThrough(f) =>
           bearer[flow[f].name] # None \/ loginRequired[flow[f].name]
    /\ \A f \in Flows : flow[f].at \in Given => bearer[flow[f].name] # None

\* What a login finds that has its browser for itself, the session it made, with its
\* state; and, if it has no rival at all, the record it was sent away with and a client
\* that still waits for it.
Alone(f) == \A g \in Flows : flow[g].at # "idle" => ~Rivals(f, g)
BeforeSession == {"check", "getInfo", "discover", "readId", "register", "saveId", "session"}
BeforeRespond == {"readId", "register", "saveId", "session", "storeState", "redirect"}
Away == {"respond", "authorizing", "callback", "callbackInfo"}
Granted == {"exchange", "saveToken", "setBearer"}

Session(f) ==
    LET r == flow[f]
    IN  /\ r.at \in BeforeSession => r.session = None
        /\ r.at \in {"storeState", "redirect", "respond"} =>
               r.session = f /\ r.made /\ sessions[f].life = "live"
        /\ r.at \in {"redirect", "respond", "authorizing", "callback"} =>
               sessions[f] = [life |-> "live", state |-> f]
        /\ r.at = "authorizing" => cookie[r.browser] = f
        /\ r.at = "callback" => r.session = f
        /\ r.at # "forbidden"
Record(f) ==
    LET r == flow[f]
    IN  /\ r.at \in {"getInfo"} \cup BeforeRespond \cup Away \cup Granted => loginRequired[r.name]
        /\ r.at \in BeforeRespond => r.info = authInfo[r.name]
        /\ r.at \in Away => infos[authInfo[r.name]] = r.id
        /\ r.at = "exchange" => infos[r.info] = r.id
        /\ r.at \notin {"discover", "noInfo", "rejected"}
Undisturbed ==
    \A f \in Flows : flow[f].at # "idle" =>
        /\ ~SharesBrowser(f) => Session(f)
        /\ Alone(f) => Record(f)

\* Logins of one upstream overlap: as long as its client has no token, they hold the
\* record it asked for a login with, and who is refused for the client_id is so
\* because another one has registered a client since.
Course(f) ==
    LET r == flow[f]
        info == authInfo[r.name]
    IN  bearer[r.name] = None =>
        /\ r.at \in BeforeRespond \cup {"exchange"} => r.info = info
        /\ r.at \in Away \cup {"exchange"} => infos[info] \in Flows \cup {r.id}
        /\ r.at = "rejected" => infos[info] \in Flows
        /\ r.at \notin {"discover", "noInfo"}

\* The one who has registered the client of the record gets its token, or has lost its
\* session.
OnCourse(g, n) ==
    /\ flow[g].name = n
    /\ flow[g].at \in {"saveId", "session", "storeState", "redirect", "saveToken", "setBearer",
                       "exchange", "forbidden"} \cup Away
    /\ flow[g].at \in Away \cup {"exchange"} => flow[g].id = g
Courses ==
    /\ \A f \in Flows : Course(f) /\ flow[f].at # "failed"
    /\ \A n \in Names :
           bearer[n] = None /\ authInfo[n] # 0 /\ infos[authInfo[n]] \in Flows
               => OnCourse(infos[authInfo[n]], n)

CauseInv == failures = 0 => AsksOnce /\ Undisturbed /\ Courses

(***************************************************************************)
(* The steps that are not failures, and what one of them changes.          *)
(***************************************************************************)
Ideal ==
    \/ \E f \in Flows : Begin(f) \/ Login(f) \/ Callback(f) \/ CleanupExpired(f)
    \/ \E n \in Names : Refused(n) \/ AskLogin(n) \/ Connect(n) \/ Park(n)
    \/ UNCHANGED vars
Step == Inv /\ [Next]_vars /\ failures = 0 /\ failures' = 0 /\ Ideal

LEMMA NothingFails == ASSUME Inv, [Next]_vars, failures' = 0 PROVE Step
<1>1. failures \in Nat
  BY DEF Inv, Types
<1>2. ~Fails
  BY <1>1 DEF Fails
<1>3. Ideal
  BY <1>2 DEF Next, Ideal, NetworkFails, SaveFails, Expire, Keeper, DiscoveryFails, Lose, Restart
<1>4. failures = 0
  <2>1. CASE \E n \in Names : Refused(n)
    <3>1. PICK n \in Names : failures' = failures + (IF bearer[n] = None THEN 0 ELSE 1)
      BY <2>1 DEF Refused
    <3> QED BY <1>1, <3>1
  <2>2. CASE UNCHANGED failures
    BY <2>2
  <2> QED
    BY <1>3, <2>1, <2>2
    DEF Ideal, vars, Begin, Login, CheckLogin, GetInfo, Rediscover, ReadId, Register, SaveId,
        FindSession, StoreState, SessionLost, Redirect, Respond, Callback, Authorize, CheckState,
        CallbackInfo, Exchange, SaveToken, SetBearer, Signal, DeleteSession, Finish,
        CleanupExpired, AskLogin, Connect, Park
<1> QED BY <1>3, <1>4 DEF Step

LEMMA OneMoves ==
    ASSUME Step, NEW f \in Flows
    PROVE  /\ flow'[f] = flow[f] \/ Begin(f) \/ Login(f) \/ Callback(f)
           /\ Keeps(flow[f], flow'[f])
           /\ flow[f] \in FlowType /\ flow'[f] \in FlowType /\ DOMAIN flow = Flows
<1>1. Inv /\ [Next]_vars /\ ~Restart
  <2>1. ~Fails
    BY DEF Step, Fails, Inv, Types
  <2> QED BY <2>1 DEF Step, Restart
<1>2. ~NetworkFails(f) /\ ~SaveFails(f)
  BY DEF Step, Fails, NetworkFails, SaveFails, Inv, Types
<1>3. flow[f] \in FlowType /\ flow'[f] \in FlowType /\ DOMAIN flow = Flows
  BY <1>1, Moves DEF Inv, Types, Fit
<1> QED BY <1>1, <1>2, <1>3, Moves, Mover

LEMMA GoesTo ==
    ASSUME NEW f \in Flows, flow[f] \in FlowType, DOMAIN flow = Flows, NEW stage, Goes(f, stage)
    PROVE  /\ flow'[f].at = stage /\ flow'[f].browser = flow[f].browser
           /\ flow'[f].name = flow[f].name /\ flow'[f].session = flow[f].session
           /\ flow'[f].made = flow[f].made /\ flow'[f].info = flow[f].info
           /\ flow'[f].id = flow[f].id
BY DEF Goes, FlowType

LEMMA GoesWithTo ==
    ASSUME NEW f \in Flows, flow[f] \in FlowType, DOMAIN flow = Flows, NEW stage, NEW info,
           GoesWith(f, stage, info)
    PROVE  /\ flow'[f].at = stage /\ flow'[f].browser = flow[f].browser
           /\ flow'[f].name = flow[f].name /\ flow'[f].session = flow[f].session
           /\ flow'[f].made = flow[f].made /\ flow'[f].info = info
           /\ flow'[f].id = flow[f].id
BY DEF GoesWith, FlowType

\* A login is let through by CheckLogin, and SetBearer gives its token to the client.
LEMMA Progress ==
    ASSUME Step, NEW f \in Flows
    PROVE  /\ LetThrough(f)' => LetThrough(f) \/ (CheckLogin(f) /\ loginRequired[flow[f].name])
           /\ LetThrough(f) => LetThrough(f)'
           /\ flow'[f].at \in Given => flow[f].at \in Given \/ SetBearer(f)
           /\ flow[f].at \in Given => flow'[f].at \in Given
           /\ flow'[f].at = "failed" => flow[f].at = "failed"
<1> USE DEF At, LetThrough, Given
<1>1. flow[f] \in FlowType /\ DOMAIN flow = Flows /\ Keeps(flow[f], flow'[f])
  BY OneMoves
<1>2. CASE flow'[f] = flow[f]
  BY <1>2
<1>3. CASE Begin(f)
  <2>1. flow[f].at = "idle" /\ flow'[f].at = "check"
    BY <1>1, <1>3 DEF Begin, Idle
  <2> QED BY <2>1
<1>4. CASE CheckLogin(f)
  BY <1>1, <1>4, GoesTo DEF CheckLogin
<1>5. CASE Login(f) /\ ~CheckLogin(f)
  <2>1. /\ flow[f].at \in LoginStages \ {"check"}
        /\ flow'[f].at \in (LoginStages \ {"check"}) \cup {"forbidden", "authorizing"}
    BY <1>1, <1>5, GoesTo, GoesWithTo
    DEF Login, GetInfo, Rediscover, ReadId, Register, SaveId, FindSession, StoreState, SessionLost,
        Redirect, Respond, FlowType, LoginStages
  <2> QED BY <2>1 DEF LoginStages
<1>6. CASE Callback(f)
  BY <1>1, <1>6, GoesTo, GoesWithTo
  DEF Callback, Authorize, CheckState, CallbackInfo, Exchange, SaveToken, SetBearer, Signal,
      DeleteSession, Finish, FlowType
<1> QED BY <1>2, <1>3, <1>4, <1>5, <1>6, OneMoves

LEMMA ClientTurns ==
    ASSUME Step, NEW n \in Names
    PROVE  /\ \/ /\ bearer'[n] = bearer[n]
                 /\ loginRequired[n] => loginRequired'[n]
                 /\ authInfo'[n] = authInfo[n] \/ AskLogin(n)
              \/ \E f \in Flows : /\ SetBearer(f) /\ flow[f].name = n
                                  /\ bearer'[n] = f /\ ~loginRequired'[n] /\ keeper'[n] = keeper[n]
           /\ loginRequired'[n] => loginRequired[n] \/ AskLogin(n)
           /\ \/ keeper'[n] = keeper[n]
              \/ Refused(n) /\ bearer[n] = None /\ keeper'[n] = "asking"
              \/ keeper[n] \in {"trying", "asking", "leaving"} /\ keeper'[n] \in {"leaving", "parked"}
              \/ \E f \in Flows : /\ Signal(f) /\ flow[f].name = n
                                  /\ keeper'[n] \in {"leaving", "trying"}
<1> DEFINE Turned ==
        /\ \/ /\ bearer'[n] = bearer[n]
              /\ loginRequired[n] => loginRequired'[n]
              /\ authInfo'[n] = authInfo[n] \/ AskLogin(n)
           \/ \E f \in Flows : /\ SetBearer(f) /\ flow[f].name = n
                               /\ bearer'[n] = f /\ ~loginRequired'[n] /\ keeper'[n] = keeper[n]
        /\ loginRequired'[n] => loginRequired[n] \/ AskLogin(n)
        /\ \/ keeper'[n] = keeper[n]
           \/ Refused(n) /\ bearer[n] = None /\ keeper'[n] = "asking"
           \/ keeper[n] \in {"trying", "asking", "leaving"} /\ keeper'[n] \in {"leaving", "parked"}
           \/ \E f \in Flows : /\ Signal(f) /\ flow[f].name = n
                               /\ keeper'[n] \in {"leaving", "trying"}
<1>1. /\ bearer \in [Names -> Tokens] /\ loginRequired \in [Names -> BOOLEAN]
      /\ keeper \in [Names -> {"trying", "asking", "leaving", "parked"}] /\ DOMAIN authInfo = Names
  BY DEF Step, Inv, Types
<1>2. CASE UNCHANGED clientVars
  BY <1>2 DEF clientVars
<1>3. ASSUME NEW m \in Names, Refused(m) PROVE Turned
  <2>1. failures' = failures + (IF bearer[m] = None THEN 0 ELSE 1) /\ failures = 0 /\ failures' = 0
    BY <1>3 DEF Refused, Step
  <2>2. bearer[m] = None
    BY <2>1
  <2> QED BY <1>1, <1>3, <2>2 DEF Refused
<1>4. ASSUME NEW m \in Names, AskLogin(m) PROVE Turned
  BY <1>1, <1>4 DEF AskLogin, Asks
<1>5. ASSUME NEW m \in Names, Connect(m) PROVE Turned
  BY <1>1, <1>5 DEF Connect
<1>6. ASSUME NEW m \in Names, Park(m) PROVE Turned
  BY <1>1, <1>6 DEF Park
<1>7. ASSUME NEW f \in Flows, SetBearer(f) PROVE Turned
  BY <1>1, <1>7 DEF SetBearer
<1>8. ASSUME NEW f \in Flows, Signal(f) PROVE Turned
  BY <1>1, <1>8 DEF Signal, Awake
<1> QED
  BY <1>2, <1>3, <1>4, <1>5, <1>6, <1>7, <1>8
  DEF Step, Ideal, vars, Begin, Login, CheckLogin, GetInfo, Rediscover, ReadId, Register, SaveId,
      FindSession, StoreState, SessionLost, Redirect, Respond, Callback, Authorize, CheckState,
      CallbackInfo, Exchange, SaveToken, DeleteSession, Finish, CleanupExpired

LEMMA NameKept ==
    ASSUME Step, NEW f \in Flows, flow[f].at # "idle"
    PROVE  /\ flow'[f].at # "idle" /\ flow'[f].name = flow[f].name /\ flow'[f].browser = flow[f].browser
           /\ flow[f].name \in Names /\ flow[f].browser \in Browsers
BY OneMoves DEF Keeps, Step, Inv, Types, Fit

LEMMA AsksOnceStays == ASSUME Step, AsksOnce PROVE AsksOnce'
<1>1. ASSUME NEW f \in Flows, SetBearer(f) PROVE keeper[flow[f].name] # "asking"
  <2>1. flow[f].name \in Names /\ LetThrough(f)
    BY <1>1, NameKept DEF SetBearer, At, LetThrough
  <2> QED BY <2>1 DEF AsksOnce
<1>2. ASSUME NEW n \in Names, loginRequired'[n]
      PROVE  authInfo'[n] # 0 /\ bearer'[n] = None /\ keeper'[n] \in {"leaving", "parked"}
  <2>1. CASE AskLogin(n)
    <3>1. authInfo'[n] = Len(infos) + 1 /\ keeper'[n] = "leaving" /\ bearer'[n] = bearer[n]
          /\ keeper[n] = "asking" /\ Len(infos) \in Nat
      BY <2>1 DEF AskLogin, Asks, Step, Inv, Types
    <3> QED BY <3>1 DEF AsksOnce
  <2>2. CASE ~AskLogin(n)
    <3>1. loginRequired[n] /\ authInfo'[n] = authInfo[n] /\ bearer'[n] = bearer[n]
      BY <1>2, <2>2, ClientTurns
    <3>2. ASSUME NEW f \in Flows, Signal(f), flow[f].name = n PROVE FALSE
      BY <3>1, <3>2 DEF Signal, At, Given, AsksOnce
    <3>3. ~Refused(n)
      BY <3>1 DEF Refused, AsksOnce
    <3> QED BY <3>1, <3>2, <3>3, ClientTurns DEF AsksOnce
  <2> QED BY <2>1, <2>2
<1>3. ASSUME NEW n \in Names, keeper'[n] = "asking" PROVE bearer'[n] = None
  <2>1. keeper[n] = "asking" \/ (Refused(n) /\ bearer[n] = None)
    BY <1>3, ClientTurns
  <2>2. bearer[n] = None
    BY <2>1 DEF AsksOnce
  <2>3. ASSUME NEW f \in Flows, SetBearer(f), flow[f].name = n, keeper'[n] = keeper[n] PROVE FALSE
    BY <1>1, <1>3, <2>3
  <2> QED BY <2>2, <2>3, ClientTurns
<1>4. ASSUME NEW f \in Flows, LetThrough(f)'
      PROVE  bearer'[flow'[f].name] # None \/ loginRequired'[flow'[f].name]
  <2>1. flow[f].at # "idle"
    BY <1>4, Progress DEF LetThrough, CheckLogin, At
  <2>2. flow'[f].name = flow[f].name /\ flow[f].name \in Names
    BY <2>1, NameKept
  <2>3. bearer[flow[f].name] # None \/ loginRequired[flow[f].name]
    BY <1>4, Progress DEF AsksOnce
  <2> QED BY <2>2, <2>3, ClientTurns, NotFlows
<1>5. ASSUME NEW f \in Flows, flow'[f].at \in Given PROVE bearer'[flow'[f].name] # None
  <2>1. flow[f].at # "idle"
    BY <1>5, Progress DEF SetBearer, At, Given
  <2>2. flow'[f].name = flow[f].name /\ flow[f].name \in Names
    BY <2>1, NameKept
  <2>3. CASE flow[f].at \in Given
    BY <2>2, <2>3, ClientTurns, NotFlows DEF AsksOnce
  <2>4. CASE SetBearer(f)
    <3>1. bearer'[flow[f].name] = f
      BY <2>2, <2>4 DEF SetBearer, Step, Inv, Types
    <3> QED BY <2>2, <3>1, NotFlows
  <2> QED BY <1>5, <2>3, <2>4, Progress
<1> QED BY <1>2, <1>3, <1>4, <1>5 DEF AsksOnce

(***************************************************************************)
(* A login that has its browser for itself, or no rival at all.            *)
(***************************************************************************)
LEMMA SessionWrites ==
    ASSUME Step, NEW s \in Flows
    PROVE  \/ sessions'[s] = sessions[s]
           \/ FindSession(s)
           \/ \E g \in Flows : (StoreState(g) \/ DeleteSession(g)) /\ flow[g].session = s
           \/ CleanupExpired(s)
<1>1. DOMAIN sessions = Flows
  BY DEF Step, Inv, Types
<1>2. CASE UNCHANGED sessions
  BY <1>2
<1>3. ASSUME NEW g \in Flows, g # s, FindSession(g) \/ CleanupExpired(g) PROVE sessions'[s] = sessions[s]
  BY <1>1, <1>3 DEF FindSession, CleanupExpired
<1>4. ASSUME NEW g \in Flows, StoreState(g) \/ DeleteSession(g), flow[g].session # s
      PROVE  sessions'[s] = sessions[s]
  BY <1>1, <1>4 DEF StoreState, DeleteSession
<1> QED
  BY <1>2, <1>3, <1>4
  DEF Step, Ideal, vars, Begin, Login, CheckLogin, GetInfo, Rediscover, ReadId, Register, SaveId,
      SessionLost, Redirect, Respond, Callback, Authorize, CheckState, CallbackInfo, Exchange,
      SaveToken, SetBearer, Signal, Finish, Refused, AskLogin, Asks, Connect, Park

LEMMA CookieWrites ==
    ASSUME Step, NEW b \in Browsers
    PROVE  \/ cookie'[b] = cookie[b]
           \/ \E g \in Flows : flow[g].at \in {"storeState", "respond", "finish"} /\ flow[g].browser = b
                               /\ flow'[g] # flow[g]
<1>1. DOMAIN cookie = Browsers
  BY DEF Step, Inv, Types
<1>2. CASE UNCHANGED cookie
  BY <1>2
<1>3. ASSUME NEW g \in Flows, SessionLost(g) \/ Respond(g) \/ Finish(g)
      PROVE  flow[g].at \in {"storeState", "respond", "finish"} /\ flow'[g] # flow[g]
  BY <1>3, OneMoves, GoesTo DEF SessionLost, Respond, Finish, At
<1>4. ASSUME NEW g \in Flows, SessionLost(g) \/ Respond(g) \/ Finish(g), flow[g].browser # b
      PROVE  cookie'[b] = cookie[b]
  BY <1>1, <1>4 DEF SessionLost, Respond, Finish, GetsResponse
<1> QED
  BY <1>2, <1>3, <1>4
  DEF Step, Ideal, vars, Begin, Login, CheckLogin, GetInfo, Rediscover, ReadId, Register, SaveId,
      FindSession, StoreState, Redirect, Callback, Authorize, CheckState, CallbackInfo, Exchange,
      SaveToken, SetBearer, Signal, DeleteSession, CleanupExpired, Refused, AskLogin, Asks,
      Connect, Park

LEMMA RecordKept ==
    ASSUME Step, NEW i \in 1 .. Len(infos)
    PROVE  infos'[i] = infos[i] \/ \E g \in Flows : Register(g) /\ flow[g].info = i
<1>1. infos \in Seq(Ids) /\ Len(infos) \in Nat
  BY DEF Step, Inv, Types
<1>2. CASE UNCHANGED infos
  BY <1>2
<1>3. \A id : Append(infos, id)[i] = infos[i]
  BY <1>1
<1>4. ASSUME NEW g \in Flows, Rediscover(g) PROVE infos'[i] = infos[i]
  BY <1>3, <1>4 DEF Rediscover
<1>5. ASSUME NEW n \in Names, AskLogin(n) PROVE infos'[i] = infos[i]
  BY <1>3, <1>5 DEF AskLogin
<1>6. ASSUME NEW g \in Flows, Register(g), flow[g].info # i PROVE infos'[i] = infos[i]
  BY <1>1, <1>6 DEF Register
<1> QED
  BY <1>2, <1>4, <1>5, <1>6
  DEF Step, Ideal, vars, Begin, Login, CheckLogin, GetInfo, ReadId, SaveId, FindSession,
      StoreState, SessionLost, Redirect, Respond, Callback, Authorize, CheckState, CallbackInfo,
      Exchange, SaveToken, SetBearer, Signal, DeleteSession, Finish, CleanupExpired, Refused,
      Connect, Park

\* Who has no rival after a step had none before.
LEMMA NoRivals ==
    ASSUME Step, NEW f \in Flows, Alone(f)', NEW g \in Flows \ {f}, flow[g].at # "idle"
    PROVE  flow[g].browser # flow'[f].browser /\ flow[g].name # flow'[f].name
BY NameKept DEF Alone, Rivals

LEMMA AloneBefore ==
    ASSUME Step, NEW f \in Flows, flow[f].at # "idle", Alone(f)'
    PROVE  Alone(f)
BY NoRivals, NameKept DEF Alone, Rivals

LEMMA SharedThen ==
    ASSUME Step, NEW f \in Flows, NEW g \in Flows \ {f}, flow[g].at # "idle",
           flow[g].browser = flow'[f].browser
    PROVE  SharesBrowser(f)'
BY NameKept DEF SharesBrowser

LEMMA AloneHasBrowser == \A f \in Flows : Alone(f) => ~SharesBrowser(f)
BY DEF Alone, Rivals, SharesBrowser

\* What another one does, does not touch the session and cookie of a login that has
\* its browser for itself, nor the record and client of one without a rival.
Single(f) == Step /\ flow[f].at # "idle" /\ ~SharesBrowser(f) /\ Session(f)
Lonely(f) == Step /\ AsksOnce /\ flow[f].at # "idle" /\ Alone(f) /\ Session(f) /\ Record(f)

LEMMA SessionUntouched ==
    ASSUME NEW f \in Flows, Single(f), sessions[f].life = "live",
           ~FindSession(f), ~StoreState(f), ~DeleteSession(f)
    PROVE  sessions'[f] = sessions[f]
<1>1. ~CleanupExpired(f)
  BY DEF CleanupExpired
<1>2. ASSUME NEW g \in Flows, StoreState(g) \/ DeleteSession(g), flow[g].session = f PROVE FALSE
  <2>1. flow[g].at # "idle" /\ g # f /\ f # None
    BY <1>2, NotFlows DEF StoreState, DeleteSession, At, Single
  <2>2. flow[f].browser = flow[g].browser
    BY <1>2, <2>1 DEF Single, Step, Inv, Apart, SessionsApart
  <2> QED BY <2>1, <2>2 DEF Single, SharesBrowser
<1> QED BY <1>1, <1>2, SessionWrites DEF Single

LEMMA CookieUntouched ==
    ASSUME NEW f \in Flows, Single(f), flow[f].at \notin {"storeState", "respond", "finish"}
    PROVE  cookie'[flow[f].browser] = cookie[flow[f].browser]
<1>1. flow[f].browser \in Browsers
  BY NameKept DEF Single
<1>2. ASSUME NEW g \in Flows, flow[g].at \in {"storeState", "respond", "finish"},
             flow[g].browser = flow[f].browser
      PROVE  FALSE
  BY <1>2 DEF Single, SharesBrowser
<1> QED BY <1>1, <1>2, CookieWrites DEF Single

LEMMA RecordUntouched ==
    ASSUME NEW f \in Flows, Lonely(f), ~SetBearer(f), loginRequired[flow[f].name]
    PROVE  /\ loginRequired'[flow[f].name]
           /\ authInfo'[flow[f].name] = authInfo[flow[f].name]
           /\ authInfo[flow[f].name] \in 1 .. Len(infos)
           /\ ~Register(f) => infos'[authInfo[flow[f].name]] = infos[authInfo[flow[f].name]]
<1> DEFINE n == flow[f].name
           i == authInfo[n]
<1>1. n \in Names /\ Step
  BY NameKept DEF Lonely
<1>2. ~AskLogin(n)
  BY <1>1 DEF Lonely, AsksOnce, AskLogin, Asks
<1>3. ASSUME NEW g \in Flows, SetBearer(g), flow[g].name = n PROVE FALSE
  BY <1>3 DEF Lonely, Alone, Rivals, SetBearer, At
<1>4. i \in 1 .. Len(infos)
  BY <1>1 DEF Lonely, AsksOnce, Step, Inv, Types
<1>5. ASSUME NEW g \in Flows, Register(g), flow[g].info = i PROVE g = f
  <2>1. flow[g].at = "register" /\ flow[g].name \in Names
    BY <1>1, <1>5, NameKept DEF Register, At
  <2>2. Carries(i, n) /\ Carries(i, flow[g].name)
    BY <1>5 DEF Carries
  <2>3. flow[g].name = n
    BY <1>1, <1>4, <2>1, <2>2 DEF Step, Inv, InfosApart
  <2> QED BY <2>1, <2>3 DEF Lonely, Alone, Rivals
<1> QED BY <1>1, <1>2, <1>3, <1>4, <1>5, ClientTurns, RecordKept

LEMMA SessionStays == ASSUME NEW f \in Flows, Single(f) PROVE Session(f)'
<1> USE DEF At, BeforeSession
<1>1. Step /\ flow[f] \in FlowType /\ flow'[f] \in FlowType /\ DOMAIN flow = Flows /\ f # None
  BY OneMoves, NotFlows DEF Single
<1>2. sessions \in [Flows -> SessionType] /\ flow[f].browser \in Browsers
      /\ flow'[f].browser = flow[f].browser
  BY <1>1, NameKept DEF Single, Step, Inv, Types
<1>3. Session(f)
  BY DEF Single
<1>4. CASE flow'[f] = flow[f]
  <2>1. ~FindSession(f) /\ ~StoreState(f) /\ ~DeleteSession(f)
    BY <1>1, <1>4, GoesTo DEF FindSession, StoreState, DeleteSession, FlowType
  <2>2. sessions[f].life = "live" => sessions'[f] = sessions[f]
    BY <2>1, SessionUntouched
  <2>3. flow[f].at = "authorizing" => cookie'[flow[f].browser] = cookie[flow[f].browser]
    BY CookieUntouched
  <2> QED BY <1>3, <1>4, <2>2, <2>3 DEF Session
<1>5. CASE CheckLogin(f) \/ GetInfo(f) \/ ReadId(f) \/ Register(f) \/ SaveId(f)
  <2>1. /\ flow'[f].session = flow[f].session
        /\ flow[f].at \in BeforeSession
        /\ flow'[f].at \in BeforeSession \cup {"notRequired", "discover"}
    BY <1>1, <1>5, GoesTo, GoesWithTo DEF CheckLogin, GetInfo, ReadId, Register, SaveId
  <2> QED BY <1>3, <2>1 DEF Session
<1>6. CASE Rediscover(f)
  <2>1. flow'[f].session = flow[f].session /\ flow[f].at = "discover" /\ flow'[f].at = "readId"
    BY <1>1, <1>6, GoesWithTo DEF Rediscover
  <2> QED BY <1>3, <2>1 DEF Session
<1>7. CASE FindSession(f)
  <2>1. flow[f].at = "session" /\ flow[f].session = None
    BY <1>3, <1>7 DEF Session, FindSession
  <2>2. /\ sessions' = [sessions EXCEPT ![f] = [life |-> "live", state |-> None]]
        /\ flow' = [flow EXCEPT ![f].at = "storeState", ![f].session = f, ![f].made = TRUE]
    BY <1>7, <2>1 DEF FindSession
  <2>3. sessions'[f].life = "live"
    BY <1>2, <2>2
  <2>4. flow'[f].at = "storeState" /\ flow'[f].session = f /\ flow'[f].made
    BY <1>1, <2>2 DEF FlowType
  <2> QED BY <2>3, <2>4 DEF Session
<1>8. CASE StoreState(f)
  <2>1. flow[f].at = "storeState" /\ flow[f].session = f /\ flow[f].made /\ sessions[f].life = "live"
    BY <1>3, <1>8 DEF Session, StoreState
  <2>2. sessions'[f] = [life |-> "live", state |-> f]
    BY <1>2, <1>8, <2>1 DEF StoreState, SessionType
  <2>3. flow'[f].at = "redirect" /\ flow'[f].session = f /\ flow'[f].made
    BY <1>1, <1>8, <2>1, GoesTo DEF StoreState
  <2> QED BY <2>2, <2>3 DEF Session
<1>9. CASE SessionLost(f)
  BY <1>3, <1>9 DEF Session, SessionLost
<1>10. CASE Redirect(f)
  <2>1. flow[f].at = "redirect" /\ UNCHANGED sessions
    BY <1>10 DEF Redirect
  <2>2. /\ flow'[f].at = "respond" /\ flow'[f].session = flow[f].session
        /\ flow'[f].made = flow[f].made
    BY <1>1, <1>10 DEF Redirect, FlowType
  <2> QED BY <1>3, <2>1, <2>2 DEF Session
<1>11. CASE Respond(f)
  <2>1. flow[f].at = "respond" /\ UNCHANGED sessions /\ flow'[f].at = "authorizing"
    BY <1>1, <1>11, GoesTo DEF Respond
  <2>2. flow[f].session = f /\ flow[f].made
    BY <1>3, <2>1 DEF Session
  <2>3. cookie'[flow[f].browser] = f
    <3>1. cookie \in [Browsers -> Flows \cup {None}]
      BY <1>1 DEF Step, Inv, Types
    <3> QED BY <1>2, <1>11, <2>2, <3>1 DEF Respond, GetsResponse
  <2> QED BY <1>2, <1>3, <2>1, <2>3 DEF Session
<1>12. CASE Authorize(f)
  <2>1. flow[f].at = "authorizing" /\ UNCHANGED sessions
    BY <1>12 DEF Authorize
  <2>2. cookie[flow[f].browser] = f
    BY <1>3, <2>1 DEF Session
  <2>3. flow'[f].at = "callback" /\ flow'[f].session = f
    BY <1>1, <1>12, <2>2 DEF Authorize, FlowType
  <2> QED BY <1>3, <2>1, <2>3 DEF Session
<1>13. CASE CheckState(f)
  <2>1. flow[f].at = "callback" /\ StateMatches(f)
    BY <1>3, <1>13 DEF Session, CheckState, StateMatches
  <2>2. flow'[f].at = "callbackInfo"
    BY <1>1, <1>13, <2>1, GoesTo DEF CheckState
  <2> QED BY <2>2 DEF Session
<1>14. CASE Callback(f) /\ ~Authorize(f) /\ ~CheckState(f)
  <2>1. flow'[f].at \in {"noInfo", "exchange", "saveToken", "rejected", "setBearer", "signal",
                         "delete", "finish", "done"}
    BY <1>1, <1>14, GoesTo, GoesWithTo
    DEF Callback, CallbackInfo, Exchange, SaveToken, SetBearer, Signal, DeleteSession, Finish
  <2> QED BY <2>1 DEF Session
<1> QED
  BY <1>1, <1>4, <1>5, <1>6, <1>7, <1>8, <1>9, <1>10, <1>11, <1>12, <1>13, <1>14, OneMoves
  DEF Login, Begin, Single

LEMMA RecordStays == ASSUME NEW f \in Flows, Lonely(f) PROVE Record(f)'
<1> USE DEF At, BeforeSession, BeforeRespond, Away, Granted
<1> DEFINE n == flow[f].name
           i == authInfo[n]
<1>1. Step /\ flow[f] \in FlowType /\ flow'[f] \in FlowType /\ DOMAIN flow = Flows
      /\ flow'[f].name = n /\ n \in Names
  BY OneMoves, NameKept DEF Lonely
<1>2. Record(f)
  BY DEF Lonely
<1>3. ~SetBearer(f) /\ loginRequired[n] =>
          /\ loginRequired'[n] /\ authInfo'[n] = i /\ i \in 1 .. Len(infos)
          /\ ~Register(f) => infos'[i] = infos[i]
  BY RecordUntouched
<1>4. CASE flow'[f] = flow[f]
  <2>1. ~SetBearer(f) /\ ~Register(f)
    BY <1>1, <1>4, GoesTo DEF SetBearer, Register
  <2>2. flow[f].at = "exchange" => infos'[flow[f].info] = infos[flow[f].info]
    <3> SUFFICES ASSUME flow[f].at = "exchange" PROVE infos'[flow[f].info] = infos[flow[f].info]
      OBVIOUS
    <3>1. flow[f].info \in 1 .. Len(infos) /\ Carries(flow[f].info, n)
      BY <1>1, UsedRecord DEF UsesInfo, Step
    <3>2. ASSUME NEW g \in Flows, Register(g), flow[g].info = flow[f].info PROVE FALSE
      <4>1. flow[g].at = "register" /\ flow[g].name \in Names
        BY <1>1, <3>2, NameKept DEF Register
      <4>2. Carries(flow[f].info, flow[g].name)
        BY <3>2 DEF Carries
      <4>3. flow[g].name = n
        BY <1>1, <3>1, <4>1, <4>2 DEF Step, Inv, InfosApart
      <4> QED BY <4>1, <4>3 DEF Lonely, Alone, Rivals
    <3> QED BY <1>1, <3>1, <3>2, RecordKept
  <2> QED BY <1>2, <1>3, <1>4, <2>1, <2>2 DEF Record
<1>5. CASE CheckLogin(f)
  <2>1. flow'[f].at \in {"getInfo", "notRequired"} /\ (flow'[f].at = "getInfo" => loginRequired[n])
        /\ UNCHANGED loginRequired
    BY <1>1, <1>5, GoesTo DEF CheckLogin, clientVars
  <2> QED BY <1>1, <2>1 DEF Record
<1>6. CASE GetInfo(f)
  <2>1. loginRequired[n] /\ i # 0
    BY <1>1, <1>2, <1>6 DEF Record, GetInfo, Lonely, AsksOnce
  <2>2. flow'[f].at = "readId" /\ flow'[f].info = i
    BY <1>1, <1>6, <2>1, GoesWithTo DEF GetInfo
  <2>3. UNCHANGED <<loginRequired, authInfo>>
    BY <1>6 DEF GetInfo, clientVars
  <2> QED BY <1>1, <2>1, <2>2, <2>3 DEF Record
<1>7. CASE Rediscover(f)
  BY <1>2, <1>7 DEF Record, Rediscover
<1>8. CASE ReadId(f) \/ Register(f) \/ SaveId(f) \/ FindSession(f) \/ StoreState(f)
  <2>1. flow[f].at \in BeforeRespond /\ flow'[f].at \in BeforeRespond
        /\ flow'[f].info = flow[f].info /\ UNCHANGED <<loginRequired, authInfo>>
    <3>1. CASE FindSession(f)
      BY <1>1, <3>1, GoesTo DEF FindSession, clientVars, FlowType
    <3>2. CASE ~FindSession(f)
      BY <1>1, <1>8, <3>2, GoesTo DEF ReadId, Register, SaveId, StoreState, clientVars
    <3> QED BY <3>1, <3>2
  <2> QED BY <1>1, <1>2, <2>1 DEF Record
<1>9. CASE SessionLost(f)
  BY <1>9 DEF Lonely, Session, SessionLost
<1>10. CASE Redirect(f)
  <2>1. flow[f].at = "redirect" /\ UNCHANGED <<loginRequired, authInfo, infos>>
    BY <1>10 DEF Redirect, clientVars
  <2>2. flow'[f].at = "respond" /\ flow'[f].id = infos[flow[f].info]
    BY <1>1, <1>10 DEF Redirect, FlowType
  <2> QED BY <1>1, <1>2, <2>1, <2>2 DEF Record
<1>11. CASE Respond(f) \/ CheckState(f)
  <2>1. /\ flow[f].at \in Away /\ flow'[f].at \in Away \cup {"forbidden"} /\ flow'[f].id = flow[f].id
        /\ UNCHANGED <<loginRequired, authInfo, infos>>
    BY <1>1, <1>11, GoesTo DEF Respond, CheckState, clientVars
  <2> QED BY <1>1, <1>2, <2>1 DEF Record
<1>12. CASE Authorize(f)
  <2>1. /\ flow[f].at \in Away /\ flow'[f].at \in Away \cup {"forbidden"} /\ flow'[f].id = flow[f].id
        /\ UNCHANGED <<loginRequired, authInfo, infos>>
    BY <1>1, <1>12 DEF Authorize, clientVars, FlowType
  <2> QED BY <1>1, <1>2, <2>1 DEF Record
<1>13. CASE CallbackInfo(f)
  <2>1. loginRequired[n] /\ i # 0 /\ infos[i] = flow[f].id /\ UNCHANGED <<loginRequired, infos>>
    BY <1>1, <1>2, <1>13 DEF Record, CallbackInfo, clientVars, Lonely, AsksOnce
  <2>2. flow'[f].at = "exchange" /\ flow'[f].info = i /\ flow'[f].id = flow[f].id
    BY <1>1, <1>13, <2>1, GoesWithTo DEF CallbackInfo
  <2> QED BY <1>1, <2>1, <2>2 DEF Record
<1>14. CASE Exchange(f) \/ SaveToken(f)
  <2>1. /\ flow[f].at \in {"exchange", "saveToken"} /\ flow'[f].at \in {"saveToken", "setBearer"}
        /\ UNCHANGED loginRequired
    BY <1>1, <1>2, <1>14, GoesTo DEF Exchange, SaveToken, Record, clientVars
  <2> QED BY <1>1, <1>2, <2>1 DEF Record
<1>15. CASE SetBearer(f) \/ Signal(f) \/ DeleteSession(f) \/ Finish(f)
  <2>1. flow'[f].at \in Given
    BY <1>1, <1>15, GoesTo DEF SetBearer, Signal, DeleteSession, Finish, Given
  <2> QED BY <2>1 DEF Record, Given
<1> QED
  BY <1>1, <1>4, <1>5, <1>6, <1>7, <1>8, <1>9, <1>10, <1>11, <1>12, <1>13, <1>14, <1>15, OneMoves
  DEF Login, Callback, Begin, Lonely

LEMMA UndisturbedStays == ASSUME Step, AsksOnce, Undisturbed PROVE Undisturbed'
<1> SUFFICES ASSUME NEW f \in Flows, flow'[f].at # "idle"
             PROVE  (~SharesBrowser(f)' => Session(f)') /\ (Alone(f)' => Record(f)')
  BY DEF Undisturbed
<1>1. CASE flow[f].at # "idle"
  <2>1. ASSUME ~SharesBrowser(f)' PROVE Session(f)'
    <3>1. flow'[f].browser = flow[f].browser
      BY <1>1, NameKept
    <3>2. ~SharesBrowser(f)
      BY <2>1, <3>1, SharedThen DEF SharesBrowser
    <3> QED BY <1>1, <3>2, SessionStays DEF Single, Undisturbed
  <2>2. ASSUME Alone(f)' PROVE Record(f)'
    <3>1. Lonely(f)
      BY <1>1, <2>2, AloneBefore, AloneHasBrowser DEF Lonely, Undisturbed
    <3> QED BY <3>1, RecordStays
  <2> QED BY <2>1, <2>2
<1>2. CASE flow[f].at = "idle"
  <2>1. Begin(f)
    <3>1. ~Login(f) /\ ~Callback(f)
      BY <1>2
      DEF At, Login, CheckLogin, GetInfo, Rediscover, ReadId, Register, SaveId, FindSession,
          StoreState, SessionLost, Redirect, Respond, Callback, Authorize, CheckState,
          CallbackInfo, Exchange, SaveToken, SetBearer, Signal, DeleteSession, Finish
    <3> QED BY <1>2, <3>1, OneMoves
  <2>2. PICK b \in Browsers, n \in Names :
            flow' = [flow EXCEPT ![f] = [Idle EXCEPT !.at = "check", !.browser = b, !.name = n,
                                                     !.session = cookie[b]]]
    BY <2>1 DEF Begin
  <2>3. flow'[f].at = "check" /\ flow'[f].browser = b /\ flow'[f].session = cookie[b]
    BY <2>2, OneMoves DEF Idle
  <2>4. ~SharesBrowser(f)' => cookie[b] = None
    <3> SUFFICES ASSUME cookie[b] # None PROVE SharesBrowser(f)'
      OBVIOUS
    <3> DEFINE g == cookie[b]
    <3>1. g \in Flows /\ flow[g].browser = b
      BY DEF Step, Inv, Types, Apart, SessionsApart
    <3>2. flow[g].at # "idle"
      BY <3>1, NotFlows DEF Step, Inv, Types, Fit, Idle
    <3> HIDE DEF g
    <3> QED BY <1>2, <2>3, <3>1, <3>2, SharedThen
  <2> QED BY <2>3, <2>4 DEF Session, Record, BeforeSession, BeforeRespond, Away, Granted
<1> QED BY <1>1, <1>2

(***************************************************************************)
(* Logins of one upstream that overlap.                                    *)
(***************************************************************************)

\* While a client waits for its token, the record stays, and its client_id changes only
\* when a login of this upstream registers another client.
LEMMA RecordTurns ==
    ASSUME Step, AsksOnce, NEW n \in Names, bearer'[n] = None
    PROVE  /\ bearer[n] = None
           /\ \A h \in Flows : SetBearer(h) => flow[h].name # n
           /\ loginRequired[n] =>
                  /\ authInfo'[n] = authInfo[n] /\ authInfo[n] \in 1 .. Len(infos)
                  /\ \/ infos'[authInfo[n]] = infos[authInfo[n]]
                     \/ \E g \in Flows : /\ Register(g) /\ flow[g].name = n
                                         /\ infos'[authInfo[n]] = g
           /\ ~loginRequired[n] =>
                  authInfo'[n] = 0 \/ infos'[authInfo'[n]] \in {ConfiguredId, None}
<1> DEFINE i == authInfo[n]
<1>1. /\ bearer \in [Names -> Tokens] /\ authInfo \in [Names -> 0 .. Len(infos)]
      /\ infos \in Seq(Ids) /\ Len(infos) \in Nat
  BY DEF Step, Inv, Types
<1>2. ASSUME NEW g \in Flows, SetBearer(g), flow[g].name = n PROVE FALSE
  <2>1. bearer'[n] = g
    BY <1>1, <1>2 DEF SetBearer
  <2> QED BY <2>1, NotFlows
<1>3. bearer[n] = None /\ (authInfo'[n] = i \/ AskLogin(n))
  BY <1>2, ClientTurns
<1>4. ASSUME loginRequired[n]
      PROVE  /\ authInfo'[n] = i /\ i \in 1 .. Len(infos)
             /\ \/ infos'[i] = infos[i]
                \/ \E g \in Flows : Register(g) /\ flow[g].name = n /\ infos'[i] = g
  <2>1. ~AskLogin(n)
    BY <1>4 DEF AsksOnce, AskLogin, Asks
  <2>2. i \in 1 .. Len(infos)
    BY <1>1, <1>4 DEF AsksOnce
  <2>3. ASSUME NEW g \in Flows, Register(g), flow[g].info = i PROVE flow[g].name = n /\ infos'[i] = g
    <3>1. flow[g].at # "idle"
      BY <2>3 DEF Register, At
    <3>2. flow[g].name \in Names
      BY <3>1, NameKept
    <3>3. Carries(i, n) /\ Carries(i, flow[g].name)
      BY <2>3 DEF Carries
    <3>4. flow[g].name = n
      BY <2>2, <3>2, <3>3 DEF Step, Inv, InfosApart
    <3>5. infos'[i] = g
      BY <1>1, <2>2, <2>3 DEF Register
    <3> QED BY <3>4, <3>5
  <2> QED BY <1>3, <2>1, <2>2, <2>3, RecordKept
<1>5. ASSUME ~loginRequired[n]
      PROVE  authInfo'[n] = 0 \/ infos'[authInfo'[n]] \in {ConfiguredId, None}
  <2>1. i = 0
    BY <1>5 DEF Step, Inv, KeeperInv
  <2>2. CASE AskLogin(n)
    <3> DEFINE id == IF n \in Configured THEN ConfiguredId ELSE None
    <3>1. infos' = Append(infos, id) /\ authInfo'[n] = Len(infos) + 1
      BY <1>1, <2>2 DEF AskLogin, Asks
    <3>2. id \in {ConfiguredId, None} /\ id \in Ids
      BY DEF Ids
    <3> HIDE DEF id
    <3>3. infos'[Len(infos) + 1] = id
      BY <1>1, <3>1, <3>2, AppendGrows
    <3> QED BY <3>1, <3>2, <3>3
  <2> QED BY <1>3, <2>1, <2>2
<1> QED BY <1>2, <1>3, <1>4, <1>5

\* Who has been let through has a client that waits for its token or has one.
LEMMA WaitsFor ==
    ASSUME Step, AsksOnce, NEW f \in Flows, LetThrough(f)', bearer'[flow'[f].name] = None
    PROVE  /\ flow[f].at # "idle" /\ flow'[f].name = flow[f].name /\ flow[f].name \in Names
           /\ loginRequired[flow[f].name]
<1>1. LetThrough(f) \/ (CheckLogin(f) /\ loginRequired[flow[f].name])
  BY Progress
<1>2. flow[f].at # "idle"
  BY <1>1 DEF LetThrough, CheckLogin, At
<1>3. flow'[f].name = flow[f].name /\ flow[f].name \in Names
  BY <1>2, NameKept
<1>4. bearer[flow[f].name] = None
  BY <1>3, RecordTurns
<1> QED BY <1>1, <1>2, <1>3, <1>4 DEF AsksOnce

LEMMA CourseStays == ASSUME Step, AsksOnce, Courses, NEW f \in Flows PROVE Course(f)'
<1> USE DEF At, BeforeRespond, Away
<1> DEFINE n == flow[f].name
           i == authInfo[n]
<1> SUFFICES ASSUME LetThrough(f)', bearer'[flow'[f].name] = None PROVE Course(f)'
  BY DEF Course, LetThrough
<1>1. flow[f] \in FlowType /\ flow'[f] \in FlowType /\ DOMAIN flow = Flows
  BY OneMoves
<1>2. flow[f].at # "idle" /\ flow'[f].name = n /\ n \in Names /\ loginRequired[n]
  BY WaitsFor
<1>3. /\ bearer[n] = None /\ ~SetBearer(f)
      /\ authInfo'[n] = i /\ i \in 1 .. Len(infos) /\ i # 0
      /\ infos'[i] \in Flows \cup {infos[i]}
  BY <1>2, RecordTurns
<1>4. /\ flow[f].at \in BeforeRespond \cup {"exchange"} => flow[f].info = i
      /\ flow[f].at \in Away \cup {"exchange"} => infos[i] \in Flows \cup {flow[f].id}
      /\ flow[f].at = "rejected" => infos[i] \in Flows
      /\ flow[f].at \notin {"discover", "noInfo"}
  BY <1>3 DEF Courses, Course
<1> SUFFICES /\ flow'[f].at \in BeforeRespond \cup {"exchange"} => flow'[f].info = i
             /\ flow'[f].at \in Away \cup {"exchange"} => infos'[i] \in Flows \cup {flow'[f].id}
             /\ flow'[f].at = "rejected" => infos'[i] \in Flows
             /\ flow'[f].at \notin {"discover", "noInfo"}
  BY <1>2, <1>3 DEF Course
<1> HIDE DEF n, i
<1>5. CASE flow'[f] = flow[f]
  BY <1>3, <1>4, <1>5
<1>6. CASE CheckLogin(f)
  <2>1. flow'[f].at \in {"getInfo", "notRequired"}
    BY <1>1, <1>6, GoesTo DEF CheckLogin
  <2> QED BY <2>1
<1>7. CASE GetInfo(f)
  <2>1. flow'[f].at = "readId" /\ flow'[f].info = i
    BY <1>1, <1>3, <1>7, GoesWithTo DEF GetInfo, n, i
  <2> QED BY <2>1
<1>8. CASE Rediscover(f)
  BY <1>4, <1>8 DEF Rediscover
<1>9. CASE ReadId(f) \/ Register(f) \/ SaveId(f) \/ FindSession(f) \/ StoreState(f)
  <2>1. /\ flow[f].at \in BeforeRespond /\ flow'[f].at \in BeforeRespond
        /\ flow'[f].info = flow[f].info
    <3>1. CASE FindSession(f)
      BY <1>1, <3>1, GoesTo DEF FindSession, FlowType
    <3>2. CASE ~FindSession(f)
      BY <1>1, <1>9, <3>2, GoesTo DEF ReadId, Register, SaveId, StoreState
    <3> QED BY <3>1, <3>2
  <2> QED BY <1>4, <2>1
<1>10. CASE SessionLost(f)
  <2>1. flow'[f].at = "forbidden"
    BY <1>1, <1>10, GoesTo DEF SessionLost
  <2> QED BY <2>1
<1>11. CASE Redirect(f)
  <2>1. flow[f].at = "redirect" /\ flow'[f].at = "respond" /\ flow'[f].id = infos[flow[f].info]
        /\ UNCHANGED infos
    BY <1>1, <1>11 DEF Redirect, FlowType
  <2> QED BY <1>4, <2>1
<1>12. CASE Respond(f) \/ Authorize(f) \/ CheckState(f)
  <2>1. /\ flow[f].at \in Away /\ flow'[f].at \in Away \cup {"forbidden"} /\ flow'[f].id = flow[f].id
        /\ UNCHANGED infos
    <3>1. CASE Authorize(f)
      BY <1>1, <3>1 DEF Authorize, FlowType
    <3>2. CASE ~Authorize(f)
      BY <1>1, <1>12, <3>2, GoesTo DEF Respond, CheckState
    <3> QED BY <3>1, <3>2
  <2> QED BY <1>4, <2>1
<1>13. CASE CallbackInfo(f)
  <2>1. /\ flow[f].at = "callbackInfo" /\ flow'[f].at = "exchange" /\ flow'[f].info = i
        /\ flow'[f].id = flow[f].id /\ UNCHANGED infos
    BY <1>1, <1>3, <1>13, GoesWithTo DEF CallbackInfo, n, i
  <2> QED BY <1>4, <2>1
<1>14. CASE Exchange(f)
  <2>1. /\ flow[f].at = "exchange" /\ flow'[f].at \in {"saveToken", "rejected"} /\ UNCHANGED infos
        /\ flow'[f].at = "rejected" => infos[flow[f].info] # flow[f].id
    BY <1>1, <1>14, GoesTo DEF Exchange
  <2> QED BY <1>4, <2>1
<1>15. CASE SaveToken(f) \/ Signal(f) \/ DeleteSession(f) \/ Finish(f)
  <2>1. flow'[f].at \in {"setBearer", "delete", "finish", "done"}
    BY <1>1, <1>15, GoesTo DEF SaveToken, Signal, DeleteSession, Finish
  <2> QED BY <2>1
<1> QED
  BY <1>2, <1>3, <1>5, <1>6, <1>7, <1>8, <1>9, <1>10, <1>11, <1>12, <1>13, <1>14, <1>15, OneMoves
  DEF Login, Callback, Begin

LEMMA OnCourseStays ==
    ASSUME Step, AsksOnce, Courses, NEW n \in Names, bearer'[n] = None, authInfo'[n] # 0,
           NEW g \in Flows, infos'[authInfo'[n]] = g
    PROVE  OnCourse(g, n)'
<1> USE DEF At, BeforeRespond, Away
<1> DEFINE i == authInfo[n]
<1>1. loginRequired[n]
  BY RecordTurns, NotFlows
<1>2. /\ bearer[n] = None /\ \A h \in Flows : SetBearer(h) => flow[h].name # n
      /\ authInfo'[n] = i /\ i \in 1 .. Len(infos) /\ i # 0
      /\ \/ infos'[i] = infos[i]
         \/ \E h \in Flows : Register(h) /\ flow[h].name = n /\ infos'[i] = h
  BY <1>1, RecordTurns
<1>3. ASSUME Register(g), flow[g].name = n PROVE OnCourse(g, n)'
  <2>1. flow'[g].at = "saveId" /\ flow'[g].name = n
    BY <1>3, OneMoves, GoesTo DEF Register
  <2> QED BY <2>1 DEF OnCourse
<1>4. ASSUME infos'[i] = infos[i] PROVE OnCourse(g, n)'
  <2>1. infos[i] = g
    BY <1>2, <1>4
  <2>2. OnCourse(g, n) /\ Course(g)
    BY <1>2, <2>1 DEF Courses
  <2>3. flow[g] \in FlowType /\ flow'[g] \in FlowType /\ DOMAIN flow = Flows
    BY <2>1, OneMoves
  <2>4. flow[g].name = n /\ flow[g].at # "idle" /\ ~SetBearer(g)
    BY <1>2, <2>1, <2>2 DEF OnCourse
  <2>5. flow'[g].name = n
    BY <2>1, <2>4, NameKept
  <2>6. /\ flow[g].at \in BeforeRespond \cup {"exchange"} => flow[g].info = i
        /\ flow[g].at \in Away \cup {"exchange"} => flow[g].id = g
        /\ flow[g].at \in {"saveId", "session", "storeState", "redirect", "saveToken", "setBearer",
                           "exchange", "forbidden"} \cup Away
    BY <1>2, <2>2, <2>4 DEF Course, OnCourse
  <2> HIDE DEF i
  <2> SUFFICES /\ flow'[g].at \in {"saveId", "session", "storeState", "redirect", "saveToken",
                                   "setBearer", "exchange", "forbidden"} \cup Away
               /\ flow'[g].at \in Away \cup {"exchange"} => flow'[g].id = g
    BY <2>5 DEF OnCourse
  <2>7. CASE flow'[g] = flow[g]
    BY <2>6, <2>7
  <2>8. CASE SaveId(g) \/ FindSession(g) \/ StoreState(g) \/ SessionLost(g)
    <3>1. flow'[g].at \in {"session", "storeState", "redirect", "forbidden"}
      <4>1. CASE FindSession(g)
        BY <2>1, <2>3, <4>1, GoesTo DEF FindSession, FlowType
      <4>2. CASE ~FindSession(g)
        BY <2>1, <2>3, <2>8, <4>2, GoesTo DEF SaveId, StoreState, SessionLost
      <4> QED BY <4>1, <4>2
    <3> QED BY <3>1
  <2>9. CASE Redirect(g)
    <3>1. flow[g].at = "redirect" /\ flow'[g].at = "respond" /\ flow'[g].id = infos[flow[g].info]
      BY <2>1, <2>3, <2>9 DEF Redirect, FlowType
    <3> QED BY <2>1, <2>6, <3>1
  <2>10. CASE Respond(g) \/ Authorize(g) \/ CheckState(g)
    <3>1. /\ flow[g].at \in Away /\ flow'[g].at \in Away \cup {"forbidden"}
          /\ flow'[g].id = flow[g].id
      <4>1. CASE Authorize(g)
        BY <2>1, <2>3, <4>1 DEF Authorize, FlowType
      <4>2. CASE ~Authorize(g)
        BY <2>1, <2>3, <2>10, <4>2, GoesTo DEF Respond, CheckState
      <4> QED BY <4>1, <4>2
    <3> QED BY <2>6, <3>1
  <2>11. CASE CallbackInfo(g)
    <3>1. flow[g].at = "callbackInfo" /\ flow'[g].at = "exchange" /\ flow'[g].id = flow[g].id
      BY <1>2, <2>1, <2>3, <2>4, <2>11, GoesWithTo DEF CallbackInfo, i
    <3> QED BY <2>6, <3>1
  <2>12. CASE Exchange(g)
    <3>1. flow[g].at = "exchange" /\ infos[flow[g].info] = flow[g].id
      BY <2>1, <2>6, <2>12 DEF Exchange
    <3>2. flow'[g].at = "saveToken"
      BY <2>1, <2>3, <2>12, <3>1, GoesTo DEF Exchange
    <3> QED BY <3>2
  <2>13. CASE SaveToken(g)
    <3>1. flow'[g].at = "setBearer"
      BY <2>1, <2>3, <2>13, GoesTo DEF SaveToken
    <3> QED BY <3>1
  <2> QED
    BY <2>1, <2>4, <2>6, <2>7, <2>8, <2>9, <2>10, <2>11, <2>12, <2>13, OneMoves
    DEF Login, Callback, Begin, CheckLogin, GetInfo, Rediscover, ReadId, Register, Signal,
        DeleteSession, Finish
<1> QED BY <1>2, <1>3, <1>4

LEMMA CoursesStay == ASSUME Step, AsksOnce, Courses PROVE Courses'
<1>1. ASSUME NEW f \in Flows PROVE Course(f)' /\ flow'[f].at # "failed"
  BY CourseStays, Progress DEF Courses
<1>2. ASSUME NEW n \in Names, bearer'[n] = None, authInfo'[n] # 0, infos'[authInfo'[n]] \in Flows
      PROVE  OnCourse(infos[authInfo[n]], n)'
  <2>1. \A g \in Flows : infos'[authInfo'[n]] = g => OnCourse(g, n)'
    BY <1>2, OnCourseStays
  <2> QED BY <1>2, <2>1 DEF OnCourse
<1> QED BY <1>1, <1>2 DEF Courses

LEMMA CausesStay == ASSUME Inv, CauseInv, [Next]_vars PROVE CauseInv'
<1> SUFFICES ASSUME failures' = 0 PROVE AsksOnce' /\ Undisturbed' /\ Courses'
  BY DEF CauseInv
<1>1. Step
  BY NothingFails
<1> QED BY <1>1, AsksOnceStays, UndisturbedStays, CoursesStay DEF CauseInv, Step

LEMMA CausesInitially == Init => CauseInv
<1> SUFFICES ASSUME Init PROVE CauseInv
  OBVIOUS
<1>1. \A f \in Flows : flow[f] = Idle
  BY DEF Init
<1>2. \A n \in Names : bearer[n] \in {OldToken, None} /\ ~loginRequired[n] /\ keeper[n] = "trying"
  BY DEF Init
<1>3. AsksOnce
  BY <1>1, <1>2 DEF AsksOnce, Idle, LetThrough, Given
<1>4. Undisturbed
  BY <1>1 DEF Undisturbed, Idle
<1>5. Courses
  <2>1. \A f \in Flows : Course(f) /\ flow[f].at # "failed"
    <3> SUFFICES ASSUME NEW f \in Flows PROVE Course(f) /\ flow[f].at # "failed"
      OBVIOUS
    <3>1. flow[f].at = "idle"
      BY <1>1 DEF Idle
    <3> QED BY <3>1 DEF Course, BeforeRespond, Away
  <2>2. \A n \in Names : authInfo[n] = 0
    BY DEF Init
  <2> QED BY <2>1, <2>2 DEF Courses
<1> QED BY <1>3, <1>4, <1>5 DEF CauseInv

\* As long as nothing fails, clients ask once, who has no rival finds again what it has
\* stored, and one of several logins of an upstream is on course.
THEOREM Causes == Spec => []CauseInv
BY CausesInitially, CausesStay, Invariance, PTL DEF Spec

\* A callback, or a login whose session is gone, is turned away only because of
\* another login of its browser or its upstream, or after a failure.
THEOREM RefusalsHaveRivals == Spec => []RefusedHasRival
<1>1. CauseInv => RefusedHasRival
  <2> SUFFICES ASSUME CauseInv, failures = 0, NEW f \in Flows, Alone(f),
                      flow[f].at \in {"forbidden", "noInfo", "rejected"}
               PROVE  FALSE
    BY DEF RefusedHasRival, Alone
  <2> QED BY AloneHasBrowser DEF CauseInv, Undisturbed, Session, Record
<1> QED BY <1>1, Causes, PTL

\* Of the logins of one upstream, from one browser each, one gets its client a token
\* before all have ended, although they register different clients, if nothing fails.
THEOREM OneSucceeds == Spec => []LoginSucceeds
<1>1. ASSUME Inv, CauseInv PROVE LoginSucceeds
  <2> SUFFICES ASSUME failures = 0, NEW f \in Flows, LetThrough(f),
                      \A g \in Flows : Ended(g) /\ (LetThrough(g) => ~SharesBrowser(g)),
                      bearer[flow[f].name] = None
               PROVE  FALSE
    BY DEF LoginSucceeds
  <2> DEFINE n == flow[f].name
             g == infos[authInfo[n]]
  <2>1. AsksOnce /\ Undisturbed /\ Courses
    BY <1>1 DEF CauseInv
  <2>2. n \in Names /\ loginRequired[n] /\ authInfo[n] # 0
    <3>1. n \in Names
      BY <1>1 DEF LetThrough, Inv, Types, Fit
    <3> QED BY <2>1, <3>1 DEF AsksOnce
  <2>3. ASSUME NEW h \in Flows, LetThrough(h), flow[h].at = "forbidden" PROVE FALSE
    BY <2>1, <2>3 DEF LetThrough, Undisturbed, Session
  <2>4. flow[f].at = "rejected"
    <3>1. flow[f].at \notin {"failed", "noInfo", "done"}
      BY <2>1, <2>2 DEF Courses, Course, AsksOnce, Given
    <3> QED BY <2>3, <3>1 DEF LetThrough, Ended, Refusals
  <2>5. g \in Flows /\ OnCourse(g, n)
    BY <2>1, <2>2, <2>4 DEF Courses, Course
  <2> HIDE DEF g
  <2>6. LetThrough(g) /\ flow[g].at # "forbidden" => ~Ended(g)
    BY <2>5 DEF OnCourse, Away, LetThrough, Ended, Refusals
  <2> QED BY <2>3, <2>5, <2>6 DEF OnCourse, Away, LetThrough
<1> QED BY <1>1, Causes, Invariance, PTL

=============================================================================
