------------------------ MODULE UpstreamLoginProofs ------------------------
(***************************************************************************)
(* TypeOK and LoginInv for any logins, browsers, upstreams and failures.   *)
(***************************************************************************)
EXTENDS UpstreamLogin, TLAPS

FlowType ==
    [at : Stages, browser : Browsers \cup {None}, name : Names \cup {None},
     session : Flows \cup {None}, made : BOOLEAN, info : Nat, id : Ids]
SessionType == [life : {"none", "live", "expired"}, state : Flows \cup {None}]
Gone == [life |-> "none", state |-> None]

\* What a login is at each stage, with the records allocated so far.
HasId == {"saveId", "session", "storeState", "redirect"}
HasSession == {"storeState", "redirect", "callback", "callbackInfo", "exchange", "saveToken",
               "setBearer", "signal", "delete"}
Fit(r, records) ==
    /\ r \in FlowType /\ r.info \in 0 .. Len(records)
    /\ r.at = "idle" => r = Idle
    /\ r.at # "idle" => r.browser \in Browsers /\ r.name \in Names
    /\ r.at \in UsesInfo => r.info # 0
    /\ r.at \in HasId => records[r.info] # None
    /\ r.at \in {"respond", "authorizing"} => r.id # None
    /\ r.at \in HasSession => r.session # None

Types ==
    /\ flow = [f \in Flows |-> flow[f]] /\ \A f \in Flows : Fit(flow[f], infos)
    /\ cookie \in [Browsers -> Flows \cup {None}]
    /\ sessions \in [Flows -> SessionType]
    /\ stored \in [Names -> [token : Tokens, id : Ids]]
    /\ bearer \in [Names -> Tokens]
    /\ loginRequired \in [Names -> BOOLEAN]
    /\ authInfo \in [Names -> 0 .. Len(infos)]
    /\ infos \in Seq(Ids)
    /\ keeper \in [Names -> {"trying", "asking", "leaving", "parked"}]
    /\ connected \in [Names -> BOOLEAN]
    /\ failures \in 0 .. MaxFailures

\* A login whose state a session holds has begun.
Apart ==
    /\ SessionsApart
    /\ \A s \in Flows : sessions[s].state # None => flow[sessions[s].state].at # "idle"

\* A record is used for one upstream, and its client was registered for it.
Carries(i, n) == authInfo[n] = i \/ \E f \in Flows : flow[f].info = i /\ flow[f].name = n
InfosApart ==
    \A i \in 1 .. Len(infos), n \in Names : Carries(i, n) =>
        /\ \A m \in Names : Carries(i, m) => m = n
        /\ \A g \in Flows : infos[i] = g => flow[g].name = n

\* A state is in one session, from StoreState on, and CheckState has found it in the
\* session that DeleteSession deletes.
Stateless == {"idle", "check", "getInfo", "discover", "readId", "register", "saveId", "session",
              "storeState", "finish", "done"}
Checked == {"callbackInfo", "exchange", "saveToken", "setBearer", "signal", "delete"}
StatesUnique ==
    \A s \in Flows : sessions[s].state # None =>
        LET f == sessions[s].state
        IN  /\ flow[f].at \notin Stateless
            /\ \A t \in Flows : sessions[t].state = f => t = s
            /\ flow[f].at \in Checked => flow[f].session = s

KeeperInv ==
    /\ \A n \in Names : authInfo[n] # 0 => loginRequired[n]
    /\ \A n \in Names : connected[n] => keeper[n] \in {"leaving", "parked"}

Inv == Types /\ Apart /\ TokensApart /\ InfosApart /\ StatesUnique /\ KeeperInv

(***************************************************************************)
(* Records are added and get a client_id, which they keep.                 *)
(***************************************************************************)
Grown(old, new) ==
    /\ new \in Seq(Ids) /\ Len(old) <= Len(new)
    /\ \A i \in 1 .. Len(old) : old[i] # None => new[i] # None

LEMMA NotFlows == None \notin Flows /\ ConfiguredId \notin Flows /\ OldToken \notin Flows
                  /\ None \notin Browsers /\ None \notin Names /\ ConfiguredId # None
BY LoginAssumption DEF LoginAssumption

LEMMA AppendGrows ==
    ASSUME NEW records \in Seq(Ids), NEW id \in Ids
    PROVE  Grown(records, Append(records, id)) /\ Len(Append(records, id)) = Len(records) + 1
           /\ Append(records, id)[Len(records) + 1] = id
BY DEF Grown

LEMMA InfosGrow == ASSUME Inv, [Next]_vars, ~Restart PROVE Grown(infos, infos')
<1>1. infos \in Seq(Ids)
  BY DEF Inv, Types
<1>2. CASE UNCHANGED infos
  BY <1>1, <1>2 DEF Grown
<1>3. ASSUME NEW n \in Names, AskLogin(n) PROVE Grown(infos, infos')
  BY <1>1, <1>3, AppendGrows DEF AskLogin, Ids
<1>4. ASSUME NEW f \in Flows, Rediscover(f) PROVE Grown(infos, infos')
  BY <1>1, <1>4, AppendGrows DEF Rediscover, Ids
<1>5. ASSUME NEW f \in Flows, Register(f) PROVE Grown(infos, infos')
  <2>1. infos' = [infos EXCEPT ![flow[f].info] = f]
    BY <1>5 DEF Register
  <2>2. f \in Ids /\ f # None
    BY NotFlows DEF Ids
  <2>3. infos' \in Seq(Ids)
    <3>1. infos \in [1 .. Len(infos) -> Ids] /\ Len(infos) \in Nat
      BY <1>1
    <3>2. infos' \in [1 .. Len(infos) -> Ids]
      BY <2>1, <2>2, <3>1
    <3> QED BY <3>1, <3>2
  <2>4. Len(infos') = Len(infos)
    BY <1>1, <2>1
  <2>5. \A i \in 1 .. Len(infos) : infos'[i] \in {infos[i], f}
    BY <1>1, <2>1
  <2>6. Len(infos) <= Len(infos')
    BY <1>1, <2>4
  <2>7. \A i \in 1 .. Len(infos) : infos[i] # None => infos'[i] # None
    BY <2>2, <2>5
  <2> QED BY <2>3, <2>6, <2>7 DEF Grown
<1> QED
  BY <1>2, <1>3, <1>4, <1>5
  DEF Next, vars, Begin, Login, CheckLogin, GetInfo, ReadId, SaveId, FindSession, StoreState,
      SessionLost, Redirect, Respond, Callback, Authorize, CheckState, CallbackInfo, Exchange,
      SaveToken, SetBearer, Signal, DeleteSession, Finish, NetworkFails, SaveFails, Expire,
      CleanupExpired, Keeper, Refused, Connect, Park, DiscoveryFails, Lose

LEMMA FitGrows ==
    ASSUME NEW r, NEW old \in Seq(Ids), NEW new, Grown(old, new), Fit(r, old)
    PROVE  Fit(r, new)
<1>1. new \in Seq(Ids) /\ Len(old) \in Nat /\ Len(new) \in Nat /\ Len(old) <= Len(new)
  BY DEF Grown
<1>2. r.info \in 0 .. Len(new)
  BY <1>1 DEF Fit
<1>3. r.at \in HasId => r.info \in 1 .. Len(old)
  BY <1>1 DEF Fit, HasId, UsesInfo
<1>4. r.at \in HasId => new[r.info] # None
  BY <1>3 DEF Fit, Grown
<1> QED BY <1>2, <1>4 DEF Fit

(***************************************************************************)
(* One login moves, and keeps its browser and upstream.                    *)
(***************************************************************************)
Keeps(old, new) ==
    old.at # "idle" => new.at # "idle" /\ new.browser = old.browser /\ new.name = old.name
Moved(f) ==
    /\ flow' = [flow EXCEPT ![f] = flow'[f]]
    /\ Fit(flow'[f], infos') /\ Keeps(flow[f], flow'[f])

LEMMA MovesTo ==
    ASSUME Inv, NEW f \in Flows, NEW r, flow' = [flow EXCEPT ![f] = r], Fit(r, infos'),
           Keeps(flow[f], r)
    PROVE  Moved(f)
BY DEF Moved, Inv, Types

\* To a stage with fewer or the same needs.
LEMMA GoesMoves ==
    ASSUME Inv, NEW f \in Flows, NEW stage \in Stages \ {"idle"}, Goes(f, stage), UNCHANGED infos,
           flow[f].at # "idle",
           stage \in UsesInfo => flow[f].info # 0,
           stage \in HasId => infos[flow[f].info] # None,
           stage \in {"respond", "authorizing"} => flow[f].id # None,
           stage \in HasSession => flow[f].session # None
    PROVE  Moved(f)
<1> DEFINE r == [flow[f] EXCEPT !.at = stage]
<1>1. Fit(flow[f], infos)
  BY DEF Inv, Types
<1>2. r \in FlowType
  BY <1>1 DEF Fit, FlowType
<1>3. /\ r.at = stage /\ r.browser = flow[f].browser /\ r.name = flow[f].name
      /\ r.session = flow[f].session /\ r.info = flow[f].info /\ r.id = flow[f].id
  BY <1>1 DEF Fit, FlowType
<1>4. Fit(r, infos)
  BY <1>1, <1>2, <1>3 DEF Fit
<1>5. Keeps(flow[f], r)
  BY <1>3 DEF Keeps
<1> QED BY <1>4, <1>5, MovesTo DEF Goes

LEMMA GoesWithMoves ==
    ASSUME Inv, NEW f \in Flows, NEW stage \in Stages \ (HasId \cup {"idle", "respond", "authorizing"}),
           NEW info \in 0 .. Len(infos'), GoesWith(f, stage, info), Grown(infos, infos'),
           flow[f].at # "idle",
           stage \in UsesInfo => info # 0,
           stage \in HasSession => flow[f].session # None
    PROVE  Moved(f)
<1> DEFINE r == [flow[f] EXCEPT !.at = stage, !.info = info]
<1>1. Fit(flow[f], infos) /\ info \in Nat
  BY DEF Inv, Types, Grown
<1>2. r \in FlowType
  BY <1>1 DEF Fit, FlowType
<1>3. /\ r.at = stage /\ r.browser = flow[f].browser /\ r.name = flow[f].name
      /\ r.session = flow[f].session /\ r.info = info /\ r.id = flow[f].id
  BY <1>1 DEF Fit, FlowType
<1>4. Fit(r, infos')
  BY <1>1, <1>2, <1>3 DEF Fit
<1>5. Keeps(flow[f], r)
  BY <1>3 DEF Keeps
<1> QED BY <1>4, <1>5, MovesTo DEF GoesWith

LEMMA LoginMoves == ASSUME Inv, NEW f \in Flows, Login(f), [Next]_vars, ~Restart PROVE Moved(f)
<1> USE DEF At, Stages, LoginStages, CallbackStages, Refusals, UsesInfo, HasId, HasSession
<1>1. Fit(flow[f], infos) /\ infos \in Seq(Ids) /\ Grown(infos, infos')
  BY InfosGrow DEF Inv, Types
<1>2. CASE CheckLogin(f)
  BY <1>2, GoesMoves DEF CheckLogin
<1>3. CASE GetInfo(f)
  <2>1. flow[f].name \in Names
    BY <1>1, <1>3 DEF GetInfo, Fit
  <2>2. authInfo[flow[f].name] \in 0 .. Len(infos')
    BY <1>3, <2>1 DEF GetInfo, Inv, Types
  <2> QED BY <1>1, <1>3, <2>2, GoesWithMoves DEF GetInfo
<1>4. CASE Rediscover(f)
  <2>1. Len(infos) + 1 \in 0 .. Len(infos') /\ Len(infos) + 1 # 0
    BY <1>1, <1>4, AppendGrows DEF Rediscover, Ids
  <2> QED BY <1>1, <1>4, <2>1, GoesWithMoves DEF Rediscover
<1>5. CASE ReadId(f)
  BY <1>1, <1>5, GoesMoves DEF ReadId, Fit
<1>6. CASE Register(f)
  <2> DEFINE r == [flow[f] EXCEPT !.at = "saveId"]
  <2>1. r \in FlowType
    BY <1>1 DEF Fit, FlowType
  <2>2. /\ r.at = "saveId" /\ r.browser = flow[f].browser /\ r.name = flow[f].name
        /\ r.session = flow[f].session /\ r.info = flow[f].info
    BY <1>1 DEF Fit, FlowType
  <2>3. flow[f].info \in 1 .. Len(infos) /\ flow[f].at = "register"
    BY <1>1, <1>6 DEF Register, Fit
  <2>4. infos'[r.info] = f
    BY <1>1, <1>6, <2>2, <2>3 DEF Register
  <2>5. Len(infos') = Len(infos)
    BY <1>1, <1>6 DEF Register
  <2>6. Fit(r, infos')
    BY <1>1, <2>1, <2>2, <2>3, <2>4, <2>5, NotFlows DEF Fit
  <2>7. Keeps(flow[f], r)
    BY <2>2 DEF Keeps
  <2> QED BY <1>6, <2>6, <2>7, MovesTo DEF Register, Goes
<1>7. CASE SaveId(f)
  BY <1>1, <1>7, GoesMoves DEF SaveId, Fit
<1>8. CASE FindSession(f)
  <2>1. flow[f].at = "session" /\ UNCHANGED infos
    BY <1>8 DEF FindSession
  <2>2. CASE Goes(f, "storeState") /\ flow[f].session # None
    BY <1>1, <2>1, <2>2, GoesMoves DEF Fit
  <2>3. CASE flow' = [flow EXCEPT ![f].at = "storeState", ![f].session = f, ![f].made = TRUE]
    <3> DEFINE r == [flow[f] EXCEPT !.at = "storeState", !.session = f, !.made = TRUE]
    <3>1. r \in FlowType
      BY <1>1 DEF Fit, FlowType
    <3>2. /\ r.at = "storeState" /\ r.browser = flow[f].browser /\ r.name = flow[f].name
          /\ r.session = f /\ r.info = flow[f].info
      BY <1>1 DEF Fit, FlowType
    <3>3. Fit(r, infos')
      BY <1>1, <2>1, <3>1, <3>2, NotFlows DEF Fit
    <3>4. Keeps(flow[f], r)
      BY <3>2 DEF Keeps
    <3> QED BY <2>3, <3>3, <3>4, MovesTo
  <2> QED BY <1>8, <2>2, <2>3 DEF FindSession
<1>9. CASE StoreState(f)
  BY <1>1, <1>9, GoesMoves DEF StoreState, Fit
<1>10. CASE SessionLost(f)
  BY <1>1, <1>10, GoesMoves DEF SessionLost, Fit
<1>11. CASE Redirect(f)
  <2> DEFINE r == [flow[f] EXCEPT !.at = "respond", !.id = infos[flow[f].info], !.info = 0]
  <2>1. infos[flow[f].info] \in Ids \ {None}
    BY <1>1, <1>11 DEF Redirect, Fit
  <2>2. r \in FlowType
    BY <1>1, <2>1 DEF Fit, FlowType
  <2>3. /\ r.at = "respond" /\ r.browser = flow[f].browser /\ r.name = flow[f].name
        /\ r.info = 0 /\ r.id = infos[flow[f].info]
    BY <1>1 DEF Fit, FlowType
  <2>4. flow[f].at # "idle" /\ UNCHANGED infos
    BY <1>11 DEF Redirect
  <2>5. Fit(r, infos')
    BY <1>1, <2>1, <2>2, <2>3, <2>4 DEF Fit
  <2>6. Keeps(flow[f], r)
    BY <2>3 DEF Keeps
  <2> QED BY <1>11, <2>5, <2>6, MovesTo DEF Redirect
<1>12. CASE Respond(f)
  BY <1>1, <1>12, GoesMoves DEF Respond, Fit
<1> QED
  BY <1>2, <1>3, <1>4, <1>5, <1>6, <1>7, <1>8, <1>9, <1>10, <1>11, <1>12 DEF Login

LEMMA CallbackMoves == ASSUME Inv, NEW f \in Flows, Callback(f) PROVE Moved(f)
<1> USE DEF At, Stages, LoginStages, CallbackStages, Refusals, UsesInfo, HasId, HasSession
<1>1. Fit(flow[f], infos) /\ infos \in Seq(Ids)
  BY DEF Inv, Types
<1>2. CASE Authorize(f)
  <2> DEFINE s == cookie[flow[f].browser]
             stage == IF s = None THEN "forbidden" ELSE "callback"
             r == [flow[f] EXCEPT !.session = s, !.at = stage]
  <2>1. flow[f].at = "authorizing" /\ UNCHANGED infos /\ flow' = [flow EXCEPT ![f] = r]
    BY <1>2 DEF Authorize
  <2>2. s \in Flows \cup {None}
    BY <1>1, <2>1 DEF Fit, Inv, Types
  <2>3. r \in FlowType
    BY <1>1, <2>2 DEF Fit, FlowType
  <2>4. /\ r.at = stage /\ r.browser = flow[f].browser /\ r.name = flow[f].name
        /\ r.session = s /\ r.info = flow[f].info
    BY <1>1 DEF Fit, FlowType
  <2>5. Fit(r, infos')
    BY <1>1, <2>1, <2>3, <2>4 DEF Fit
  <2>6. Keeps(flow[f], r)
    BY <2>1, <2>4 DEF Keeps
  <2> QED BY <2>1, <2>5, <2>6, MovesTo
<1>3. CASE CheckState(f)
  BY <1>1, <1>3, GoesMoves DEF CheckState, Fit
<1>4. CASE CallbackInfo(f)
  <2>1. flow[f].name \in Names
    BY <1>1, <1>4 DEF CallbackInfo, Fit
  <2>2. authInfo[flow[f].name] \in 0 .. Len(infos') /\ Grown(infos, infos')
    BY <1>1, <1>4, <2>1 DEF CallbackInfo, Inv, Types, Grown
  <2> QED BY <1>1, <1>4, <2>2, GoesWithMoves DEF CallbackInfo, Fit
<1>5. CASE Exchange(f)
  BY <1>1, <1>5, GoesMoves DEF Exchange, Fit
<1>6. CASE SaveToken(f)
  BY <1>1, <1>6, GoesMoves DEF SaveToken, Fit
<1>7. CASE SetBearer(f)
  BY <1>1, <1>7, GoesMoves DEF SetBearer, Fit
<1>8. CASE Signal(f)
  BY <1>1, <1>8, GoesMoves DEF Signal, Fit
<1>9. CASE DeleteSession(f)
  BY <1>1, <1>9, GoesMoves DEF DeleteSession, clientVars, Fit
<1>10. CASE Finish(f)
  BY <1>1, <1>10, GoesMoves DEF Finish, Fit
<1> QED
  BY <1>2, <1>3, <1>4, <1>5, <1>6, <1>7, <1>8, <1>9, <1>10 DEF Callback

LEMMA BeginMoves == ASSUME Inv, NEW f \in Flows, Begin(f) PROVE Moved(f)
<1>1. PICK b \in Browsers, n \in Names :
          flow' = [flow EXCEPT ![f] = [Idle EXCEPT !.at = "check", !.browser = b, !.name = n,
                                                   !.session = cookie[b]]]
  BY DEF Begin
<1> DEFINE r == [Idle EXCEPT !.at = "check", !.browser = b, !.name = n, !.session = cookie[b]]
<1>2. r \in FlowType
  BY DEF Idle, FlowType, Stages, LoginStages, Ids, Inv, Types
<1>3. infos' \in Seq(Ids) /\ flow[f].at = "idle"
  BY DEF Begin, At, Inv, Types
<1>4. Fit(r, infos')
  BY <1>2, <1>3 DEF Idle, Fit, UsesInfo, HasId, HasSession
<1>5. Keeps(flow[f], r)
  BY <1>3 DEF Keeps
<1> QED BY <1>1, <1>4, <1>5, MovesTo

LEMMA FailsMoves == ASSUME Inv, NEW f \in Flows, NetworkFails(f) \/ SaveFails(f) PROVE Moved(f)
<1> USE DEF At, Stages, LoginStages, CallbackStages, Refusals, UsesInfo, HasId, HasSession
<1>1. Fit(flow[f], infos) /\ infos \in Seq(Ids)
  BY DEF Inv, Types
<1>2. CASE NetworkFails(f)
  BY <1>1, <1>2, GoesMoves DEF NetworkFails, Fit
<1>3. CASE SaveFails(f)
  BY <1>1, <1>3, GoesMoves DEF SaveFails, Fit
<1> QED BY <1>2, <1>3

LEMMA RestartMoves ==
    ASSUME Inv, Restart, NEW f \in Flows
    PROVE  Fit(flow'[f], infos') /\ Keeps(flow[f], flow'[f])
<1> USE DEF Stages, LoginStages, CallbackStages, Refusals, UsesInfo, HasId, HasSession
<1>1. Fit(flow[f], infos) /\ infos' = <<>>
  BY DEF Inv, Types, Restart
<1> DEFINE stage == IF flow[f].at \in LoginStages \cup CallbackStages THEN "failed" ELSE flow[f].at
           r == [flow[f] EXCEPT !.info = 0, !.at = stage]
<1>2. flow'[f] = r
  BY DEF Restart
<1>3. r \in FlowType
  BY <1>1 DEF Fit, FlowType
<1>4. /\ r.at = stage /\ r.browser = flow[f].browser /\ r.name = flow[f].name
      /\ r.session = flow[f].session /\ r.info = 0 /\ r.id = flow[f].id
  BY <1>1 DEF Fit, FlowType
<1>5. r.info \in 0 .. Len(infos')
  BY <1>1, <1>4
<1>6. flow[f].at = "idle" => r = Idle
  <2> SUFFICES ASSUME flow[f].at = "idle" PROVE r = Idle
    OBVIOUS
  <2>1. flow[f] = Idle /\ stage = "idle"
    BY <1>1 DEF Fit
  <2>2. r = [Idle EXCEPT !.info = 0, !.at = "idle"]
    BY <2>1
  <2> HIDE DEF r
  <2> QED BY <2>2 DEF Idle
<1>7. Fit(r, infos')
  <2>1. stage = "idle" => flow[f].at = "idle"
    OBVIOUS
  <2>2. stage \notin UsesInfo \cup HasId \cup {"respond"}
    OBVIOUS
  <2>3. stage \in HasSession \cup {"authorizing"} => stage = flow[f].at
    OBVIOUS
  <2>4. stage # "idle" => flow[f].at # "idle"
    OBVIOUS
  <2> HIDE DEF r, stage, UsesInfo, HasId, HasSession
  <2> QED BY <1>1, <1>3, <1>4, <1>5, <1>6, <2>1, <2>2, <2>3, <2>4 DEF Fit
<1> QED BY <1>2, <1>4, <1>7 DEF Keeps

LEMMA Moves ==
    ASSUME Inv, [Next]_vars
    PROVE  /\ flow' = [f \in Flows |-> flow'[f]]
           /\ \A f \in Flows : Fit(flow'[f], infos') /\ Keeps(flow[f], flow'[f])
<1>1. flow = [f \in Flows |-> flow[f]] /\ infos \in Seq(Ids) /\ \A f \in Flows : Fit(flow[f], infos)
  BY DEF Inv, Types
<1>2. CASE Restart
  <2>1. flow' = [f \in Flows |-> flow'[f]]
    BY <1>2 DEF Restart
  <2> QED BY <1>2, <2>1, RestartMoves
<1>3. CASE ~Restart
  <2>1. \A f \in Flows : Fit(flow[f], infos')
    BY <1>1, <1>3, InfosGrow, FitGrows
  <2>2. CASE UNCHANGED flow
    BY <1>1, <2>1, <2>2 DEF Keeps
  <2>3. ASSUME NEW f \in Flows, Moved(f)
        PROVE  /\ flow' = [g \in Flows |-> flow'[g]]
               /\ \A g \in Flows : Fit(flow'[g], infos') /\ Keeps(flow[g], flow'[g])
    BY <1>1, <2>1, <2>3 DEF Moved, Keeps
  <2> QED
    BY <1>3, <2>2, <2>3, LoginMoves, CallbackMoves, BeginMoves, FailsMoves
    DEF Next, vars, Keeper, Refused, AskLogin, Asks, Connect, Park, DiscoveryFails, Lose, Expire,
        CleanupExpired
<1> QED BY <1>2, <1>3

(***************************************************************************)
(* What becomes of sessions and cookies.                                   *)
(***************************************************************************)
LEMMA SessionTurns ==
    ASSUME Inv, [Next]_vars
    PROVE  /\ sessions' \in [Flows -> SessionType]
           /\ \A s \in Flows : \/ sessions'[s].state \in {sessions[s].state, None}
                               \/ \E f \in Flows : /\ StoreState(f) /\ flow[f].session = s
                                                   /\ sessions'[s].state = f
<1> DEFINE Turned == /\ sessions' \in [Flows -> SessionType]
                     /\ \A s \in Flows : \/ sessions'[s].state \in {sessions[s].state, None}
                                         \/ \E f \in Flows : /\ StoreState(f) /\ flow[f].session = s
                                                             /\ sessions'[s].state = f
<1>1. sessions \in [Flows -> SessionType]
  BY DEF Inv, Types
<1>2. CASE UNCHANGED sessions
  BY <1>1, <1>2
<1>3. ASSUME NEW s \in Flows, NEW life \in {"none", "live"},
             sessions' = [sessions EXCEPT ![s] = [life |-> life, state |-> None]]
      PROVE  Turned
  <2>1. [life |-> life, state |-> None] \in SessionType
    BY DEF SessionType
  <2> QED BY <1>1, <1>3, <2>1
<1>4. ASSUME NEW s \in Flows, Expire(s) PROVE Turned
  <2>1. [sessions[s] EXCEPT !.life = "expired"] \in SessionType
        /\ [sessions[s] EXCEPT !.life = "expired"].state = sessions[s].state
    BY <1>1 DEF SessionType
  <2> QED BY <1>1, <1>4, <2>1 DEF Expire
<1>5. ASSUME NEW f \in Flows, StoreState(f) PROVE Turned
  <2>1. flow[f].session \in Flows
    BY <1>5 DEF StoreState, At, Inv, Types, Fit, FlowType, HasSession
  <2>2. [sessions[flow[f].session] EXCEPT !.state = f] \in SessionType
        /\ [sessions[flow[f].session] EXCEPT !.state = f].state = f
    BY <1>1, <2>1 DEF SessionType
  <2>3. sessions' = [sessions EXCEPT ![flow[f].session]
                          = [sessions[flow[f].session] EXCEPT !.state = f]]
    BY <1>5 DEF StoreState
  <2> QED BY <1>1, <1>5, <2>1, <2>2, <2>3
<1>6. CASE Restart
  <2>1. Gone \in SessionType /\ Gone.state = None /\ sessions' = [s \in Flows |-> Gone]
    BY <1>6 DEF Gone, SessionType, Restart
  <2> QED BY <2>1
<1>7. ASSUME NEW f \in Flows, FindSession(f) PROVE Turned
  BY <1>2, <1>3, <1>7 DEF FindSession
<1>8. ASSUME NEW s \in Flows, CleanupExpired(s) PROVE Turned
  BY <1>3, <1>8 DEF CleanupExpired
<1>9. ASSUME NEW f \in Flows, DeleteSession(f) PROVE Turned
  <2>1. flow[f].session \in Flows
    BY <1>9 DEF DeleteSession, At, Inv, Types, Fit, FlowType, HasSession
  <2> QED BY <1>3, <1>9, <2>1 DEF DeleteSession
<1> HIDE DEF Turned
<1>10. Turned
  BY <1>2, <1>4, <1>5, <1>6, <1>7, <1>8, <1>9
  DEF Next, vars, Begin, Login, CheckLogin, GetInfo, Rediscover, ReadId, Register, SaveId,
      SessionLost, Redirect, Respond, Callback, Authorize, CheckState, CallbackInfo, Exchange,
      SaveToken, SetBearer, Signal, Finish, NetworkFails, SaveFails, Keeper, Refused, AskLogin,
      Asks, Connect, Park, DiscoveryFails, Lose, Turned
<1> QED BY <1>10 DEF Turned

LEMMA CookieTurns ==
    ASSUME Inv, [Next]_vars
    PROVE  /\ cookie' \in [Browsers -> Flows \cup {None}]
           /\ \A b \in Browsers : \/ cookie'[b] \in {cookie[b], None}
                                  \/ \E f \in Flows : /\ flow[f].browser = b
                                                      /\ cookie'[b] = flow[f].session
<1>1. cookie \in [Browsers -> Flows \cup {None}] /\ \A f \in Flows : flow[f].session \in Flows \cup {None}
  BY DEF Inv, Types, Fit, FlowType
<1>2. CASE UNCHANGED cookie
  BY <1>1, <1>2
<1>3. CASE \E f \in Flows : GetsResponse(f)
  BY <1>1, <1>3 DEF GetsResponse
<1>4. CASE \E f \in Flows : Finish(f)
  BY <1>1, <1>4 DEF Finish
<1> QED
  BY <1>2, <1>3, <1>4
  DEF Next, vars, Begin, Login, CheckLogin, GetInfo, Rediscover, ReadId, Register, SaveId,
      FindSession, StoreState, SessionLost, Redirect, Respond, Callback, Authorize, CheckState,
      CallbackInfo, Exchange, SaveToken, SetBearer, Signal, DeleteSession, NetworkFails, SaveFails,
      Expire, CleanupExpired, Keeper, Refused, AskLogin, Asks, Connect, Park, DiscoveryFails, Lose,
      Restart

\* A step of another login leaves this one alone.
LEMMA Mover ==
    ASSUME Inv, [Next]_vars, NEW f \in Flows, flow'[f] # flow[f]
    PROVE  Restart \/ Begin(f) \/ Login(f) \/ Callback(f) \/ NetworkFails(f) \/ SaveFails(f)
<1>1. CASE Restart
  BY <1>1
<1>2. ASSUME NEW g \in Flows, ~Restart,
             Begin(g) \/ Login(g) \/ Callback(g) \/ NetworkFails(g) \/ SaveFails(g)
      PROVE  g = f
  <2>1. Moved(g)
    BY <1>2, LoginMoves, CallbackMoves, BeginMoves, FailsMoves
  <2> QED BY <2>1 DEF Moved, Inv, Types
<1> QED
  BY <1>1, <1>2
  DEF Next, vars, Keeper, Refused, AskLogin, Asks, Connect, Park, DiscoveryFails, Lose, Expire,
      CleanupExpired

LEMMA SessionTaken ==
    ASSUME Inv, [Next]_vars, NEW f \in Flows
    PROVE  flow'[f].session \in {flow[f].session, f} \/ flow'[f].session = cookie[flow'[f].browser]
<1>1. flow[f] \in FlowType /\ DOMAIN flow = Flows
  BY DEF Inv, Types, Fit
<1>2. \A stage : Goes(f, stage) => flow'[f].session = flow[f].session
  BY <1>1 DEF Goes, FlowType
<1>3. \A stage, info : GoesWith(f, stage, info) => flow'[f].session = flow[f].session
  BY <1>1 DEF GoesWith, FlowType
<1>4. CASE flow'[f] = flow[f]
  BY <1>4
<1>5. CASE Restart
  <2>1. flow'[f].session = flow[f].session
    BY <1>1, <1>5 DEF Restart, FlowType
  <2> QED BY <2>1
<1>6. CASE Begin(f)
  <2>1. flow'[f].session = cookie[flow'[f].browser]
    BY <1>1, <1>6 DEF Begin, Idle
  <2> QED BY <2>1
<1>7. CASE FindSession(f)
  BY <1>1, <1>2, <1>7 DEF FindSession, FlowType
<1>8. CASE Redirect(f)
  BY <1>1, <1>8 DEF Redirect, FlowType
<1>9. CASE Authorize(f)
  <2>1. flow'[f].session = cookie[flow'[f].browser]
    BY <1>1, <1>9 DEF Authorize, FlowType
  <2> QED BY <2>1
<1>10. CASE Login(f) \/ Callback(f) \/ NetworkFails(f) \/ SaveFails(f)
  BY <1>2, <1>3, <1>7, <1>8, <1>9, <1>10
  DEF Login, CheckLogin, GetInfo, Rediscover, ReadId, Register, SaveId, StoreState, SessionLost,
      Respond, Callback, CheckState, CallbackInfo, Exchange, SaveToken, SetBearer, Signal,
      DeleteSession, Finish, NetworkFails, SaveFails
<1> QED BY <1>4, <1>5, <1>6, <1>10, Mover

LEMMA Aparting == ASSUME Inv, [Next]_vars PROVE Apart'
<1>1. ASSUME NEW s \in Flows, flow[s].browser \in Browsers
      PROVE  flow'[s].at # "idle" /\ flow'[s].browser = flow[s].browser
  <2>1. flow[s].at # "idle"
    BY <1>1, NotFlows DEF Inv, Types, Fit, Idle
  <2> QED BY <2>1, Moves DEF Keeps
<1>2. ASSUME NEW f \in Flows, flow[f].session # None PROVE flow[f].browser \in Browsers
  <2>1. Fit(flow[f], infos)
    BY DEF Inv, Types
  <2>2. flow[f] # Idle
    BY <1>2 DEF Idle
  <2> QED BY <2>1, <2>2 DEF Fit
<1>3. ASSUME NEW b \in Browsers, cookie'[b] # None PROVE flow'[cookie'[b]].browser = b
  <2>1. cookie'[b] \in Flows /\ flow[cookie'[b]].browser = b
    <3>1. cookie'[b] \in Flows
      BY <1>3, CookieTurns
    <3>2. CASE cookie'[b] = cookie[b]
      BY <1>3, <3>1, <3>2 DEF Inv, Apart, SessionsApart
    <3>3. CASE \E f \in Flows : flow[f].browser = b /\ cookie'[b] = flow[f].session
      BY <1>3, <3>1, <3>3 DEF Inv, Apart, SessionsApart
    <3> QED BY <1>3, <3>1, <3>2, <3>3, CookieTurns
  <2> QED BY <1>1, <2>1
<1>4. ASSUME NEW f \in Flows, flow'[f].session # None
      PROVE  flow'[flow'[f].session].browser = flow'[f].browser
  <2>1. flow'[f].session \in Flows /\ flow'[f].browser \in Browsers
    BY <1>4, Moves DEF Fit, FlowType, Idle
  <2>2. CASE flow'[f].session = f
    BY <2>2
  <2>3. CASE flow'[f].session = cookie[flow'[f].browser]
    <3>1. flow[flow'[f].session].browser = flow'[f].browser
      BY <1>4, <2>1, <2>3 DEF Inv, Apart, SessionsApart
    <3> QED BY <1>1, <2>1, <3>1
  <2>4. CASE flow'[f].session = flow[f].session
    <3>1. flow[flow'[f].session].browser = flow[f].browser /\ flow[f].browser \in Browsers
      BY <1>2, <1>4, <2>4 DEF Inv, Apart, SessionsApart
    <3> QED BY <1>1, <2>1, <3>1
  <2> QED BY <2>2, <2>3, <2>4, SessionTaken
<1>5. ASSUME NEW s \in Flows, sessions'[s].state # None
      PROVE  /\ flow'[sessions'[s].state].at # "idle"
             /\ flow'[sessions'[s].state].browser = flow'[s].browser
  <2> DEFINE f == sessions'[s].state
  <2>1. f \in Flows
    BY <1>5, SessionTurns DEF SessionType
  <2>2. CASE f = sessions[s].state
    <3>1. flow[f].browser \in Browsers /\ flow[f].browser = flow[s].browser
      BY <1>5, <2>1, <2>2 DEF Inv, Apart, SessionsApart, Types, Fit
    <3> QED BY <1>1, <2>1, <3>1
  <2>3. CASE StoreState(f) /\ flow[f].session = s
    <3>1. flow[f].browser \in Browsers /\ flow[f].browser = flow[s].browser
      BY <1>2, <2>1, <2>3, NotFlows DEF Inv, Apart, SessionsApart
    <3> QED BY <1>1, <2>1, <3>1
  <2> QED BY <1>5, <2>2, <2>3, SessionTurns
<1> QED BY <1>3, <1>4, <1>5 DEF Apart, SessionsApart

\* How a login comes to the stages where its state is not stored yet or not
\* there any more, and past CheckState.
LEMMA StageTurns ==
    ASSUME Inv, [Next]_vars, NEW f \in Flows
    PROVE  /\ flow'[f].at \in Stateless => flow[f].at \in Stateless \/ DeleteSession(f)
           /\ flow'[f].at \in Checked =>
                  /\ flow'[f].session = flow[f].session
                  /\ flow[f].at \in Checked \/ StateMatches(f)
           /\ StoreState(f) => flow'[f].at = "redirect"
<1> USE DEF At
<1>1. flow[f] \in FlowType /\ DOMAIN flow = Flows
  BY DEF Inv, Types, Fit
<1>2. \A stage : Goes(f, stage) => flow'[f].at = stage /\ flow'[f].session = flow[f].session
  BY <1>1 DEF Goes, FlowType
<1>3. \A stage, info : GoesWith(f, stage, info)
          => flow'[f].at = stage /\ flow'[f].session = flow[f].session
  BY <1>1 DEF GoesWith, FlowType
<1>4. StoreState(f) => flow'[f].at = "redirect"
  BY <1>2 DEF StoreState
<1>5. CASE flow'[f] = flow[f]
  <2>1. ~StoreState(f)
    BY <1>4, <1>5 DEF StoreState
  <2> QED BY <1>5, <2>1
<1>6. CASE Restart
  <2>1. flow'[f].at = IF flow[f].at \in LoginStages \cup CallbackStages THEN "failed" ELSE flow[f].at
    BY <1>1, <1>6 DEF Restart, FlowType
  <2>2. flow'[f].session = flow[f].session
    BY <1>1, <1>6 DEF Restart, FlowType
  <2> QED BY <1>4, <2>1, <2>2 DEF Stateless, Checked
<1>7. CASE Begin(f)
  <2>1. flow[f].at = "idle" /\ flow'[f].at = "check"
    BY <1>1, <1>7 DEF Begin, Idle
  <2> QED BY <1>4, <2>1 DEF Stateless, Checked
<1>8. CASE FindSession(f)
  <2>1. flow[f].at = "session" /\ flow'[f].at = "storeState"
    BY <1>1, <1>8 DEF FindSession, Goes, FlowType
  <2> QED BY <1>4, <2>1 DEF Stateless, Checked
<1>9. CASE Redirect(f)
  <2>1. flow'[f].at = "respond"
    BY <1>1, <1>9 DEF Redirect, FlowType
  <2> QED BY <1>4, <2>1 DEF Stateless, Checked
<1>10. CASE Authorize(f)
  <2>1. flow'[f].at \in {"forbidden", "callback"}
    BY <1>1, <1>10 DEF Authorize, FlowType
  <2> QED BY <1>4, <2>1 DEF Stateless, Checked
<1>11. CASE DeleteSession(f)
  BY <1>2, <1>4, <1>11 DEF DeleteSession, Stateless, Checked
<1>12. CASE CheckState(f)
  BY <1>2, <1>4, <1>12 DEF CheckState, Stateless, Checked
<1>13. CASE CheckLogin(f) \/ GetInfo(f) \/ Rediscover(f) \/ ReadId(f) \/ Register(f) \/ SaveId(f)
  BY <1>2, <1>3, <1>4, <1>13
  DEF CheckLogin, GetInfo, Rediscover, ReadId, Register, SaveId, Stateless, Checked
<1>14. CASE StoreState(f) \/ SessionLost(f) \/ Respond(f)
  BY <1>2, <1>4, <1>14 DEF StoreState, SessionLost, Respond, Stateless, Checked
<1>15. CASE CallbackInfo(f) \/ Exchange(f) \/ SaveToken(f) \/ SetBearer(f) \/ Signal(f) \/ Finish(f)
  <2>1. /\ flow[f].at \in {"callbackInfo", "exchange", "saveToken", "setBearer", "signal", "finish"}
        /\ flow'[f].session = flow[f].session
        /\ flow'[f].at = "done" => flow[f].at = "finish"
        /\ flow[f].at = "finish" => flow'[f].at = "done"
        /\ flow'[f].at \in {"noInfo", "exchange", "saveToken", "rejected", "setBearer", "signal",
                            "delete", "done"}
    BY <1>2, <1>3, <1>15 DEF CallbackInfo, Exchange, SaveToken, SetBearer, Signal, Finish
  <2> QED BY <1>4, <2>1 DEF Stateless, Checked
<1>16. CASE NetworkFails(f) \/ SaveFails(f)
  BY <1>2, <1>4, <1>16 DEF NetworkFails, SaveFails, Stateless, Checked
<1>17. CASE Login(f)
  BY <1>8, <1>9, <1>13, <1>14, <1>17 DEF Login
<1>18. CASE Callback(f)
  BY <1>10, <1>11, <1>12, <1>15, <1>18 DEF Callback
<1>19. \/ flow'[f] = flow[f]
       \/ Restart \/ Begin(f) \/ Login(f) \/ Callback(f) \/ NetworkFails(f) \/ SaveFails(f)
  BY Mover
<1> QED BY <1>5, <1>6, <1>7, <1>16, <1>17, <1>18, <1>19

LEMMA Uniqueness == ASSUME Inv, [Next]_vars PROVE StatesUnique'
<1> SUFFICES ASSUME NEW s \in Flows, NEW f \in Flows, sessions'[s].state = f
             PROVE  /\ flow'[f].at \notin Stateless
                    /\ \A t \in Flows : sessions'[t].state = f => t = s
                    /\ flow'[f].at \in Checked => flow'[f].session = s
  <2>1. \A s \in Flows : sessions'[s].state \in Flows \cup {None}
    BY SessionTurns DEF SessionType
  <2> QED BY <2>1 DEF StatesUnique
<1>1. f # None
  BY NotFlows
<1>2. \A t \in Flows : sessions'[t].state = f =>
          sessions[t].state = f \/ (StoreState(f) /\ flow[f].session = t)
  BY <1>1, SessionTurns
<1>3. \A t \in Flows : sessions[t].state = f =>
          /\ flow[f].at \notin Stateless
          /\ \A u \in Flows : sessions[u].state = f => u = t
          /\ flow[f].at \in Checked => flow[f].session = t
  BY <1>1 DEF Inv, StatesUnique
<1>4. StoreState(f) => flow[f].at \in Stateless /\ flow'[f].at = "redirect"
  BY StageTurns DEF StoreState, At, Stateless
<1>5. CASE sessions[s].state = f
  <2>1. ~DeleteSession(f)
    <3> SUFFICES ASSUME DeleteSession(f) PROVE FALSE
      OBVIOUS
    <3>1. flow[f].at \in Checked
      BY DEF DeleteSession, At, Checked
    <3>2. flow[f].session = s
      BY <1>3, <1>5, <3>1
    <3>3. sessions'[s].state = None
      BY <3>2 DEF DeleteSession, Inv, Types
    <3> QED BY <1>1, <3>3
  <2>2. flow'[f].at \notin Stateless
    BY <1>3, <1>5, <2>1, StageTurns
  <2>3. \A t \in Flows : sessions'[t].state = f => t = s
    BY <1>2, <1>3, <1>4, <1>5
  <2>4. ASSUME flow'[f].at \in Checked PROVE flow'[f].session = s
    <3>1. flow'[f].session = flow[f].session
      BY <2>4, StageTurns
    <3>2. CASE flow[f].at \in Checked
      BY <1>3, <1>5, <3>1, <3>2
    <3>3. CASE flow[f].at \notin Checked
      <4>1. StateMatches(f)
        BY <2>4, <3>3, StageTurns
      <4>2. flow[f].session \in Flows
        <5>1. flow'[f].session \in Flows \cup {None} /\ flow'[f].session # None
          BY <2>4, Moves DEF Fit, FlowType, Checked, HasSession
        <5> QED BY <3>1, <5>1
      <4>3. sessions[flow[f].session].state = f
        BY <4>1 DEF StateMatches
      <4> QED BY <1>3, <1>5, <3>1, <4>2, <4>3
    <3> QED BY <3>2, <3>3
  <2> QED BY <2>2, <2>3, <2>4
<1>6. CASE StoreState(f) /\ flow[f].session = s
  <2>1. flow'[f].at \notin Stateless \cup Checked
    BY <1>4, <1>6 DEF Stateless, Checked
  <2> QED BY <1>2, <1>3, <1>4, <1>6, <2>1
<1> QED BY <1>2, <1>5, <1>6

(***************************************************************************)
(* Clients, tokens and records.                                            *)
(***************************************************************************)
ClientTypes ==
    /\ bearer \in [Names -> Tokens] /\ loginRequired \in [Names -> BOOLEAN]
    /\ keeper \in [Names -> {"trying", "asking", "leaving", "parked"}]
    /\ connected \in [Names -> BOOLEAN]
    /\ DOMAIN authInfo = Names /\ authInfo = [n \in Names |-> authInfo[n]]

LEMMA ClientsRight == ASSUME Inv, [Next]_vars PROVE ClientTypes' /\ KeeperInv'
<1> DEFINE Right == ClientTypes /\ KeeperInv
<1> USE DEF ClientTypes, KeeperInv
<1>1. Right
  BY DEF Inv, Types
<1>2. CASE UNCHANGED clientVars
  BY <1>1, <1>2 DEF clientVars
<1>3. ASSUME NEW n \in Names, Refused(n) PROVE Right'
  BY <1>1, <1>3 DEF Refused
<1>4. ASSUME NEW n \in Names, NEW info, Asks(n, info) PROVE Right'
  BY <1>1, <1>4 DEF Asks
<1>5. ASSUME NEW n \in Names, Connect(n) PROVE Right'
  BY <1>1, <1>5 DEF Connect
<1>6. ASSUME NEW n \in Names, Park(n) PROVE Right'
  BY <1>1, <1>6 DEF Park
<1>7. ASSUME NEW n \in Names, Lose(n) PROVE Right'
  BY <1>1, <1>7 DEF Lose, Awake
<1>8. ASSUME NEW f \in Flows, SetBearer(f) PROVE Right'
  BY <1>1, <1>8 DEF SetBearer, Tokens
<1>9. ASSUME NEW f \in Flows, Signal(f) PROVE Right'
  BY <1>1, <1>9 DEF Signal, Awake
<1>10. CASE Restart
  <2>1. \A n \in Names : stored[n].token \in Tokens
    BY DEF Inv, Types
  <2> QED BY <1>10, <2>1 DEF Restart
<1> QED
  BY <1>2, <1>3, <1>4, <1>5, <1>6, <1>7, <1>8, <1>9, <1>10
  DEF Next, vars, Begin, Login, CheckLogin, GetInfo, Rediscover, ReadId, Register, SaveId,
      FindSession, StoreState, SessionLost, Redirect, Respond, Callback, Authorize, CheckState,
      CallbackInfo, Exchange, SaveToken, DeleteSession, Finish, NetworkFails, SaveFails, Expire,
      CleanupExpired, Keeper, AskLogin, DiscoveryFails

\* What uses a record.
LEMMA UsedRecord ==
    ASSUME Inv, NEW f \in Flows, flow[f].at \in UsesInfo
    PROVE  LET i == flow[f].info
           IN  /\ i \in 1 .. Len(infos) /\ flow[f].name \in Names /\ Carries(i, flow[f].name)
               /\ infos[i] \in Ids
               /\ \A g \in Flows : infos[i] = g => flow[g].name = flow[f].name
<1>1. flow[f].info \in 1 .. Len(infos) /\ flow[f].name \in Names
  BY DEF Inv, Types, Fit, UsesInfo
<1>2. Carries(flow[f].info, flow[f].name)
  BY DEF Carries
<1>3. infos[flow[f].info] \in Ids
  BY <1>1 DEF Inv, Types
<1>4. \A g \in Flows : infos[flow[f].info] = g => flow[g].name = flow[f].name
  BY <1>1, <1>2 DEF Inv, InfosApart
<1> QED BY <1>1, <1>2, <1>3, <1>4

StoredType == [token : Tokens, id : Ids]
LEMMA StoredTurns ==
    ASSUME Inv, [Next]_vars
    PROVE  /\ stored' \in [Names -> StoredType]
           /\ \A n \in Names, f \in Flows :
                  bearer'[n] = f \/ stored'[n].token = f \/ stored'[n].id = f => flow[f].name = n
<1> DEFINE Turned == /\ stored' \in [Names -> StoredType]
                     /\ \A n \in Names, f \in Flows :
                            bearer'[n] = f \/ stored'[n].token = f \/ stored'[n].id = f
                                => flow[f].name = n
<1>1. /\ stored \in [Names -> StoredType] /\ bearer \in [Names -> Tokens]
      /\ \A n \in Names, f \in Flows :
             bearer[n] = f \/ stored[n].token = f \/ stored[n].id = f => flow[f].name = n
  BY DEF Inv, Types, StoredType, TokensApart
<1>2. CASE UNCHANGED <<stored, bearer>>
  BY <1>1, <1>2
<1>3. ASSUME NEW f \in Flows, SetBearer(f) PROVE Turned
  BY <1>1, <1>3 DEF SetBearer
<1>4. ASSUME NEW f \in Flows, NEW t \in {f, None}, NEW i \in Ids, UNCHANGED bearer,
             stored' = [stored EXCEPT ![flow[f].name] = [token |-> t, id |-> i]],
             \A g \in Flows : i = g => flow[g].name = flow[f].name
      PROVE  Turned
  <2>1. [token |-> t, id |-> i] \in StoredType
    BY DEF StoredType, Tokens
  <2>2. \A n \in Names : stored'[n] = IF n = flow[f].name THEN [token |-> t, id |-> i] ELSE stored[n]
    BY <1>1, <1>4
  <2>3. t = f \/ t \notin Flows
    BY NotFlows
  <2> QED BY <1>1, <1>4, <2>1, <2>2, <2>3
<1>5. ASSUME NEW f \in Flows, SaveId(f) PROVE Turned
  BY <1>4, <1>5 DEF SaveId, Ids, clientVars
<1>6. ASSUME NEW f \in Flows, SaveToken(f) PROVE Turned
  <2>1. flow[f].at \in UsesInfo
    BY <1>6 DEF SaveToken, At, UsesInfo
  <2> DEFINE i == infos[flow[f].info]
  <2>2. i \in Ids /\ \A g \in Flows : i = g => flow[g].name = flow[f].name
    BY <2>1, UsedRecord
  <2>3. UNCHANGED bearer /\ stored' = [stored EXCEPT ![flow[f].name] = [token |-> f, id |-> i]]
    BY <1>6 DEF SaveToken, clientVars
  <2> HIDE DEF i
  <2> QED BY <1>4, <2>2, <2>3
<1>7. CASE Restart
  BY <1>1, <1>7 DEF Restart
<1> QED
  BY <1>2, <1>3, <1>5, <1>6, <1>7
  DEF Next, vars, clientVars, Begin, Login, CheckLogin, GetInfo, Rediscover, ReadId, Register,
      FindSession, StoreState, SessionLost, Redirect, Respond, Callback, Authorize, CheckState,
      CallbackInfo, Exchange, Signal, DeleteSession, Finish, NetworkFails, SaveFails, Expire,
      CleanupExpired, Keeper, Refused, AskLogin, Asks, Connect, Park, DiscoveryFails, Lose

LEMMA TokensStayApart == ASSUME Inv, [Next]_vars PROVE TokensApart'
<1> SUFFICES ASSUME NEW n \in Names, NEW f \in Flows,
                    bearer'[n] = f \/ stored'[n].token = f \/ stored'[n].id = f
             PROVE  flow'[f].name = n
  BY DEF TokensApart
<1>1. flow[f].name = n
  BY StoredTurns
<1>2. flow[f].at # "idle"
  BY <1>1, NotFlows DEF Inv, Types, Fit, Idle
<1> QED BY <1>1, <1>2, Moves DEF Keeps

CarriesThen(i, n) == authInfo'[n] = i \/ \E f \in Flows : flow'[f].info = i /\ flow'[f].name = n

\* A login takes its record from the client, or allocates one.
LEMMA InfoTaken ==
    ASSUME Inv, [Next]_vars, NEW f \in Flows
    PROVE  LET i == flow'[f].info
           IN  \/ i = 0
               \/ i = flow[f].info /\ flow'[f].name = flow[f].name
               \/ i = authInfo[flow'[f].name]
               \/ Rediscover(f) /\ flow'[f].name = flow[f].name
<1>1. flow[f] \in FlowType /\ DOMAIN flow = Flows
  BY DEF Inv, Types, Fit
<1>2. \A stage : Goes(f, stage) => flow'[f].info = flow[f].info /\ flow'[f].name = flow[f].name
  BY <1>1 DEF Goes, FlowType
<1>3. \A stage, info : GoesWith(f, stage, info)
          => flow'[f].info = info /\ flow'[f].name = flow[f].name
  BY <1>1 DEF GoesWith, FlowType
<1>4. CASE flow'[f] = flow[f]
  BY <1>4
<1>5. CASE Restart
  BY <1>1, <1>5 DEF Restart, FlowType
<1>6. CASE Begin(f)
  BY <1>1, <1>6 DEF Begin, Idle
<1>7. CASE FindSession(f)
  <2>1. flow'[f].info = flow[f].info /\ flow'[f].name = flow[f].name
    BY <1>1, <1>7 DEF FindSession, Goes, FlowType
  <2> QED BY <2>1
<1>8. CASE Redirect(f)
  BY <1>1, <1>8 DEF Redirect, FlowType
<1>9. CASE Authorize(f)
  <2>1. flow'[f].info = flow[f].info /\ flow'[f].name = flow[f].name
    BY <1>1, <1>9 DEF Authorize, FlowType
  <2> QED BY <2>1
<1>10. CASE GetInfo(f) \/ CallbackInfo(f)
  BY <1>3, <1>10 DEF GetInfo, CallbackInfo
<1>11. CASE Rediscover(f)
  BY <1>3, <1>11 DEF Rediscover
<1>12. CASE Login(f)
  BY <1>2, <1>7, <1>8, <1>10, <1>11, <1>12
  DEF Login, CheckLogin, ReadId, Register, SaveId, StoreState, SessionLost, Respond
<1>13. CASE Callback(f)
  BY <1>2, <1>9, <1>10, <1>13
  DEF Callback, CheckState, Exchange, SaveToken, SetBearer, Signal, DeleteSession, Finish
<1>14. CASE NetworkFails(f) \/ SaveFails(f)
  BY <1>2, <1>14 DEF NetworkFails, SaveFails
<1>15. \/ flow'[f] = flow[f]
       \/ Restart \/ Begin(f) \/ Login(f) \/ Callback(f) \/ NetworkFails(f) \/ SaveFails(f)
  BY Mover
<1> QED BY <1>4, <1>5, <1>6, <1>12, <1>13, <1>14, <1>15

LEMMA AuthTaken ==
    ASSUME Inv, [Next]_vars, NEW n \in Names
    PROVE  authInfo'[n] \in {authInfo[n], 0} \/ (AskLogin(n) /\ authInfo'[n] = Len(infos) + 1)
<1>1. DOMAIN authInfo = Names
  BY DEF Inv, Types
<1>2. CASE UNCHANGED authInfo
  BY <1>2
<1>3. ASSUME NEW m \in Names, AskLogin(m)
      PROVE  authInfo'[n] \in {authInfo[n], 0} \/ (AskLogin(n) /\ authInfo'[n] = Len(infos) + 1)
  BY <1>1, <1>3 DEF AskLogin, Asks
<1>4. CASE \E m \in Names : DiscoveryFails(m)
  BY <1>1, <1>4 DEF DiscoveryFails, Asks
<1>5. CASE \E f \in Flows : SetBearer(f)
  BY <1>1, <1>5 DEF SetBearer
<1>6. CASE Restart
  BY <1>6 DEF Restart
<1> QED
  BY <1>2, <1>3, <1>4, <1>5, <1>6
  DEF Next, vars, clientVars, Begin, Login, CheckLogin, GetInfo, Rediscover, ReadId, Register,
      SaveId, FindSession, StoreState, SessionLost, Redirect, Respond, Callback, Authorize,
      CheckState, CallbackInfo, Exchange, SaveToken, Signal, DeleteSession, Finish, NetworkFails,
      SaveFails, Expire, CleanupExpired, Keeper, Refused, Connect, Park, Lose

\* Nobody comes to a record that was there but from its own upstream.
LEMMA CarriesTurns ==
    ASSUME Inv, [Next]_vars, NEW i \in 1 .. Len(infos), NEW n \in Names, CarriesThen(i, n)
    PROVE  Carries(i, n)
<1>1. Len(infos) \in Nat /\ i # 0 /\ i # Len(infos) + 1
  BY DEF Inv, Types
<1>2. CASE authInfo'[n] = i
  BY <1>1, <1>2, AuthTaken DEF Carries
<1>3. ASSUME NEW f \in Flows, flow'[f].info = i, flow'[f].name = n PROVE Carries(i, n)
  <2>1. Rediscover(f) => flow'[f].info = Len(infos) + 1
    <3>1. flow[f] \in FlowType /\ DOMAIN flow = Flows
      BY DEF Inv, Types, Fit
    <3> QED BY <3>1 DEF Rediscover, GoesWith, FlowType
  <2> QED BY <1>1, <1>3, <2>1, InfoTaken DEF Carries
<1> QED BY <1>2, <1>3 DEF CarriesThen

LEMMA RecordsApart == ASSUME Inv, [Next]_vars PROVE InfosApart'
<1> DEFINE Apt(i, n) == /\ \A m \in Names : CarriesThen(i, m) => m = n
                        /\ \A g \in Flows : infos'[i] = g => flow'[g].name = n
<1>1. SUFFICES ASSUME NEW i \in 1 .. Len(infos'), NEW n \in Names, CarriesThen(i, n)
               PROVE  Apt(i, n)
  BY DEF InfosApart, Carries, CarriesThen
<1>2. ASSUME NEW g \in Flows, flow[g].name \in Names PROVE flow'[g].name = flow[g].name
  <2>1. flow[g].at # "idle"
    BY <1>2, NotFlows DEF Inv, Types, Fit, Idle
  <2> QED BY <2>1, Moves DEF Keeps
<1>3. infos \in Seq(Ids) /\ Len(infos) \in Nat
  BY DEF Inv, Types
<1>4. ASSUME i \in 1 .. Len(infos), infos'[i] = infos[i] PROVE Apt(i, n)
  <2>1. Carries(i, n)
    BY <1>1, <1>4, CarriesTurns
  <2>2. \A m \in Names : CarriesThen(i, m) => m = n
    BY <1>4, <2>1, CarriesTurns DEF Inv, InfosApart
  <2>3. \A g \in Flows : infos[i] = g => flow[g].name = n
    BY <1>4, <2>1 DEF Inv, InfosApart
  <2> QED BY <1>2, <1>4, <2>2, <2>3
<1>5. CASE UNCHANGED infos
  BY <1>4, <1>5
<1>6. CASE Restart
  <2>1. Len(infos') = 0
    BY <1>6 DEF Restart
  <2> QED BY <2>1
<1>7. ASSUME NEW f \in Flows, Register(f) PROVE Apt(i, n)
  <2>1. flow[f].info \in 1 .. Len(infos) /\ flow[f].name \in Names
        /\ Carries(flow[f].info, flow[f].name)
    BY <1>7, UsedRecord DEF Register, At, UsesInfo
  <2>2. infos' = [infos EXCEPT ![flow[f].info] = f]
    BY <1>7 DEF Register
  <2>3. i \in 1 .. Len(infos)
    BY <1>3, <2>2
  <2>4. CASE i # flow[f].info
    BY <1>3, <1>4, <2>2, <2>3, <2>4
  <2>5. CASE i = flow[f].info
    <3>1. Carries(i, n)
      BY <1>1, <2>3, CarriesTurns
    <3>2. n = flow[f].name /\ \A m \in Names : CarriesThen(i, m) => m = n
      BY <2>1, <2>3, <2>5, <3>1, CarriesTurns DEF Inv, InfosApart
    <3>3. infos'[i] = f
      BY <1>3, <2>2, <2>3, <2>5
    <3> QED BY <1>2, <2>1, <3>2, <3>3
  <2> QED BY <2>4, <2>5
<1>8. ASSUME NEW id \in Ids, infos' = Append(infos, id), NEW n0 \in Names,
             \A m \in Names : CarriesThen(Len(infos) + 1, m) => m = n0,
             \A g \in Flows : id = g => flow[g].name = n0
      PROVE  Apt(i, n)
  <2>1. i \in 1 .. Len(infos) \/ i = Len(infos) + 1
    BY <1>3, <1>8
  <2>2. CASE i \in 1 .. Len(infos)
    BY <1>3, <1>4, <1>8, <2>2
  <2>3. CASE i = Len(infos) + 1
    <3>1. infos'[i] = id
      BY <1>3, <1>8, <2>3
    <3> QED BY <1>1, <1>2, <1>8, <2>3, <3>1
  <2> QED BY <2>1, <2>2, <2>3
<1>9. \A f \in Flows : flow[f].info # Len(infos) + 1
  BY <1>3 DEF Inv, Types, Fit
<1>10. \A m \in Names : authInfo[m] # Len(infos) + 1
  BY <1>3 DEF Inv, Types
<1>11. ASSUME NEW n0 \in Names, AskLogin(n0) PROVE Apt(i, n)
  <2> DEFINE id == IF n0 \in Configured THEN ConfiguredId ELSE None
  <2>1. id \in Ids /\ id \notin Flows
    BY NotFlows DEF Ids
  <2>2. infos' = Append(infos, id) /\ UNCHANGED flow
        /\ authInfo' = [authInfo EXCEPT ![n0] = Len(infos) + 1]
    BY <1>11 DEF AskLogin, Asks
  <2>3. \A m \in Names : CarriesThen(Len(infos) + 1, m) => m = n0
    BY <1>9, <1>10, <2>2 DEF CarriesThen, Inv, Types
  <2> HIDE DEF id
  <2> QED BY <1>8, <2>1, <2>2, <2>3
<1>12. ASSUME NEW f \in Flows, Rediscover(f) PROVE Apt(i, n)
  <2> DEFINE id == IF flow[f].name \in Configured THEN ConfiguredId ELSE f
  <2>1. infos' = Append(infos, id) /\ UNCHANGED authInfo
        /\ flow' = [flow EXCEPT ![f].at = "readId", ![f].info = Len(infos) + 1]
    BY <1>12 DEF Rediscover, GoesWith, clientVars
  <2>2. flow[f].name \in Names
    BY <1>12 DEF Rediscover, At, Inv, Types, Fit
  <2>3. \A g \in Flows : flow'[g].info = Len(infos) + 1 => g = f
    BY <1>9, <2>1 DEF Inv, Types
  <2>4. flow'[f].name = flow[f].name
    BY <1>2, <2>2
  <2>5. \A m \in Names : CarriesThen(Len(infos) + 1, m) => m = flow[f].name
    BY <1>10, <2>1, <2>3, <2>4 DEF CarriesThen
  <2>6. id \in Ids /\ \A g \in Flows : id = g => flow[g].name = flow[f].name
    BY NotFlows DEF Ids
  <2> HIDE DEF id
  <2> QED BY <1>8, <2>1, <2>2, <2>5, <2>6
<1> HIDE DEF Apt
<1> QED
  BY <1>5, <1>6, <1>7, <1>11, <1>12
  DEF Next, vars, Begin, Login, CheckLogin, GetInfo, ReadId, SaveId, FindSession, StoreState,
      SessionLost, Redirect, Respond, Callback, Authorize, CheckState, CallbackInfo, Exchange,
      SaveToken, SetBearer, Signal, DeleteSession, Finish, NetworkFails, SaveFails, Expire,
      CleanupExpired, Keeper, Refused, Connect, Park, DiscoveryFails, Lose

LEMMA TypesStay == ASSUME Inv, [Next]_vars PROVE Types'
<1>1. flow' = [f \in Flows |-> flow'[f]] /\ \A f \in Flows : Fit(flow'[f], infos')
  BY Moves
<1>2. infos \in Seq(Ids) /\ Len(infos) \in Nat /\ failures \in 0 .. MaxFailures
  BY DEF Inv, Types
<1>3. infos' \in Seq(Ids) /\ (~Restart => Len(infos) <= Len(infos'))
  <2>1. CASE Restart
    <3>1. infos' = <<>>
      BY <2>1 DEF Restart
    <3>2. infos' \in Seq(Ids)
      BY <3>1
    <3> QED BY <2>1, <3>2
  <2>2. CASE ~Restart
    BY <2>2, InfosGrow DEF Grown
  <2> QED BY <2>1, <2>2
<1>4. authInfo' \in [Names -> 0 .. Len(infos')]
  <2>1. Len(infos') \in Nat
    BY <1>3
  <2>2. ASSUME NEW n \in Names PROVE authInfo'[n] \in 0 .. Len(infos')
    <3>1. CASE Restart
      <4>1. authInfo'[n] = 0
        BY <3>1 DEF Restart
      <4> QED BY <2>1, <4>1
    <3>2. CASE AskLogin(n) /\ authInfo'[n] = Len(infos) + 1
      <4>1. Len(infos') = Len(infos) + 1
        BY <1>2, <3>2, AppendGrows DEF AskLogin, Ids
      <4> QED BY <1>2, <3>2, <4>1
    <3>3. CASE ~Restart /\ authInfo'[n] \in {authInfo[n], 0}
      <4>1. authInfo[n] \in 0 .. Len(infos)
        BY DEF Inv, Types
      <4> QED BY <1>2, <1>3, <2>1, <3>3, <4>1
    <3> QED BY <3>1, <3>2, <3>3, AuthTaken
  <2>3. authInfo' = [n \in Names |-> authInfo'[n]]
    BY ClientsRight DEF ClientTypes
  <2> QED BY <2>2, <2>3
<1>5. failures' \in 0 .. MaxFailures
  <2>1. \/ UNCHANGED failures \/ Fails
        \/ \E n \in Names : /\ failures' = failures + (IF bearer[n] = None THEN 0 ELSE 1)
                            /\ bearer[n] # None => failures < MaxFailures
    BY DEF Next, vars, Begin, Login, CheckLogin, GetInfo, Rediscover, ReadId, Register, SaveId,
           FindSession, StoreState, SessionLost, Redirect, Respond, Callback, Authorize,
           CheckState, CallbackInfo, Exchange, SaveToken, SetBearer, Signal, DeleteSession,
           Finish, NetworkFails, SaveFails, Expire, CleanupExpired, Keeper, Refused, AskLogin,
           Connect, Park, DiscoveryFails, Lose, Restart
  <2> QED BY <1>2, <2>1, LoginAssumption DEF LoginAssumption, Fails
<1>6. cookie' \in [Browsers -> Flows \cup {None}] /\ sessions' \in [Flows -> SessionType]
  BY CookieTurns, SessionTurns
<1>7. stored' \in [Names -> [token : Tokens, id : Ids]]
  BY StoredTurns DEF StoredType
<1> QED BY <1>1, <1>3, <1>4, <1>5, <1>6, <1>7, ClientsRight DEF Types, ClientTypes

(***************************************************************************)
(* The theorems.                                                           *)
(***************************************************************************)
LEMMA Initially == Init => Inv
<1> SUFFICES ASSUME Init PROVE Inv
  OBVIOUS
<1>1. flow = [f \in Flows |-> Idle] /\ infos = <<>>
  BY DEF Init
<1>2. \A s \in Flows : sessions[s] = Gone /\ flow[s] = Idle
  BY DEF Init, Gone
<1>3. Types
  <2>1. Fit(Idle, <<>>)
    BY DEF Idle, Fit, FlowType, Stages, Ids, UsesInfo, HasId, HasSession
  <2>2. sessions \in [Flows -> SessionType]
    BY DEF Init, SessionType
  <2>3. stored \in [Names -> [token : Tokens, id : Ids]]
        /\ \A n \in Names : stored[n].token \in Tokens
    BY DEF Init, Tokens, Ids
  <2>4. bearer \in [Names -> Tokens] /\ authInfo \in [Names -> 0 .. Len(infos)]
        /\ infos \in Seq(Ids)
    BY <2>3 DEF Init
  <2>5. failures \in 0 .. MaxFailures
    BY LoginAssumption DEF LoginAssumption, Init
  <2> QED BY <1>1, <2>1, <2>2, <2>3, <2>4, <2>5 DEF Init, Types
<1>4. Apart /\ StatesUnique
  BY <1>2 DEF Init, Apart, SessionsApart, StatesUnique, Idle, Gone
<1>5. TokensApart
  BY NotFlows DEF Init, TokensApart
<1>6. InfosApart
  BY <1>1 DEF InfosApart
<1>7. KeeperInv
  BY DEF Init, KeeperInv
<1> QED BY <1>3, <1>4, <1>5, <1>6, <1>7 DEF Inv

LEMMA Inductive == Inv /\ [Next]_vars => Inv'
BY TypesStay, Aparting, TokensStayApart, RecordsApart, Uniqueness, ClientsRight DEF Inv

THEOREM Invariance == Spec => []Inv
BY Initially, Inductive, PTL DEF Spec

\* Every login, session, record and token has one of the values the code gives it,
\* and no nil authInfo is used: whatever logins, failures and restarts overlap.
THEOREM TypeCorrect == Spec => []TypeOK
<1>1. ASSUME Inv PROVE TypeOK
  <2>1. \A f \in Flows : Fit(flow[f], infos)
    BY <1>1 DEF Inv, Types
  <2>2. flow \in [Flows -> [at : Stages, browser : Browsers \cup {None}, name : Names \cup {None},
                            session : Flows \cup {None}, made : BOOLEAN,
                            info : 0 .. Len(infos), id : Ids]]
    BY <1>1, <2>1 DEF Inv, Types, Fit, FlowType
  <2>3. \A f \in Flows : flow[f].at \in UsesInfo => flow[f].info # 0
    BY <2>1 DEF Fit
  <2> QED BY <1>1, <2>2, <2>3 DEF Inv, Types, TypeOK, SessionType
<1> QED BY <1>1, Invariance, PTL

\* Sessions belong to one browser, tokens and client_ids to the upstream they were
\* issued for, and a state is used up: for any overlap of HandleLogin and
\* HandleCallback with the client, the sweep, failures and restarts.
THEOREM LoginsRight == Spec => []LoginInv
<1>1. ASSUME Inv PROVE LoginInv
  <2>1. \A f \in Flows : Fit(flow[f], infos)
    BY <1>1 DEF Inv, Types
  <2>2. StateSpent
    <3> SUFFICES ASSUME NEW f \in Flows, NEW s \in Flows, flow[f].at \in {"finish", "done"},
                        sessions[s].state = f
                 PROVE  FALSE
      BY DEF StateSpent
    <3> QED BY <1>1, NotFlows DEF Inv, StatesUnique, Stateless
  <2>3. \A f \in Flows : flow[f].at # "idle" <=> flow[f].browser \in Browsers
    <3> SUFFICES ASSUME NEW f \in Flows
                 PROVE  flow[f].at # "idle" <=> flow[f].browser \in Browsers
      OBVIOUS
    <3>1. CASE flow[f].at = "idle"
      <4>1. flow[f].browser = None
        BY <2>1, <3>1 DEF Fit, Idle
      <4> QED BY <3>1, <4>1, LoginAssumption DEF LoginAssumption
    <3>2. CASE flow[f].at # "idle"
      BY <2>1, <3>2 DEF Fit
    <3> QED BY <3>1, <3>2
  <2>4. \A f \in Flows : flow[f].at = "authorizing" => flow[f].id # None
    BY <2>1 DEF Fit
  <2> QED BY <1>1, <2>2, <2>3, <2>4 DEF Inv, Apart, KeeperInv, LoginInv
<1> QED BY <1>1, Invariance, PTL

=============================================================================
