------------------------ MODULE UpstreamClientProofs ------------------------
(***************************************************************************)
(* The safety of the upstream client for any number of callers, logins,    *)
(* tokens and failures.  Everything follows from one inductive invariant,  *)
(* TypeOK /\ SessionInv: TypeOK alone is not inductive, because that a     *)
(* caller counts at most Attempts failures, and that a failing request was *)
(* made on some session, depends on where the goroutines are.              *)
(***************************************************************************)
EXTENDS UpstreamClient, TLAPS

USE DEF NoSession, Attempts

Inv == TypeOK /\ SessionInv

LEMMA InitInv == Init => Inv
<1> SUFFICES ASSUME Init PROVE Inv
  OBVIOUS
<1> USE ConstantsAssumption DEF Init, Idle, Sessions
<1>1. TypeOK
  <2>1. /\ keeper \in [at : KeeperStages, session : Sessions \cup {0},
                       bearer : Tokens \cup {NoToken, Torn}, auth : BOOLEAN]
        /\ pinger \in [at : PingStages, session : Sessions \cup {0}]
    BY DEF KeeperStages, PingStages
  <2>2. call \in [Callers -> [at : CallStages, session : Sessions \cup {0},
                              failures : 0 .. 3]]
    BY DEF CallStages
  <2>3. login \in [Logins -> LoginStages]
    BY DEF LoginStages
  <2>4. valid \in SUBSET (Tokens \cup {NoToken}) /\ lastEvent \in Events
    BY DEF Events
  <2>5. /\ session \in Sessions \cup {0}
        /\ bearer \in Tokens \cup {NoToken}
        /\ connections \in Nat
        /\ faults \in 0 .. MaxFaults
        /\ {open, broken, failed} \subseteq SUBSET Sessions
    OBVIOUS
  <2> QED BY <2>1, <2>2, <2>3, <2>4, <2>5, Zenon DEF TypeOK
<1>2. SessionInv
  BY DEF SessionInv, NothingToOverwrite, NoSessionLeak, DisconnectHasCause, ConnectStages
<1> QED BY <1>1, <1>2 DEF Inv

(***************************************************************************)
(* Types.  One step for each action; most leave nearly everything alone.   *)
(***************************************************************************)
LEMMA KeeperTypes == Inv /\ Keeper => TypeOK'
<1> SUFFICES ASSUME Inv, Keeper PROVE TypeOK'
  OBVIOUS
<1> USE ConstantsAssumption DEF Inv, TypeOK, Sessions, KeeperStages, ConnectStages,
        client, state, auth, workers, upstream, sessions, KeeperGoes, Fault
<1>1. CASE KeepConnect     BY <1>1 DEF KeepConnect
<1>2. CASE ConnectLoop     BY <1>2 DEF ConnectLoop
<1>3. CASE InitClient      BY <1>3 DEF InitClient
<1>4. CASE Probe           BY <1>4 DEF Probe
<1>5. CASE BuildTransport
  <2>1. PICK b \in BearerReads :
            keeper' = [keeper EXCEPT !.at = IF cancelled THEN "delay" ELSE "connect",
                                     !.bearer = b]
    BY <1>5 DEF BuildTransport
  <2>2. b \in Tokens \cup {NoToken, Torn}
    BY <2>1 DEF BearerReads
  <2>3. keeper' \in [at : KeeperStages, session : Sessions \cup {0},
                     bearer : Tokens \cup {NoToken, Torn}, auth : BOOLEAN]
    BY <2>1, <2>2
  <2> QED BY <1>5, <2>3 DEF BuildTransport
<1>6. CASE ConnectSucceeds
  <2>1. Sessions \subseteq Sessions' /\ connections + 1 \in Sessions'
    BY <1>6 DEF ConnectSucceeds
  <2>2. keeper' \in [at : KeeperStages, session : Sessions' \cup {0},
                     bearer : Tokens \cup {NoToken, Torn}, auth : BOOLEAN]
    BY <1>6, <2>1 DEF ConnectSucceeds
  <2>3. call' \in [Callers -> [at : CallStages, session : Sessions' \cup {0},
                               failures : 0 .. 3]]
    BY <1>6, <2>1 DEF ConnectSucceeds
  <2>4. /\ open' \in SUBSET Sessions'
        /\ broken' \in SUBSET Sessions'
        /\ failed' \in SUBSET Sessions'
    BY <1>6, <2>1 DEF ConnectSucceeds
  <2>5. /\ pinger' \in [at : PingStages, session : Sessions' \cup {0}]
        /\ session' \in Sessions' \cup {0}
    BY <1>6, <2>1 DEF ConnectSucceeds
  <2> QED BY <1>6, <2>2, <2>3, <2>4, <2>5 DEF ConnectSucceeds
<1>7. CASE ConnectFails    BY <1>7 DEF ConnectFails
<1>8. CASE Discover
  <2>1. PICK found \in BOOLEAN :
            /\ keeper' = [keeper EXCEPT !.at = "setLogin", !.auth = found]
            /\ IF found THEN UNCHANGED faults ELSE Fault
    BY <1>8 DEF Discover
  <2>2. keeper' \in [at : KeeperStages, session : Sessions \cup {0},
                     bearer : Tokens \cup {NoToken, Torn}, auth : BOOLEAN]
    BY <2>1
  <2>3. faults' \in 0 .. MaxFaults
    BY <2>1
  <2> QED BY <1>8, <2>2, <2>3 DEF Discover
<1>9. CASE RequireLogin    BY <1>9 DEF RequireLogin
<1>10. CASE EmitLoginRequired BY <1>10 DEF EmitLoginRequired, Emit, Events
<1>11. CASE InstallSession BY <1>11 DEF InstallSession
<1>12. CASE EmitConnected  BY <1>12 DEF EmitConnected, Emit, Events
<1>13. CASE Delay          BY <1>13 DEF Delay
<1>14. CASE StopKeeper     BY <1>14 DEF StopKeeper
<1> QED BY <1>1, <1>2, <1>3, <1>4, <1>5, <1>6, <1>7, <1>8, <1>9, <1>10, <1>11,
           <1>12, <1>13, <1>14 DEF Keeper

\* The types of what setDisconnected may change.
ClientTypes ==
    /\ session \in Sessions \cup {0}
    /\ isConnected \in BOOLEAN
    /\ isClosed \in BOOLEAN
    /\ loginRequired \in BOOLEAN
    /\ authInfo \in BOOLEAN
    /\ initResult \in BOOLEAN
    /\ bearer \in Tokens \cup {NoToken}
    /\ lastEvent \in Events
    /\ cancelled \in BOOLEAN
    /\ keeper \in [at : KeeperStages, session : Sessions \cup {0},
                   bearer : Tokens \cup {NoToken, Torn}, auth : BOOLEAN]
    /\ connections \in Nat
    /\ open \in SUBSET Sessions
    /\ broken \in SUBSET Sessions
    /\ failed \in SUBSET Sessions
    /\ valid \in SUBSET (Tokens \cup {NoToken})
    /\ faults \in 0 .. MaxFaults

LEMMA DisconnectTypes ==
    ASSUME Inv, NEW s, SetDisconnected(s)
    PROVE  ClientTypes'
<1> USE DEF Inv, TypeOK, ClientTypes, SetDisconnected, Sessions
<1>1. CASE Stale(s)
  BY <1>1 DEF client, state, auth
<1>2. CASE ~Stale(s)
  <2>1. keeper' \in [at : KeeperStages, session : Sessions \cup {0},
                     bearer : Tokens \cup {NoToken, Torn}, auth : BOOLEAN]
    BY <1>2 DEF SignalKeeper, KeeperStages
  <2>2. /\ session' = 0 /\ isConnected' = FALSE /\ lastEvent' = "Disconnected"
        /\ open' = open \ {session}
    BY <1>2 DEF CloseSession, Emit
  <2> QED BY <1>2, <2>1, <2>2 DEF Events, auth
<1> QED BY <1>1, <1>2

LEMMA PingTypes == Inv /\ Ping => TypeOK'
<1> SUFFICES ASSUME Inv, Ping PROVE TypeOK'
  OBVIOUS
<1> USE ConstantsAssumption DEF Inv, TypeOK, SessionInv, Sessions, PingStages, client,
        state, auth, upstream, sessions, PingerGoes, PingerWaits, Fault, CurrentSession
<1>1. CASE PingTimer       BY <1>1 DEF PingTimer
<1>2. CASE PingGetSession  BY <1>2 DEF PingGetSession
<1>3. CASE PingAnswered    BY <1>3 DEF PingAnswered, RequestAnswered
<1>4. CASE PingFails       BY <1>4 DEF PingFails, RequestFails
<1>5. CASE PingDisconnect
  <2>1. ClientTypes' BY <1>5, DisconnectTypes DEF PingDisconnect
  <2>2. pinger' = [at |-> "wait", session |-> 0] /\ UNCHANGED <<call, login, connections>>
    BY <1>5 DEF PingDisconnect, SetDisconnected
  <2> QED BY <2>1, <2>2 DEF ClientTypes
<1> QED BY <1>1, <1>2, <1>3, <1>4, <1>5 DEF Ping

LEMMA CallTypes ==
    ASSUME Inv, NEW c \in Callers, BeginCall(c) \/ CallEnds(c)
    PROVE  TypeOK'
<1> USE ConstantsAssumption DEF Inv, TypeOK, SessionInv, Sessions, CallStages, client,
        state, auth, upstream, sessions, Fault, CurrentSession, Idle
<1>1. CASE BeginCall(c)    BY <1>1 DEF BeginCall
<1>2. CASE CallAnswered(c) BY <1>2 DEF CallAnswered, RequestAnswered
<1>3. CASE CallExpires(c)  BY <1>3 DEF CallExpires
<1>4. CASE CallFails(c)
  <2>1. call[c].failures + 1 \in 0 .. 3 /\ call[c].session \in Sessions
    BY <1>4 DEF CallFails
  <2>2. call' \in [Callers -> [at : CallStages, session : Sessions \cup {0},
                               failures : 0 .. 3]]
    <3> DEFINE R == [at : CallStages, session : Sessions \cup {0}, failures : 0 .. 3]
               r == [at |-> AfterFailures(call[c].failures + 1),
                     session |-> call[c].session, failures |-> call[c].failures + 1]
    <3>1. r \in R
      BY <2>1 DEF AfterFailures
    <3>2. call \in [Callers -> R] /\ call' = [call EXCEPT ![c] = r]
      BY <1>4 DEF CallFails
    <3> HIDE DEF R, r
    <3>3. call' \in [Callers -> R]
      BY <3>1, <3>2
    <3> QED BY <3>3 DEF R
  <2>3. failed' \in SUBSET Sessions /\ faults' \in 0 .. MaxFaults
    BY <1>4, <2>1 DEF CallFails, RequestFails
  <2> QED BY <1>4, <2>2, <2>3 DEF CallFails, RequestFails
<1>5. CASE CallDisconnect(c)
  <2>1. ClientTypes' BY <1>5, DisconnectTypes DEF CallDisconnect
  <2>2. call' = [call EXCEPT ![c] = Idle] /\ UNCHANGED <<pinger, login, connections>>
    BY <1>5 DEF CallDisconnect, SetDisconnected
  <2>4. call' \in [Callers -> [at : CallStages, session : Sessions \cup {0},
                               failures : 0 .. 3]]
    BY <2>2
  <2> QED BY <2>1, <2>2, <2>4 DEF ClientTypes
<1> QED BY <1>1, <1>2, <1>3, <1>4, <1>5 DEF CallEnds

LEMMA LoginTypes ==
    ASSUME Inv, NEW l \in Logins, Callback(l) \/ LoginProceeds(l)
    PROVE  TypeOK'
<1> USE DEF Inv, TypeOK, Sessions, LoginStages, client, state, auth, upstream, sessions,
        LoginGoes
<1>1. CASE Callback(l)    BY <1>1 DEF Callback
<1>2. CASE StoreToken(l)  BY <1>2 DEF StoreToken
<1>3. CASE ClearLogin(l)  BY <1>3 DEF ClearLogin
<1>4. CASE SignalLogin(l) BY <1>4 DEF SignalLogin, SignalKeeper, KeeperStages
<1> QED BY <1>1, <1>2, <1>3, <1>4 DEF LoginProceeds

LEMMA OtherTypes ==
    ASSUME Inv, Close \/ Environment \/ UNCHANGED vars
    PROVE  TypeOK'
<1> USE ConstantsAssumption DEF Inv, TypeOK, Sessions, client, state, auth, workers,
        upstream, sessions, Fault
<1>1. CASE Close          BY <1>1 DEF Close, CloseSession
<1>2. CASE Break          BY <1>2 DEF Break
<1>3. CASE Revoke         BY <1>3 DEF Revoke
<1>4. CASE ListChanged    BY <1>4 DEF ListChanged, Emit, Events
<1>5. CASE UNCHANGED vars BY <1>5 DEF vars
<1> QED BY <1>1, <1>2, <1>3, <1>4, <1>5 DEF Environment

LEMMA TypeStep == Inv /\ [Next]_vars => TypeOK'
BY KeeperTypes, PingTypes, CallTypes, LoginTypes, OtherTypes DEF Next

(***************************************************************************)
(* The invariant proper, in two parts: what it says of the sessions, and   *)
(* what it says of the requests that are under way.                        *)
(***************************************************************************)
SessionPart ==
    /\ isConnected <=> session # NoSession
    /\ NothingToOverwrite
    /\ keeper.at = "install" <=> keeper.session # NoSession
    /\ keeper.at = "install" => keeper.session = connections /\ connections \in open
    /\ NoSessionLeak

RequestPart ==
    /\ DisconnectHasCause
    /\ pinger.at \in {"ping", "disconnect"} => pinger.session # NoSession
    /\ \A c \in Callers : /\ call[c].at # "idle" => call[c].session # NoSession
                          /\ call[c].at = "request" => call[c].failures < Attempts
                          /\ call[c].at = "disconnect" => call[c].failures > 0

LEMMA Parts == SessionInv <=> SessionPart /\ RequestPart
BY DEF SessionInv, SessionPart, RequestPart

\* keepConnect publishes a session only while there is none, and no other
\* goroutine publishes one: this is why no session is overwritten.
LEMMA KeeperSessions == Inv /\ Keeper => SessionPart'
<1> SUFFICES ASSUME Inv, Keeper PROVE SessionPart'
  OBVIOUS
<1> USE Parts DEF Inv, TypeOK, SessionPart, NothingToOverwrite, NoSessionLeak, Sessions,
        ConnectStages, KeeperStages, client, state, upstream, sessions, KeeperGoes
<1>1. CASE KeepConnect     BY <1>1 DEF KeepConnect, CurrentSession
<1>2. CASE ConnectLoop     BY <1>2 DEF ConnectLoop
<1>3. CASE InitClient      BY <1>3 DEF InitClient
<1>4. CASE Probe           BY <1>4 DEF Probe
<1>5. CASE BuildTransport  BY <1>5 DEF BuildTransport
<1>6. CASE ConnectSucceeds BY <1>6 DEF ConnectSucceeds
<1>7. CASE ConnectFails    BY <1>7 DEF ConnectFails
<1>8. CASE Discover        BY <1>8 DEF Discover
<1>9. CASE RequireLogin    BY <1>9 DEF RequireLogin
<1>10. CASE EmitLoginRequired BY <1>10 DEF EmitLoginRequired
<1>11. CASE InstallSession BY <1>11 DEF InstallSession
<1>12. CASE EmitConnected  BY <1>12 DEF EmitConnected
<1>13. CASE Delay          BY <1>13 DEF Delay
<1>14. CASE StopKeeper     BY <1>14 DEF StopKeeper
<1> QED BY <1>1, <1>2, <1>3, <1>4, <1>5, <1>6, <1>7, <1>8, <1>9, <1>10, <1>11,
           <1>12, <1>13, <1>14 DEF Keeper

\* A signal moves keepConnect only from its select, and never inside connectLoop.
LEMMA SignalFacts ==
    ASSUME TypeOK, SignalKeeper
    PROVE  /\ keeper'.session = keeper.session
           /\ keeper'.at \in ConnectStages => keeper.at \in ConnectStages
           /\ keeper'.at = "install" <=> keeper.at = "install"
BY DEF TypeOK, SignalKeeper, ConnectStages

\* Dropping the session closes it, and finds keepConnect outside connectLoop.
LEMMA DisconnectSessions ==
    ASSUME Inv, NEW s, SetDisconnected(s)
    PROVE  SessionPart'
<1> USE Parts DEF Inv, TypeOK, SessionPart, NothingToOverwrite, NoSessionLeak, Sessions,
        SetDisconnected
<1>1. CASE Stale(s)
  <2>1. UNCHANGED <<session, isConnected, keeper, open, connections>>
    BY <1>1 DEF client, state
  <2> QED BY <2>1
<1>2. CASE ~Stale(s)
  <2>1. session # 0 /\ keeper.at \notin ConnectStages
    BY <1>2 DEF Stale
  <2>2. keeper.at # "install" /\ keeper'.at # "install"
    BY <1>2, <2>1, SignalFacts DEF ConnectStages
  <2> QED BY <1>2, <2>1, <2>2, SignalFacts DEF CloseSession
<1> QED BY <1>1, <1>2

LEMMA WorkerSessions ==
    ASSUME Inv, Ping \/ \E c \in Callers : BeginCall(c) \/ CallEnds(c)
    PROVE  SessionPart'
<1> USE Parts DEF Inv, SessionPart, NothingToOverwrite, NoSessionLeak, client, state,
        upstream, sessions
<1>1. CASE PingDisconnect
  BY <1>1, DisconnectSessions DEF PingDisconnect
<1>2. ASSUME NEW c \in Callers, CallDisconnect(c) PROVE SessionPart'
  BY <1>2, DisconnectSessions DEF CallDisconnect
<1>3. CASE PingTimer \/ PingGetSession \/ PingAnswered \/ PingFails
  BY <1>3 DEF PingTimer, PingGetSession, PingAnswered, PingFails, RequestAnswered,
     RequestFails
<1>4. ASSUME NEW c \in Callers,
             BeginCall(c) \/ CallAnswered(c) \/ CallExpires(c) \/ CallFails(c)
      PROVE  SessionPart'
  BY <1>4 DEF BeginCall, CallAnswered, CallExpires, CallFails, RequestAnswered,
     RequestFails
<1> QED BY <1>1, <1>2, <1>3, <1>4 DEF Ping, CallEnds

LEMMA OtherSessions ==
    ASSUME Inv,
           \/ \E l \in Logins : Callback(l) \/ LoginProceeds(l)
           \/ Close \/ Environment \/ UNCHANGED vars
    PROVE  SessionPart'
<1> USE Parts DEF Inv, TypeOK, SessionPart, NothingToOverwrite, NoSessionLeak, client,
        state, upstream, sessions, Sessions
<1>1. ASSUME NEW l \in Logins, Callback(l) \/ StoreToken(l) \/ ClearLogin(l)
      PROVE  SessionPart'
  <2>1. UNCHANGED <<session, isConnected, keeper, open, connections>>
    BY <1>1 DEF Callback, StoreToken, ClearLogin
  <2> QED BY <2>1
<1>2. ASSUME NEW l \in Logins, SignalLogin(l) PROVE SessionPart'
  BY <1>2, SignalFacts DEF SignalLogin
<1>3. CASE Close
  <2>1. open' = open \ {session} /\ UNCHANGED <<session, isConnected, keeper, connections>>
    BY <1>3 DEF Close, CloseSession
  <2>2. keeper.at = "install" => session = 0
    BY DEF ConnectStages
  <2> QED BY <2>1, <2>2
<1>4. CASE Break          BY <1>4 DEF Break
<1>5. CASE Revoke         BY <1>5 DEF Revoke
<1>6. CASE ListChanged    BY <1>6 DEF ListChanged
<1>7. CASE UNCHANGED vars BY <1>7 DEF vars
<1> QED BY <1>1, <1>2, <1>3, <1>4, <1>5, <1>6, <1>7 DEF LoginProceeds, Environment

LEMMA SessionStep == Inv /\ [Next]_vars => SessionPart'
BY KeeperSessions, WorkerSessions, OtherSessions DEF Next

(***************************************************************************)
(* Requests under way.  A failure is recorded before anyone acts on it,    *)
(* and nothing forgets one: failed only grows.                             *)
(***************************************************************************)
LEMMA PingRequests == Inv /\ Ping => RequestPart'
<1> SUFFICES ASSUME Inv, Ping PROVE RequestPart'
  OBVIOUS
<1> USE Parts DEF Inv, TypeOK, SessionPart, RequestPart, DisconnectHasCause, client, state,
        upstream, sessions, PingerGoes, PingerWaits, CurrentSession
<1>1. CASE PingTimer       BY <1>1 DEF PingTimer
<1>2. CASE PingGetSession  BY <1>2 DEF PingGetSession
<1>3. CASE PingAnswered    BY <1>3 DEF PingAnswered, RequestAnswered
<1>4. CASE PingFails       BY <1>4 DEF PingFails, RequestFails
<1>5. CASE PingDisconnect  BY <1>5 DEF PingDisconnect, SetDisconnected
<1> QED BY <1>1, <1>2, <1>3, <1>4, <1>5 DEF Ping

LEMMA CallRequests ==
    ASSUME Inv, NEW c \in Callers, BeginCall(c) \/ CallEnds(c)
    PROVE  RequestPart'
<1> USE Parts DEF Inv, TypeOK, SessionPart, RequestPart, DisconnectHasCause, client, state,
        upstream, sessions, CurrentSession, Idle
<1>1. CASE BeginCall(c)    BY <1>1 DEF BeginCall
<1>2. CASE CallAnswered(c) BY <1>2 DEF CallAnswered, RequestAnswered
<1>3. CASE CallExpires(c)  BY <1>3 DEF CallExpires
<1>4. CASE CallFails(c)
  <2>1. call[c].failures \in 0 .. 2 /\ call[c].session # 0
    BY <1>4 DEF CallFails
  <2>2. /\ AfterFailures(call[c].failures + 1) \in {"request", "disconnect"}
        /\ AfterFailures(call[c].failures + 1) = "request" => call[c].failures + 1 < 3
    BY <2>1 DEF AfterFailures
  <2>3. failed' = failed \cup {call[c].session}
    BY <1>4 DEF CallFails, RequestFails
  <2> QED BY <1>4, <2>1, <2>2, <2>3 DEF CallFails
<1>5. CASE CallDisconnect(c) BY <1>5 DEF CallDisconnect, SetDisconnected
<1> QED BY <1>1, <1>2, <1>3, <1>4, <1>5 DEF CallEnds

LEMMA OtherRequests ==
    ASSUME Inv,
           \/ Keeper
           \/ \E l \in Logins : Callback(l) \/ LoginProceeds(l)
           \/ Close \/ Environment \/ UNCHANGED vars
    PROVE  RequestPart'
<1> USE DEF workers, upstream, sessions
<1>1. UNCHANGED <<pinger, call, failed>>
  <2>1. CASE Keeper
    BY <2>1 DEF Keeper, KeepConnect, ConnectLoop, InitClient, Probe, BuildTransport,
       ConnectSucceeds, ConnectFails, Discover, RequireLogin, EmitLoginRequired,
       InstallSession, EmitConnected, Delay, StopKeeper
  <2>2. CASE \E l \in Logins : Callback(l) \/ LoginProceeds(l)
    BY <2>2 DEF Callback, LoginProceeds, StoreToken, ClearLogin, SignalLogin
  <2>3. CASE Close \/ Environment \/ UNCHANGED vars
    BY <2>3 DEF Close, Environment, Break, Revoke, ListChanged, vars
  <2> QED BY <2>1, <2>2, <2>3
<1> QED BY <1>1, Parts DEF Inv, RequestPart, DisconnectHasCause

LEMMA RequestStep == Inv /\ [Next]_vars => RequestPart'
BY PingRequests, CallRequests, OtherRequests DEF Next

LEMMA InvStep == Inv /\ [Next]_vars => Inv'
<1> SUFFICES ASSUME Inv, [Next]_vars PROVE Inv'
  OBVIOUS
<1>1. TypeOK' BY TypeStep
<1>2. SessionPart' /\ RequestPart' BY SessionStep, RequestStep
<1>3. SessionInv'
  BY <1>2 DEF SessionInv, SessionPart, RequestPart
<1> QED BY <1>1, <1>3 DEF Inv

(***************************************************************************)
(* The theorems.                                                           *)
(***************************************************************************)

\* Every variable of the client keeps its type, and the strengthened
\* invariant of sessions and requests under way holds in every state.
THEOREM Invariance == Spec => [](TypeOK /\ SessionInv)
<1>1. Init => Inv
  BY InitInv
<1>2. Inv /\ [Next]_vars => Inv'
  BY InvStep
<1>3. Spec => []Inv
  BY <1>1, <1>2, PTL DEF Spec
<1> QED BY <1>3, PTL DEF Inv

\* Every variable of Client and of its goroutines keeps its type; a request
\* counts no more failures than execute makes attempts.
THEOREM TypeCorrect == Spec => []TypeOK
<1>1. TypeOK /\ SessionInv => TypeOK
  OBVIOUS
<1> QED BY <1>1, Invariance, PTL

\* No session is ever left open with nobody to close it: init never
\* overwrites a session, and setDisconnected closes the one it forgets.
THEOREM NoLeak == Spec => []NoSessionLeak
<1>1. TypeOK /\ SessionInv => NoSessionLeak
  BY DEF SessionInv
<1> QED BY <1>1, Invariance, PTL

(***************************************************************************)
(* What a step does to the sessions, seen from outside.                    *)
(***************************************************************************)
Seen == <<session, open, connections, failed>>

\* setDisconnected takes the current session away only for a request that
\* was made on it, and leaves nothing open.
LEMMA DisconnectDrops ==
    ASSUME Inv, NEW s, SetDisconnected(s), s \in failed
    PROVE  \/ UNCHANGED Seen
           \/ /\ session \in failed
              /\ session' = NoSession
              /\ open' = {}
              /\ UNCHANGED <<connections, failed>>
<1> USE Parts DEF Inv, TypeOK, SessionPart, NothingToOverwrite, NoSessionLeak, Sessions,
        SetDisconnected, Seen
<1>1. CASE Stale(s)
  BY <1>1 DEF client, state
<1>2. CASE ~Stale(s)
  <2>1. session = s /\ session # 0 /\ keeper.at # "install"
    BY <1>2 DEF Stale, ConnectStages
  <2>2. open' = {}
    <3>1. open \subseteq {session, 0} /\ 0 \notin open
      BY <2>1
    <3>2. open' = open \ {session}
      BY <1>2 DEF CloseSession
    <3> QED BY <3>1, <3>2
  <2>3. session' = 0 /\ UNCHANGED <<connections, failed>>
    BY <1>2
  <2> QED BY <2>1, <2>2, <2>3
<1> QED BY <1>1, <1>2

LEMMA RequestSeen ==
    ASSUME Inv, NEW s \in Sessions, RequestFails(s)
    PROVE  failed' = failed \cup {s} /\ UNCHANGED <<open, connections>>
BY DEF RequestFails

\* Every step is a step of the life cycle, or does not show.
LEMMA LifecycleStep ==
    ASSUME Inv, [Next]_vars
    PROVE  Lifecycle!Next \/ UNCHANGED Seen
<1> USE Parts DEF Inv, TypeOK, SessionPart, NothingToOverwrite, NoSessionLeak, Sessions,
        Seen, client, state, upstream, sessions
<1>1. CASE ConnectSucceeds
  <2>1. session = 0 /\ keeper.session = 0 /\ open = {}
    BY <1>1 DEF ConnectSucceeds, ConnectStages
  <2> QED BY <1>1, <2>1 DEF ConnectSucceeds, Lifecycle!Next, Lifecycle!Open, Lifecycle!None
<1>2. CASE InstallSession
  <2>1. session = 0 /\ keeper.session = connections /\ open = {connections}
    BY <1>2 DEF InstallSession, ConnectStages
  <2> QED BY <1>2, <2>1 DEF InstallSession, Lifecycle!Next, Lifecycle!Publish, Lifecycle!None
<1>3. CASE \/ KeepConnect \/ ConnectLoop \/ InitClient \/ Probe \/ BuildTransport
           \/ ConnectFails \/ Discover \/ RequireLogin \/ EmitLoginRequired
           \/ EmitConnected \/ Delay \/ StopKeeper
  BY <1>3 DEF KeepConnect, ConnectLoop, InitClient, Probe, BuildTransport, ConnectFails,
     Discover, RequireLogin, EmitLoginRequired, EmitConnected, Delay, StopKeeper
<1>4. CASE PingTimer \/ PingGetSession \/ PingAnswered
  BY <1>4 DEF PingTimer, PingGetSession, PingAnswered, RequestAnswered
<1>5. CASE PingFails
  <2>1. pinger.session \in Sessions
    BY <1>5 DEF PingFails, PingerGoes, RequestPart
  <2>2. failed' = failed \cup {pinger.session} /\ UNCHANGED <<session, open, connections>>
    BY <1>5, <2>1, RequestSeen DEF PingFails
  <2> QED BY <2>1, <2>2 DEF Lifecycle!Next, Lifecycle!Fail
<1>6. CASE PingDisconnect
  <2>1. SetDisconnected(pinger.session) /\ pinger.session \in failed
    BY <1>6 DEF PingDisconnect, RequestPart, DisconnectHasCause
  <2> QED BY <2>1, DisconnectDrops DEF Lifecycle!Next, Lifecycle!Drop, Lifecycle!None
<1>7. ASSUME NEW c \in Callers, BeginCall(c) \/ CallAnswered(c) \/ CallExpires(c)
      PROVE  UNCHANGED Seen
  BY <1>7 DEF BeginCall, CallAnswered, CallExpires, RequestAnswered
<1>8. ASSUME NEW c \in Callers, CallFails(c)
      PROVE  Lifecycle!Next
  <2>1. call[c].session \in Sessions
    BY <1>8 DEF CallFails, RequestPart
  <2>2. /\ failed' = failed \cup {call[c].session}
        /\ UNCHANGED <<session, open, connections>>
    BY <1>8, <2>1, RequestSeen DEF CallFails
  <2> QED BY <2>1, <2>2 DEF Lifecycle!Next, Lifecycle!Fail
<1>9. ASSUME NEW c \in Callers, CallDisconnect(c)
      PROVE  Lifecycle!Next \/ UNCHANGED Seen
  <2>1. SetDisconnected(call[c].session) /\ call[c].session \in failed
    BY <1>9 DEF CallDisconnect, RequestPart, DisconnectHasCause
  <2> QED BY <2>1, DisconnectDrops DEF Lifecycle!Next, Lifecycle!Drop, Lifecycle!None
<1>10. CASE \E l \in Logins : Callback(l) \/ LoginProceeds(l)
  BY <1>10 DEF Callback, LoginProceeds, StoreToken, ClearLogin, SignalLogin
<1>11. CASE Close
  <2>1. UNCHANGED <<session, connections, failed>> /\ open' = open \ {session}
    BY <1>11 DEF Close, CloseSession
  <2>2. CASE session = 0
    BY <2>1, <2>2
  <2>3. CASE session # 0
    <3>1. open' = {}
      BY <2>1, <2>3 DEF ConnectStages
    <3> QED BY <2>1, <2>3, <3>1 DEF Lifecycle!Next, Lifecycle!Shut, Lifecycle!None
  <2> QED BY <2>2, <2>3
<1>12. CASE Environment \/ UNCHANGED vars
  BY <1>12 DEF Environment, Break, Revoke, ListChanged, vars
<1> QED BY <1>1, <1>2, <1>3, <1>4, <1>5, <1>6, <1>7, <1>8, <1>9, <1>10, <1>11, <1>12
        DEF Next, Keeper, Ping, CallEnds

\* The client implements the life cycle of a session, for any number of
\* callers, logins, tokens and failures.
THEOREM Implements == Spec => LifecycleSpec
<1>1. Init => Lifecycle!Init
  BY DEF Init, Lifecycle!Init, Lifecycle!None
<1>2. Inv /\ [Next]_vars => [Lifecycle!Next]_(Lifecycle!vars)
  BY LifecycleStep DEF Seen, Lifecycle!vars
<1>3. Spec => []Inv
  BY Invariance, PTL DEF Inv
<1> QED BY <1>1, <1>2, <1>3, PTL DEF Spec, LifecycleSpec, Lifecycle!Spec

\* A late failure never takes away a later session: the session that goes is
\* one on which a request has failed.  This is the life cycle's Drop.
THEOREM LateFailureHarmless == Spec => OnlyFailedSessionDropped
<1>1. Inv /\ [Next]_vars =>
          [session # NoSession /\ session' # session
               => session' = NoSession /\ session \in failed]_vars
  <2> SUFFICES ASSUME Inv, [Next]_vars, session # NoSession, session' # session
               PROVE  session' = NoSession /\ session \in failed
    OBVIOUS
  <2>1. Lifecycle!Next
    BY LifecycleStep DEF Seen
  <2> QED BY <2>1 DEF Lifecycle!Next, Lifecycle!Open, Lifecycle!Publish, Lifecycle!Fail,
             Lifecycle!Drop, Lifecycle!Shut, Lifecycle!None
<1>2. Spec => []Inv
  BY Invariance, PTL DEF Inv
<1> QED BY <1>1, <1>2, PTL DEF Spec, OnlyFailedSessionDropped

=============================================================================
