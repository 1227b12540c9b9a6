--------------------------- MODULE UpstreamClient ---------------------------
(***************************************************************************)
(* The connection of Tealpine to one upstream MCP server                   *)
(* (pkg/client/client.go).  A Client is one record under a mutex that four *)
(* kinds of goroutine work on at the same time:                            *)
(*                                                                         *)
(*   keepConnect   connects, and reconnects when it is told of a failure;  *)
(*   ping          probes the current session every PingInterval;          *)
(*   execute       runs one request of a caller, with two retries;         *)
(*   HandleCallback  ends an upstream login by calling SetBearerToken;     *)
(*                                                                         *)
(* and Close, which ends everything.  An action is what a goroutine does   *)
(* between two points where another one can run: a critical section of     *)
(* the mutex, or one network call.  Network calls end in every way they    *)
(* can; those that need a new failure of the upstream are limited by       *)
(* MaxFaults, so that a liveness property speaks of an upstream that       *)
(* eventually behaves.                                                     *)
(***************************************************************************)
EXTENDS Naturals

CONSTANTS
    Callers,      \* The goroutines that may be inside execute.
    Logins,       \* The upstream logins whose callback may arrive.
    Tokens,       \* The bearer tokens the identity provider may issue.
    NoToken,      \* cfg.Bearer == "".
    Torn,         \* What a read of cfg.Bearer during a write may return.
    Http,         \* TRUE: transport streamablehttp, FALSE: stdio.
    Mentions401,  \* TRUE: the text of any connection error may contain "401".
    MaxFaults     \* Bound: the failures the upstream may still cause.

ASSUME ConstantsAssumption ==
    /\ NoToken \notin Tokens
    /\ Torn \notin Tokens \cup {NoToken}
    /\ Http \in BOOLEAN
    /\ Mentions401 \in BOOLEAN
    /\ MaxFaults \in Nat

VARIABLES
    \* Fields of Client.
    session,       \* The current session, NoSession for nil.
    isConnected,
    isClosed,
    loginRequired,
    authInfo,      \* authInfo # nil.
    initResult,    \* initResult # nil.
    bearer,        \* cfg.Bearer.
    lastEvent,     \* The type of the last event broadcast.
    cancelled,     \* clientCtx is done.
    \* Goroutines.
    keeper,        \* keepConnect: where it is, and what init holds: the session it
                   \* has not published yet, the token of its transport, and
                   \* whether its discovery found the endpoints.
    pinger,        \* ping: where it is, and the session it pings.
    call,          \* Each caller: where it is, its session, its failures so far.
    login,         \* Each login callback: where it is.
    \* The upstream and the network.
    connections,   \* Sessions opened so far; they are numbered from 1.
    open,          \* Sessions opened and not closed by this side.
    broken,        \* Sessions on which every request fails.
    failed,        \* Sessions on which some request has failed.
    valid,         \* Tokens the upstream accepts; NoToken if it accepts none.
    faults         \* Failures the upstream has caused so far.

state    == <<session, isConnected, isClosed, initResult>>
auth     == <<loginRequired, authInfo, bearer>>
client   == <<state, auth, lastEvent, cancelled>>
workers  == <<pinger, call, login>>
sessions == <<connections, open, broken, failed>>
upstream == <<sessions, valid, faults>>
vars     == <<client, keeper, workers, upstream>>

NoSession == 0
Attempts  == 3

(***************************************************************************)
(* The stages of the goroutines.                                           *)
(***************************************************************************)
ConnectStages ==      \* Inside connectLoop, with no session to serve.
    {"connectLoop", "init", "probe", "transport", "connect", "discover",
     "setLogin", "emitLogin", "install", "delay"}
KeeperStages == ConnectStages \cup {"getSession", "emitConnected", "select", "stopped"}
PingStages   == {"wait", "getSession", "ping", "disconnect", "stopped"}
CallStages   == {"idle", "request", "disconnect"}
LoginStages  == {"idle", "exchange", "storing", "signal", "done"}

\* The list_changed events of tools, resources and prompts are one here.
Events == {"None", "Connected", "Disconnected", "LoginRequired", "ListChanged"}

Idle == [at |-> "idle", session |-> NoSession, failures |-> 0]

Init ==
    /\ session = NoSession
    /\ isConnected = FALSE
    /\ isClosed = FALSE
    /\ loginRequired = FALSE
    /\ authInfo = FALSE
    /\ initResult = FALSE
    /\ bearer \in Tokens \cup {NoToken}
    /\ lastEvent = "None"
    /\ cancelled = FALSE
    /\ keeper = [at |-> "getSession", session |-> NoSession, bearer |-> NoToken,
                 auth |-> FALSE]
    /\ pinger = [at |-> "wait", session |-> NoSession]
    /\ call = [c \in Callers |-> Idle]
    /\ login = [l \in Logins |-> "idle"]
    /\ connections = 0
    /\ open = {}
    /\ broken = {}
    /\ failed = {}
    /\ valid \in {Tokens, Tokens \cup {NoToken}}
    /\ faults = 0

-----------------------------------------------------------------------------
(***************************************************************************)
(* What the critical sections share.                                       *)
(***************************************************************************)

\* No goroutine is inside a critical section that spans two steps.  Only
\* SetBearerToken has one, because cfg.Bearer is also read outside the mutex.
MutexFree == \A l \in Logins : login[l] # "storing"

\* getSession.
CurrentSession == IF isConnected THEN session ELSE NoSession

\* A read of cfg.Bearer without the mutex: during a write of the two words
\* of the string, by the callback of another login than the one that has woken
\* keepConnect, it may return one word of each.
BearerReads == IF MutexFree THEN {bearer} ELSE {bearer, Torn}

\* The non-blocking send on errorCh: it wakes keepConnect if it is parked in
\* its select, and is dropped otherwise.
SignalLost == keeper' = keeper    \* Mutant: nobody is woken.
SignalKeeper ==
    keeper' = IF keeper.at = "select" /\ ~cancelled
              THEN [keeper EXCEPT !.at = "getSession"] ELSE keeper

\* emitEvent.
Emit(event) == lastEvent' = event

\* session.Close(), under the mutex.
CloseForgotten(s) == open' = open    \* Mutant: the session is only forgotten.
CloseSession(s) == open' = open \ {s}

\* setDisconnected(s), called after a request on s has failed: nothing is done
\* if the client is disconnected already or has another session by now.
NeverStale(s) == ~isConnected    \* Mutant: the failing session is not compared.
Stale(s) == ~isConnected \/ session # s

SetDisconnected(s) ==
    /\ MutexFree
    /\ \/ Stale(s) /\ UNCHANGED <<client, keeper, open>>
       \/ /\ ~Stale(s)
          /\ CloseSession(session)
          /\ session' = NoSession
          /\ isConnected' = FALSE
          /\ Emit("Disconnected")
          /\ SignalKeeper
          /\ UNCHANGED <<isClosed, initResult, auth, cancelled>>
    /\ UNCHANGED <<connections, broken, failed, valid, faults>>

\* The upstream fails in a way it has not failed before.
Fault == faults < MaxFaults /\ faults' = faults + 1

\* A request on session s is answered, or fails.  It fails for certain if
\* the session was closed by this side or is broken.  An error answer of the
\* upstream counts as a failure like any other.
RequestAnswered(s) == s \in open \ broken /\ UNCHANGED upstream
RequestFails(s) ==
    /\ failed' = failed \cup {s}
    /\ s \in open \ broken => Fault
    /\ s \notin open \ broken => UNCHANGED faults
    /\ UNCHANGED <<connections, open, broken, valid>>

-----------------------------------------------------------------------------
(***************************************************************************)
(* keepConnect, with connectLoop, init and handleUpstreamAuthRequired.     *)
(***************************************************************************)
KeeperGoes(from, to) ==
    keeper.at = from /\ keeper' = [keeper EXCEPT !.at = to]

\* The loop of keepConnect: connect if there is no session, else park.
ConnectAnyway ==    \* Mutant: the session is not looked at.
    /\ MutexFree
    /\ KeeperGoes("getSession", "connectLoop")
    /\ UNCHANGED <<client, workers, upstream>>
KeepConnect ==
    /\ MutexFree
    /\ KeeperGoes("getSession",
           IF CurrentSession = NoSession THEN "connectLoop" ELSE "select")
    /\ UNCHANGED <<client, workers, upstream>>

ConnectLoop ==
    /\ KeeperGoes("connectLoop", IF cancelled THEN "select" ELSE "init")
    /\ UNCHANGED <<client, workers, upstream>>

\* init reads the token without the mutex to decide whether to probe.
InitClient ==
    /\ \E b \in BearerReads :
           KeeperGoes("init", IF Http /\ b = NoToken THEN "probe" ELSE "transport")
    /\ UNCHANGED <<client, workers, upstream>>

\* A probe that fails is ignored: Connect is tried anyway.
Probe ==
    /\ \/ KeeperGoes("probe", IF NoToken \in valid THEN "transport" ELSE "discover")
          /\ UNCHANGED faults
       \/ KeeperGoes("probe", "transport") /\ Fault
    /\ UNCHANGED <<client, workers, sessions, valid>>

\* init builds its transport with a second read of the token (a third one, if it is
\* not empty, with the same outcomes).  Connect with a context that is already done
\* fails at once.
BuildTransport ==
    /\ keeper.at = "transport"
    /\ \E b \in BearerReads :
           keeper' = [keeper EXCEPT !.at = IF cancelled THEN "delay" ELSE "connect",
                                    !.bearer = b]
    /\ UNCHANGED <<client, workers, upstream>>

\* A stdio upstream never looks at a token.
Accepted == ~Http \/ keeper.bearer \in valid

ConnectSucceeds ==
    /\ keeper.at = "connect"
    /\ Accepted
    /\ connections' = connections + 1
    /\ open' = open \cup {connections + 1}
    /\ keeper' = [keeper EXCEPT !.at = "install", !.session = connections + 1]
    /\ UNCHANGED <<client, workers, broken, failed, valid, faults>>

\* The error is taken for a 401 answer if its text contains "401".
ConnectFails ==
    /\ \/ ~Accepted /\ KeeperGoes("connect", "discover") /\ UNCHANGED faults
       \/ cancelled /\ KeeperGoes("connect", "delay") /\ UNCHANGED faults
       \/ KeeperGoes("connect", "delay") /\ Fault
       \/ Http /\ Mentions401 /\ KeeperGoes("connect", "discover") /\ Fault
    /\ UNCHANGED <<client, workers, sessions, valid>>

\* DiscoverAndRegister, called without the mutex.
Discover ==
    /\ keeper.at = "discover"
    /\ \E found \in BOOLEAN :
        /\ keeper' = [keeper EXCEPT !.at = "setLogin", !.auth = found]
        /\ IF found THEN UNCHANGED faults ELSE Fault
    /\ UNCHANGED <<client, workers, sessions, valid>>

RequireLogin ==
    /\ MutexFree
    /\ KeeperGoes("setLogin", "emitLogin")
    /\ authInfo' = keeper.auth
    /\ loginRequired' = TRUE
    /\ UNCHANGED <<state, bearer, lastEvent, cancelled, workers, upstream>>

\* ErrLoginRequired ends connectLoop: keepConnect parks until it is signalled.
RetryLoginRequired ==    \* Mutant: ErrLoginRequired is an error like any other.
    /\ MutexFree
    /\ KeeperGoes("emitLogin", "delay")
    /\ Emit("LoginRequired")
    /\ UNCHANGED <<state, auth, cancelled, workers, upstream>>
EmitLoginRequired ==
    /\ MutexFree
    /\ KeeperGoes("emitLogin", "select")
    /\ Emit("LoginRequired")
    /\ UNCHANGED <<state, auth, cancelled, workers, upstream>>

InstallSession ==
    /\ MutexFree
    /\ keeper.at = "install"
    /\ keeper' = [keeper EXCEPT !.at = "emitConnected", !.session = NoSession]
    /\ session' = keeper.session
    /\ isConnected' = TRUE
    /\ isClosed' = FALSE
    /\ initResult' = TRUE
    /\ UNCHANGED <<auth, lastEvent, cancelled, workers, upstream>>

\* A critical section of its own: the session may be gone already.
EmitConnected ==
    /\ MutexFree
    /\ KeeperGoes("emitConnected", "select")
    /\ Emit("Connected")
    /\ UNCHANGED <<state, auth, cancelled, workers, upstream>>

\* After ReconnectDelay connectLoop tries again.
DelayUncancelled ==    \* Mutant: the delay does not watch the context.
    KeeperGoes("delay", "init") /\ UNCHANGED <<client, workers, upstream>>
Delay ==
    /\ KeeperGoes("delay", IF cancelled THEN "select" ELSE "init")
    /\ UNCHANGED <<client, workers, upstream>>

StopKeeper ==
    /\ cancelled
    /\ KeeperGoes("select", "stopped")
    /\ UNCHANGED <<client, workers, upstream>>

Keeper ==
    \/ KeepConnect \/ ConnectLoop \/ InitClient \/ Probe \/ BuildTransport
    \/ ConnectSucceeds \/ ConnectFails \/ Discover \/ RequireLogin
    \/ EmitLoginRequired \/ InstallSession \/ EmitConnected \/ Delay \/ StopKeeper

-----------------------------------------------------------------------------
(***************************************************************************)
(* ping.                                                                   *)
(***************************************************************************)
PingerGoes(from, to) ==
    pinger.at = from /\ pinger' = [pinger EXCEPT !.at = to]
PingerWaits == pinger' = [at |-> "wait", session |-> NoSession]

PingTimer ==
    /\ PingerGoes("wait", IF cancelled THEN "stopped" ELSE "getSession")
    /\ UNCHANGED <<client, keeper, call, login, upstream>>

PingGetSession ==
    /\ MutexFree
    /\ pinger.at = "getSession"
    /\ pinger' = [at |-> IF CurrentSession = NoSession THEN "wait" ELSE "ping",
                  session |-> CurrentSession]
    /\ UNCHANGED <<client, keeper, call, login, upstream>>

PingErrorIgnored ==    \* Mutant: setDisconnected is called whatever Ping returns.
    /\ PingerGoes("ping", "disconnect")
    /\ RequestAnswered(pinger.session)
    /\ UNCHANGED <<client, keeper, call, login>>
PingAnswered ==
    /\ pinger.at = "ping"
    /\ PingerWaits
    /\ RequestAnswered(pinger.session)
    /\ UNCHANGED <<client, keeper, call, login>>

\* The 5 second deadline, or the end of clientCtx, is a failure as well.
PingFailureIgnored ==    \* Mutant: a failed ping has no consequence.
    /\ pinger.at = "ping"
    /\ PingerWaits
    /\ RequestFails(pinger.session)
    /\ UNCHANGED <<client, keeper, call, login>>
PingFails ==
    /\ PingerGoes("ping", "disconnect")
    /\ \/ RequestFails(pinger.session)
       \/ /\ cancelled
          /\ failed' = failed \cup {pinger.session}
          /\ UNCHANGED <<connections, open, broken, valid, faults>>
    /\ UNCHANGED <<client, keeper, call, login>>

PingDisconnect ==
    /\ pinger.at = "disconnect"
    /\ PingerWaits
    /\ SetDisconnected(pinger.session)
    /\ UNCHANGED <<call, login>>

Ping == PingTimer \/ PingGetSession \/ PingAnswered \/ PingFails \/ PingDisconnect

-----------------------------------------------------------------------------
(***************************************************************************)
(* execute, for every request a caller forwards to the upstream.  A call   *)
(* that finds no session returns ErrDisconnected and changes nothing.      *)
(***************************************************************************)
BeginCall(c) ==
    /\ MutexFree
    /\ call[c].at = "idle"
    /\ CurrentSession # NoSession
    /\ call' = [call EXCEPT ![c] = [at |-> "request", session |-> CurrentSession,
                                    failures |-> 0]]
    /\ UNCHANGED <<client, keeper, pinger, login, upstream>>

CallAnswered(c) ==
    /\ call[c].at = "request"
    /\ RequestAnswered(call[c].session)
    /\ call' = [call EXCEPT ![c] = Idle]
    /\ UNCHANGED <<client, keeper, pinger, login>>

\* The caller's context ends: an error that says nothing of the session.
CallExpires(c) ==
    /\ call[c].at = "request"
    /\ call' = [call EXCEPT ![c] = Idle]
    /\ UNCHANGED <<client, keeper, pinger, login, upstream>>

OneAttemptMore(n) == IF n > Attempts THEN "disconnect" ELSE "request"  \* Mutant: i <= 3.
AfterFailures(n) == IF n = Attempts THEN "disconnect" ELSE "request"

CallFails(c) ==
    /\ call[c].at = "request"
    /\ RequestFails(call[c].session)
    /\ call' = [call EXCEPT ![c] = [at |-> AfterFailures(@.failures + 1),
                                    session |-> @.session,
                                    failures |-> @.failures + 1]]
    /\ UNCHANGED <<client, keeper, pinger, login>>

CallDisconnect(c) ==
    /\ call[c].at = "disconnect"
    /\ SetDisconnected(call[c].session)
    /\ call' = [call EXCEPT ![c] = Idle]
    /\ UNCHANGED <<pinger, login>>

CallEnds(c) == CallAnswered(c) \/ CallExpires(c) \/ CallFails(c) \/ CallDisconnect(c)

-----------------------------------------------------------------------------
(***************************************************************************)
(* A login callback.  It needs authInfo when it arrives, exchanges its     *)
(* code, and hands the token to SetBearerToken.                            *)
(***************************************************************************)
LoginGoes(l, from, to) == login[l] = from /\ login' = [login EXCEPT ![l] = to]

Callback(l) ==
    /\ MutexFree
    /\ authInfo
    /\ LoginGoes(l, "idle", "exchange")
    /\ UNCHANGED <<client, keeper, pinger, call, upstream>>

\* SetBearerToken takes the mutex and begins to write the token.
StoreToken(l) ==
    /\ MutexFree
    /\ LoginGoes(l, "exchange", "storing")
    /\ bearer' \in Tokens
    /\ UNCHANGED <<state, loginRequired, authInfo, lastEvent, cancelled, keeper, pinger,
                   call, upstream>>

ClearLogin(l) ==
    /\ LoginGoes(l, "storing", "signal")
    /\ loginRequired' = FALSE
    /\ authInfo' = FALSE
    /\ UNCHANGED <<state, bearer, lastEvent, cancelled, keeper, pinger, call, upstream>>

\* After the mutex is released it signals the reconnection loop.
SignalLogin(l) ==
    /\ LoginGoes(l, "signal", "done")
    /\ SignalKeeper
    /\ UNCHANGED <<client, pinger, call, upstream>>

LoginProceeds(l) == StoreToken(l) \/ ClearLogin(l) \/ SignalLogin(l)

-----------------------------------------------------------------------------
\* Close ends the session before it cancels the context.
Close ==
    /\ MutexFree
    /\ ~isClosed
    /\ isClosed' = TRUE
    /\ CloseSession(session)
    /\ cancelled' = TRUE
    /\ UNCHANGED <<session, isConnected, initResult, auth, lastEvent, keeper, workers,
                   connections, broken, failed, valid, faults>>

(***************************************************************************)
(* The upstream: a session dies, a token loses its validity, a list_changed*)
(* notification arrives on an open session.                                *)
(***************************************************************************)
Break ==
    /\ \E s \in open \ broken : broken' = broken \cup {s}
    /\ Fault
    /\ UNCHANGED <<client, keeper, workers, connections, open, failed, valid>>

Revoke ==
    /\ \E t \in valid : valid' = valid \ {t}
    /\ UNCHANGED <<client, keeper, workers, sessions, faults>>

ListChanged ==
    /\ MutexFree
    /\ open \ broken # {}
    /\ Emit("ListChanged")
    /\ UNCHANGED <<state, auth, cancelled, keeper, workers, upstream>>

Environment == Break \/ Revoke \/ ListChanged

Next ==
    \/ Keeper
    \/ Ping
    \/ \E c \in Callers : BeginCall(c) \/ CallEnds(c)
    \/ \E l \in Logins : Callback(l) \/ LoginProceeds(l)
    \/ Close
    \/ Environment

Spec == Init /\ [][Next]_vars

(***************************************************************************)
(* Goroutines are scheduled, timers expire and network calls end.  Nothing *)
(* makes a caller, a login, Close or the upstream act.                     *)
(***************************************************************************)
Fairness ==
    /\ WF_vars(Keeper)
    /\ WF_vars(Ping)
    /\ \A c \in Callers : WF_vars(CallEnds(c))
    /\ \A l \in Logins : WF_vars(LoginProceeds(l))

FairSpec == Spec /\ Fairness

-----------------------------------------------------------------------------
(***************************************************************************)
(* Properties.                                                             *)
(***************************************************************************)
Sessions == 1 .. connections

TypeOK ==
    /\ session \in Sessions \cup {NoSession}
    /\ isConnected \in BOOLEAN
    /\ isClosed \in BOOLEAN
    /\ loginRequired \in BOOLEAN
    /\ authInfo \in BOOLEAN
    /\ initResult \in BOOLEAN
    /\ bearer \in Tokens \cup {NoToken}
    /\ lastEvent \in Events
    /\ cancelled \in BOOLEAN
    /\ keeper \in [at : KeeperStages, session : Sessions \cup {NoSession},
                   bearer : Tokens \cup {NoToken, Torn}, auth : BOOLEAN]
    /\ pinger \in [at : PingStages, session : Sessions \cup {NoSession}]
    /\ call \in [Callers -> [at : CallStages, session : Sessions \cup {NoSession},
                             failures : 0 .. Attempts]]
    /\ login \in [Logins -> LoginStages]
    /\ connections \in Nat
    /\ open \in SUBSET Sessions
    /\ broken \in SUBSET Sessions
    /\ failed \in SUBSET Sessions
    /\ valid \in SUBSET (Tokens \cup {NoToken})
    /\ faults \in 0 .. MaxFaults

\* Every open session can still be closed: it is the one that is served, or
\* the one init is about to publish.  init runs without the mutex while the
\* other goroutines serve and drop sessions; were it to overwrite a session,
\* that one would stay open for ever.
NoSessionLeak == open \subseteq {session, keeper.session}

\* The stages of keepConnect that have nothing to serve: between the check of
\* getSession and the publication of a new session nobody else publishes one.
NothingToOverwrite == keeper.at \in ConnectStages => session = NoSession

\* Who is about to call setDisconnected has seen a request on its session fail.
DisconnectHasCause ==
    /\ pinger.at = "disconnect" => pinger.session \in failed
    /\ \A c \in Callers : call[c].failures > 0 => call[c].session \in failed

\* The strengthening of the safety properties that every step preserves.
SessionInv ==
    /\ isConnected <=> session # NoSession
    /\ NothingToOverwrite
    /\ keeper.at = "install" <=> keeper.session # NoSession
    /\ keeper.at = "install" => keeper.session = connections /\ connections \in open
    /\ NoSessionLeak
    /\ DisconnectHasCause
    /\ pinger.at \in {"ping", "disconnect"} => pinger.session # NoSession
    /\ \A c \in Callers : /\ call[c].at # "idle" => call[c].session # NoSession
                          /\ call[c].at = "request" => call[c].failures < Attempts
                          /\ call[c].at = "disconnect" => call[c].failures > 0

\* A failure reported late does not hit a later session: setDisconnected may
\* take away the current session only if a request on this very session has
\* failed, although the session may have been replaced since the request.
OnlyFailedSessionDropped ==
    [][session # NoSession /\ session' # session
           => session' = NoSession /\ session \in failed]_vars

\* The client implements the life cycle of a session.
Lifecycle == INSTANCE SessionLifecycle WITH
    current <- session, live <- open, opened <- connections, faulty <- failed
LifecycleSpec == Lifecycle!Spec

\* A session that has died is found out by ping, without any request, and
\* given up, unless the client is shut down.  (Every session up to a broken one
\* has cost a fault.)
BrokenSessionDropped ==
    \A s \in 1 .. MaxFaults :
        session = s /\ s \in broken ~> session # s \/ cancelled

\* Once keepConnect is parked, the failure of the session it waits on reaches
\* it: a new session is opened or a login is asked for.  (Reconnects, below,
\* says why it must be parked.)
BrokenSessionReplaced ==
    \A s \in 1 .. MaxFaults :
        keeper.at = "select" /\ session = s /\ s \in broken
            ~> connections > s \/ loginRequired \/ cancelled

\* keepConnect does not connect in a circle: it comes to rest with a session,
\* with a login required or with a signal to wait for.
KeeperSettles == keeper.at \in ConnectStages ~> keeper.at \in {"select", "stopped"}

\* Close ends both goroutines of the client, wherever it finds them.
GoroutinesStop == cancelled ~> keeper.at = "stopped" /\ pinger.at = "stopped"

\* README.md: Tealpine automatically reconnects to upstream servers on failure.
Reconnects ==
    ~isConnected /\ ~loginRequired /\ ~cancelled
        ~> isConnected \/ loginRequired \/ cancelled

\* The comment of SetBearerToken, client.go:160: it updates the bearer token, clears
\* loginRequired and signals reconnect.  Once keepConnect is parked, a token that
\* is stored and that the upstream accepts gets the client connected, or there is
\* another login to do: no signal for it is lost, nor is the token used torn or
\* old.  (If keepConnect is not parked yet the signal may be dropped: client.go:169.)
StoredTokenConnects ==
    keeper.at = "select" /\ session = NoSession /\ bearer \in valid
            /\ (\E l \in Logins : login[l] = "signal")
        ~> isConnected \/ loginRequired \/ cancelled \/ bearer \notin valid

=============================================================================
