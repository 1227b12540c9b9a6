---------------------------- MODULE ProxyRefresh ----------------------------
(***************************************************************************)
(* How a proxy keeps the tools, resources, templates and prompts it serves *)
(* in step with its upstreams (pkg/proxy/proxy.go, with emitEvent and      *)
(* WaitForEvent of pkg/client/client.go).                                  *)
(*                                                                         *)
(* A link is one upstream entry of a proxy.  Its goroutine,                *)
(* watchClientEvents, waits for an event of the client, clears what the    *)
(* proxy has registered for that client, lists what the upstream offers    *)
(* now and registers it again.  Events are broadcast by closing a channel: *)
(* only who is waiting gets one, and what it then reads is the last event. *)
(* A SingleProxy is one link without a prefix.                             *)
(*                                                                         *)
(* The client is its outside here: UpstreamClient has the inside.          *)
(***************************************************************************)
EXTENDS Naturals, Sequences, SequencesExt

CONSTANTS
    Clients,      \* The upstream clients.
    Links,        \* The upstream entries of the proxy.
    ClientOf,     \* [Links -> Clients].
    PrefixOf,     \* [Links -> names], the prefixes of a MultiProxy.
    Multi,        \* TRUE: MultiProxy, FALSE: SingleProxy.
    Lists,        \* [Clients -> kinds of lists], by the capabilities of the upstream,
                  \* in the order they are fetched.
    ItemsOf,      \* [kinds -> names and URIs an upstream may list], as sequences of
                  \* letters; the "://" after the scheme of a URI is one letter.
    MaxChanges,   \* Bound: how often upstreams change their lists.
    MaxFaults     \* Bound: how often upstream connections fail.

Kind == {"tools", "resources", "templates", "prompts"}

ASSUME ProxyAssumption ==
    /\ ClientOf \in [Links -> Clients]
    /\ Multi \in BOOLEAN
    /\ Multi => PrefixOf \in [Links -> Seq(STRING)]
    /\ \A c \in Clients : Lists[c] \in Seq(Kind \cap DOMAIN ItemsOf) /\ Lists[c] # <<>>
    /\ \A k \in DOMAIN ItemsOf : ItemsOf[k] \subseteq Seq(STRING)
    /\ MaxChanges \in Nat
    /\ MaxFaults \in Nat

VARIABLES
    \* The upstream and its client.
    offer,       \* What the upstreams list: a subset of Offers.
    connected,   \* isConnected.
    initResult,  \* GetInitResult() # nil.
    announce,    \* Connected is still to be emitted.
    changed,     \* A list_changed notification is on its way.
    lastEvent,
    \* The proxy.
    watcher,     \* Each link: where its goroutine is, the list it is at, the request for
                 \* it (none, running, or lost with its session) and the answer to come.
    served,      \* The handlers of the MCP server.
    registry,    \* [Clients -> [Kind -> names]], the names registered for a client.
    changes, faults

clientVars == <<offer, connected, initResult, announce, changed, lastEvent>>
vars == <<clientVars, watcher, served, registry, changes, faults>>

KindsOf(c) == {Lists[c][i] : i \in DOMAIN Lists[c]}
Items(c, k) == IF k \in KindsOf(c) THEN ItemsOf[k] ELSE {}
AllItems == UNION {Items(c, k) : c \in Clients, k \in Kind}
Offers == UNION {{<<c, k, i>> : i \in Items(c, k)} : c \in Clients, k \in Kind}
Offered(c, k) == {i \in Items(c, k) : <<c, k, i>> \in offer}
Stages == {"start", "setup", "subscribe", "waiting", "woken", "refresh", "aborted"}

\* The events watchClientEvents refreshes for.
Refreshing == {"Connected", "ListChanged"}
Events == Refreshing \cup {"None", "Disconnected"}

At(stage) == [at |-> stage, list |-> 1, fetch |-> "none", answer |-> {}]

Init ==
    /\ offer \in SUBSET Offers
    /\ connected = [c \in Clients |-> FALSE]
    /\ initResult = [c \in Clients |-> FALSE]
    /\ announce = [c \in Clients |-> FALSE]
    /\ changed = [c \in Clients |-> FALSE]
    /\ lastEvent = [c \in Clients |-> "None"]
    /\ watcher = [l \in Links |-> At("start")]
    /\ served = {}
    /\ registry = [c \in Clients |-> [k \in Kind |-> {}]]
    /\ changes = 0
    /\ faults = 0

-----------------------------------------------------------------------------
(***************************************************************************)
(* Names.  A MultiProxy puts its prefix in front of a name, or behind the  *)
(* scheme of a URI.                                                        *)
(***************************************************************************)
TransformName(l, name) == IF Multi THEN PrefixOf[l] \o <<"_">> \o name ELSE name

TransformURI(l, uri) ==
    LET schemes == {i \in DOMAIN uri : uri[i] = "://"}
        first == CHOOSE i \in schemes : \A j \in schemes : i <= j
    IN  IF ~Multi THEN uri
        ELSE IF schemes = {} THEN PrefixOf[l] \o <<"_">> \o uri
        ELSE SubSeq(uri, 1, first) \o PrefixOf[l] \o <<"/">>
                 \o SubSeq(uri, first + 1, Len(uri))

\* The name under which an item of kind k is registered.
RegisteredAs(l, k, item) ==
    IF k \in {"tools", "prompts"} THEN TransformName(l, item) ELSE TransformURI(l, item)

\* What a registered handler asks the upstream for when it is called by its
\* name: the captured original, but a template works its URI back with
\* strings.TrimPrefix(uri, TransformURI("")).
TrimPrefix(s, prefix) ==
    IF IsPrefix(prefix, s) THEN SubSeq(s, Len(prefix) + 1, Len(s)) ELSE s
Forwards(h) ==
    IF h.kind = "templates" THEN TrimPrefix(h.name, TransformURI(h.link, <<>>)) ELSE h.item

\* The handlers setupProxyHandlersWithStrategy registers for a list of items.
Handlers(l, k, items) ==
    {[name |-> RegisteredAs(l, k, i), kind |-> k, link |-> l, item |-> i] : i \in items}

\* AddTool and its like replace a handler of the same name.
AddTo(handlers, new) ==
    {h \in handlers : \A n \in new : n.name # h.name \/ n.kind # h.kind} \cup new

\* The prefixes do what they are for: no two upstreams meet in a name.
NamesApart ==
    \A l, m \in Links, k \in Kind : ClientOf[l] # ClientOf[m] =>
        \A i \in Items(ClientOf[l], k), j \in Items(ClientOf[m], k) :
            RegisteredAs(l, k, i) # RegisteredAs(m, k, j)

\* The watchers of c that are waiting when an event of c is broadcast.
WokenBy(c, ws) ==
    [l \in Links |-> IF ClientOf[l] = c /\ ws[l].at = "waiting"
                     THEN [ws[l] EXCEPT !.at = "woken"] ELSE ws[l]]
Emit(c, event, ws) ==
    /\ lastEvent' = [lastEvent EXCEPT ![c] = event]
    /\ watcher' = WokenBy(c, ws)

\* The connection of c is lost, and with it the notification and the requests
\* that are under way on it.
Lost(c, ws) ==
    [l \in Links |-> IF ClientOf[l] = c /\ ws[l].fetch = "running"
                     THEN [ws[l] EXCEPT !.fetch = "lost"] ELSE ws[l]]
Lose(c, ws) ==
    /\ connected' = [connected EXCEPT ![c] = FALSE]
    /\ changed' = [changed EXCEPT ![c] = FALSE]
    /\ Emit(c, "Disconnected", Lost(c, ws))
    /\ UNCHANGED <<offer, initResult, announce>>

\* Init of the proxy has not failed: if it does, the program ends.
Running == \A l \in Links : watcher[l].at # "aborted"

Fault == faults < MaxFaults /\ faults' = faults + 1

-----------------------------------------------------------------------------
(***************************************************************************)
(* The upstream and its client.                                            *)
(***************************************************************************)
Connect(c) ==
    /\ ~connected[c]
    /\ ~announce[c]
    /\ connected' = [connected EXCEPT ![c] = TRUE]
    /\ initResult' = [initResult EXCEPT ![c] = TRUE]
    /\ announce' = [announce EXCEPT ![c] = TRUE]
    /\ UNCHANGED <<offer, changed, lastEvent, watcher, served, registry, changes, faults>>

\* The event follows in a critical section of its own.
Announce(c) ==
    /\ announce[c]
    /\ announce' = [announce EXCEPT ![c] = FALSE]
    /\ Emit(c, "Connected", watcher)
    /\ UNCHANGED <<offer, connected, initResult, changed, served, registry, changes, faults>>

Disconnect(c) ==
    /\ connected[c]
    /\ Fault
    /\ Lose(c, watcher)
    /\ UNCHANGED <<served, registry, changes>>

\* The upstream changes a list, connected or not; it notifies its session.
Change(c) ==
    /\ changes < MaxChanges
    /\ changes' = changes + 1
    /\ \E k \in KindsOf(c) : \E items \in SUBSET Items(c, k) \ {Offered(c, k)} :
           offer' = {o \in offer : <<o[1], o[2]>> # <<c, k>>} \cup {<<c, k, i>> : i \in items}
    /\ changed' = [changed EXCEPT ![c] = connected[c]]
    /\ UNCHANGED <<connected, initResult, announce, lastEvent, watcher, served, registry,
                   faults>>

\* The handler of the notification emits the event.
Notify(c) ==
    /\ changed[c]
    /\ changed' = [changed EXCEPT ![c] = FALSE]
    /\ Emit(c, "ListChanged", watcher)
    /\ UNCHANGED <<offer, connected, initResult, announce, served, registry, changes, faults>>

Client(c) == Running /\ (Connect(c) \/ Announce(c) \/ Notify(c))

-----------------------------------------------------------------------------
(***************************************************************************)
(* The proxy.                                                              *)
(***************************************************************************)
Goes(l, from, to) ==
    watcher[l].at = from /\ watcher' = [watcher EXCEPT ![l] = At(to)]

\* Init of the proxy goes through the links one after the other: it sets up
\* the handlers at once if the client has connected before, then starts the
\* watcher.
Start(l) ==
    /\ \A m \in Links : watcher[m].at # "setup"
    /\ Goes(l, "start", IF initResult[ClientOf[l]] THEN "setup" ELSE "subscribe")
    /\ UNCHANGED <<clientVars, served, registry, changes, faults>>

\* WaitForEvent takes the channel that the next event will close ...
Subscribe(l) ==
    /\ Goes(l, "subscribe", "waiting")
    /\ UNCHANGED <<clientVars, served, registry, changes, faults>>

\* ... and, once woken, reads the last event.  A refresh begins by clearing
\* what is registered for this client.
ClearNothing(c) == UNCHANGED <<served, registry>>    \* Mutant: the handlers are kept.
ClearOthersToo(c) ==    \* Mutant: clears what the proxy serves for any client.
    /\ served' = {}
    /\ registry' = [registry EXCEPT ![c] = [k \in Kind |-> {}]]
Clear(c) ==
    /\ served' = {h \in served : h.name \notin registry[c][h.kind]}
    /\ registry' = [registry EXCEPT ![c] = [k \in Kind |-> {}]]

Wake(l) ==
    /\ \/ /\ lastEvent[ClientOf[l]] \in Refreshing
          /\ Goes(l, "woken", IF initResult[ClientOf[l]] THEN "refresh" ELSE "subscribe")
          /\ Clear(ClientOf[l])
       \/ /\ lastEvent[ClientOf[l]] \notin Refreshing
          /\ Goes(l, "woken", "subscribe")
          /\ UNCHANGED <<served, registry>>
    /\ UNCHANGED <<clientVars, changes, faults>>

\* A list is requested on the session the client has now; its answer is what
\* the upstream lists at this moment.  If there is no session, or
\* the request fails, the lists after it are given up: a watcher waits for the
\* next event; Init fails, and the program with it.
Setup(l) == watcher[l].at \in {"setup", "refresh"}
GiveUp(l) ==
    [watcher EXCEPT ![l] = At(IF watcher[l].at = "setup" THEN "aborted" ELSE "subscribe")]

Request(l) ==
    LET c == ClientOf[l]
    IN  /\ Setup(l)
        /\ watcher[l].fetch = "none"
        /\ watcher' = IF connected[c]
                      THEN [watcher EXCEPT ![l].fetch = "running",
                                           ![l].answer = Offered(c, Lists[c][watcher[l].list])]
                      ELSE GiveUp(l)
        /\ UNCHANGED <<clientVars, served, registry, changes, faults>>

\* The answer is registered, entry by entry.  After the last list the watcher
\* waits again: the check of GetLastEvent at the end of its loop makes no
\* difference, both ways lead to WaitForEvent.
OneListMore(l) ==    \* Mutant: there is always a next list.
    [At(watcher[l].at) EXCEPT !.list = watcher[l].list + 1]
AfterList(l) ==
    IF watcher[l].list = Len(Lists[ClientOf[l]]) THEN At("subscribe")
    ELSE [At(watcher[l].at) EXCEPT !.list = watcher[l].list + 1]

RegisteredLast(l) ==    \* Mutant: the names are registered with the last list only.
    LET c == ClientOf[l]
        k == Lists[c][watcher[l].list]
        new == Handlers(l, k, watcher[l].answer)
        last == watcher[l].list = Len(Lists[c])
    IN  /\ watcher[l].fetch = "running"
        /\ served' = AddTo(served, new)
        /\ registry' = IF last THEN [registry EXCEPT ![c][k] = @ \cup {h.name : h \in new}]
                       ELSE registry
        /\ watcher' = [watcher EXCEPT ![l] = AfterList(l)]
        /\ UNCHANGED <<clientVars, changes, faults>>
Register(l) ==
    LET c == ClientOf[l]
        k == Lists[c][watcher[l].list]
        new == Handlers(l, k, watcher[l].answer)
    IN  /\ watcher[l].fetch = "running"
        /\ served' = AddTo(served, new)
        /\ registry' = [registry EXCEPT ![c][k] = @ \cup {h.name : h \in new}]
        /\ watcher' = [watcher EXCEPT ![l] = AfterList(l)]
        /\ UNCHANGED <<clientVars, changes, faults>>

\* execute fails three times on its session, and gives it up unless another
\* one has taken its place.
RequestFails(l) ==
    /\ \/ /\ watcher[l].fetch = "lost"
          /\ watcher' = GiveUp(l)
          /\ UNCHANGED <<clientVars, faults>>
       \/ /\ watcher[l].fetch = "running"
          /\ Fault
          /\ Lose(ClientOf[l], GiveUp(l))
    /\ UNCHANGED <<served, registry, changes>>

Watcher(l) ==
    /\ Running
    /\ \/ Start(l) \/ Subscribe(l) \/ Wake(l)
       \/ Request(l) \/ Register(l) \/ RequestFails(l)

Next ==
    \/ \E c \in Clients : Client(c)
    \/ Running /\ \E c \in Clients : Disconnect(c) \/ Change(c)
    \/ \E l \in Links : Watcher(l)

Spec == Init /\ [][Next]_vars

(***************************************************************************)
(* Goroutines run, the client reconnects, and notifications arrive.        *)
(***************************************************************************)
Fairness ==
    /\ \A c \in Clients : WF_vars(Client(c))
    /\ \A l \in Links : WF_vars(Watcher(l))

FairSpec == Spec /\ Fairness

-----------------------------------------------------------------------------
(***************************************************************************)
(* Properties.                                                             *)
(***************************************************************************)
TypeOK ==
    /\ offer \in SUBSET Offers
    /\ {connected, initResult, announce, changed} \subseteq [Clients -> BOOLEAN]
    /\ lastEvent \in [Clients -> Events]
    /\ \A l \in Links :
           watcher[l] \in [at : Stages, list : DOMAIN Lists[ClientOf[l]],
                          fetch : {"none", "running", "lost"}, answer : SUBSET AllItems]
    /\ \A h \in served : h.link \in Links /\ h.item \in Items(ClientOf[h.link], h.kind)
    /\ DOMAIN registry = Clients
    /\ changes \in 0 .. MaxChanges
    /\ faults \in 0 .. MaxFaults

ServedFor(c) == {h \in served : ClientOf[h.link] = c}

\* What is served for a client is what is registered for it: the next refresh
\* finds every handler of the last one, also of one that failed halfway.
RegistryMatchesServed ==
    \A c \in Clients, k \in Kind :
        registry[c][k] = {h.name : h \in {g \in ServedFor(c) : g.kind = k}}

\* A refresh of one upstream leaves what is served for the others alone.
\* README.md: names are prefixed to avoid collisions.
OthersUntouched ==
    [][\A c \in Clients : ServedFor(c)' # ServedFor(c)
           => \E l \in Links : ClientOf[l] = c /\ watcher'[l] # watcher[l]]_vars

\* Nothing more happens at the upstream of c, and the client has told it all.
Quiet(c) == connected[c] /\ ~announce[c] /\ ~changed[c]

\* The proxy serves what the upstream of the link offers.
Fresh(l) ==
    ServedFor(ClientOf[l]) = UNION {Handlers(l, k, Offered(ClientOf[l], k)) : k \in Kind}

\* A watcher that was waiting when the last event came brings the proxy up to
\* date, whatever happened between the event and its reading it.
WokenRefreshes ==
    \A l \in Links :
        watcher[l].at = "woken" /\ Quiet(ClientOf[l])
            ~> Fresh(l) \/ ~Quiet(ClientOf[l]) \/ ~Running

\* The comment in setupProxyHandlersWithStrategy: for templates "the request URI will
\* have the transformed prefix, we need to pass the original".  What a handler asks
\* the upstream for is what the upstream has listed.
ForwardsOriginal == \A h \in served : Forwards(h) = h.item

\* The comment in watchClientEvents: if another event occurred during
\* processing, it is handled immediately instead of blocking on WaitForEvent.
\* So a change of which the event comes before a refresh has ended is served,
\* provided the upstream and its connection come to rest.
EventDuringRefreshHandled ==
    \A l \in Links :
        <>[]Quiet(ClientOf[l])
            => (watcher[l].at = "refresh" /\ lastEvent[ClientOf[l]] = "ListChanged"
                    ~> Fresh(l) \/ ~Running)

=============================================================================
