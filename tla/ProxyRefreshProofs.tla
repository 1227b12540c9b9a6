------------------------- MODULE ProxyRefreshProofs -------------------------
(***************************************************************************)
(* The registry of a proxy is exact, for any upstreams, links, lists,      *)
(* changes and failures, provided that names are kept apart.               *)
(***************************************************************************)
EXTENDS ProxyRefresh, SequenceTheorems, WellFoundedInduction, TLAPS

\* What is known of a watcher, and of all of them as a function.
WatcherType(l) ==
    [at : Stages, list : DOMAIN Lists[ClientOf[l]],
     fetch : {"none", "running", "lost"}, answer : SUBSET AllItems]
Sound(l, w) ==
    /\ w \in WatcherType(l)
    /\ w.fetch = "running" => w.answer \subseteq Items(ClientOf[l], Lists[ClientOf[l]][w.list])
Good(ws) == ws = [l \in Links |-> ws[l]] /\ \A l \in Links : Sound(l, ws[l])

\* A handler is one that setupProxyHandlersWithStrategy makes.
Proper(h) ==
    /\ h.link \in Links /\ h.kind \in Kind /\ h.item \in Items(ClientOf[h.link], h.kind)
    /\ h.name = RegisteredAs(h.link, h.kind, h.item)

ClientTypes ==
    /\ offer \in SUBSET Offers
    /\ {connected, initResult, announce, changed} \subseteq [Clients -> BOOLEAN]
    /\ lastEvent \in [Clients -> Events]
    /\ changes \in 0 .. MaxChanges
    /\ faults \in 0 .. MaxFaults
RegistryTypes == registry = [c \in Clients |-> [k \in Kind |-> registry[c][k]]]

Inv ==
    /\ ClientTypes /\ RegistryTypes
    /\ Good(watcher)
    /\ \A h \in served : Proper(h)

LEMMA ItemsAreItems ==
    ASSUME NEW c \in Clients, NEW k \in Kind PROVE Items(c, k) \subseteq AllItems
BY DEF AllItems

LEMMA ListsHaveKinds ==
    ASSUME NEW l \in Links
    PROVE  /\ ClientOf[l] \in Clients
           /\ 1 \in DOMAIN Lists[ClientOf[l]]
           /\ \A i \in DOMAIN Lists[ClientOf[l]] : Lists[ClientOf[l]][i] \in Kind
           /\ \A i \in DOMAIN Lists[ClientOf[l]] :
                  i # Len(Lists[ClientOf[l]]) => i + 1 \in DOMAIN Lists[ClientOf[l]]
<1>1. ClientOf[l] \in Clients
  BY ProxyAssumption DEF ProxyAssumption
<1>2. Lists[ClientOf[l]] \in Seq(Kind \cap DOMAIN ItemsOf) /\ Lists[ClientOf[l]] # <<>>
  BY <1>1, ProxyAssumption DEF ProxyAssumption
<1> QED BY <1>1, <1>2

LEMMA AtIsSound == ASSUME NEW l \in Links, NEW stage \in Stages PROVE Sound(l, At(stage))
BY ListsHaveKinds DEF Sound, At, WatcherType

LEMMA WokenGood ==
    ASSUME NEW c, NEW ws, Good(ws) PROVE Good(WokenBy(c, ws))
<1>1. \A l \in Links : Sound(l, [ws[l] EXCEPT !.at = "woken"])
  BY DEF Good, Sound, WatcherType, Stages
<1> QED BY <1>1 DEF Good, WokenBy

LEMMA LostGood ==
    ASSUME NEW c, NEW ws, Good(ws) PROVE Good(Lost(c, ws))
<1>1. \A l \in Links : Sound(l, [ws[l] EXCEPT !.fetch = "lost"])
  BY DEF Good, Sound, WatcherType
<1> QED BY <1>1 DEF Good, Lost

LEMMA PutGood ==
    ASSUME Good(watcher), NEW l \in Links, NEW w, Sound(l, w)
    PROVE  Good([watcher EXCEPT ![l] = w])
BY DEF Good

LEMMA GiveUpGood ==
    ASSUME Good(watcher), NEW l \in Links PROVE Good(GiveUp(l))
BY AtIsSound, PutGood DEF GiveUp, Stages

\* The goroutines stay where they can be.
LEMMA WatchersGood == ASSUME Inv, [Next]_vars PROVE Good(watcher')
<1>1. Good(watcher)
  BY DEF Inv
<1>2. CASE UNCHANGED watcher
  BY <1>1, <1>2
<1>3. ASSUME NEW c \in Clients, Announce(c) \/ Notify(c) \/ Disconnect(c) PROVE Good(watcher')
  BY <1>1, <1>3, WokenGood, LostGood DEF Announce, Notify, Disconnect, Lose, Emit
<1>4. ASSUME NEW l \in Links, NEW from, NEW to \in Stages, Goes(l, from, to) PROVE Good(watcher')
  BY <1>1, <1>4, AtIsSound, PutGood DEF Goes
<1>5. ASSUME NEW l \in Links, Start(l) \/ Subscribe(l) \/ Wake(l) PROVE Good(watcher')
  BY <1>4, <1>5 DEF Start, Subscribe, Wake, Stages
<1>6. ASSUME NEW l \in Links, Request(l) PROVE Good(watcher')
  <2> DEFINE c == ClientOf[l]
             k == Lists[c][watcher[l].list]
             w == [watcher[l] EXCEPT !.fetch = "running", !.answer = Offered(c, k)]
  <2>1. CASE ~connected[c]
    BY <1>1, <1>6, <2>1, GiveUpGood DEF Request
  <2>2. CASE connected[c]
    <3>1. Sound(l, watcher[l])
      BY <1>1 DEF Good
    <3>2. c \in Clients /\ k \in Kind
      BY <3>1, ListsHaveKinds DEF Sound, WatcherType
    <3>3. Offered(c, k) \subseteq Items(c, k) /\ Offered(c, k) \subseteq AllItems
      BY <3>2, ItemsAreItems DEF Offered
    <3>4. Sound(l, w)
      BY <3>1, <3>3 DEF Sound, WatcherType
    <3>5. watcher' = [watcher EXCEPT ![l] = w]
      BY <1>6, <2>2 DEF Request
    <3> QED BY <1>1, <3>4, <3>5, PutGood
  <2> QED BY <2>1, <2>2
<1>7. ASSUME NEW l \in Links, Register(l) PROVE Good(watcher')
  <2>1. Sound(l, watcher[l])
    BY <1>1 DEF Good
  <2>2. Sound(l, AfterList(l))
    <3>1. CASE watcher[l].list = Len(Lists[ClientOf[l]])
      BY <3>1, AtIsSound DEF AfterList, Stages
    <3>2. CASE watcher[l].list # Len(Lists[ClientOf[l]])
      <4>1. Sound(l, At(watcher[l].at))
        BY <2>1, AtIsSound DEF Sound, WatcherType
      <4>2. watcher[l].list + 1 \in DOMAIN Lists[ClientOf[l]]
        BY <2>1, <3>2, ListsHaveKinds DEF Sound, WatcherType
      <4>3. At(watcher[l].at).fetch = "none"
        BY DEF At
      <4> QED BY <3>2, <4>1, <4>2, <4>3 DEF AfterList, Sound, WatcherType
    <3> QED BY <3>1, <3>2
  <2> QED BY <1>1, <1>7, <2>2, PutGood DEF Register
<1>8. ASSUME NEW l \in Links, RequestFails(l) PROVE Good(watcher')
  <2>1. Good(GiveUp(l))
    BY <1>1, GiveUpGood
  <2> QED BY <1>8, <2>1, WokenGood, LostGood DEF RequestFails, Lose, Emit
<1> QED
  BY <1>2, <1>3, <1>5, <1>6, <1>7, <1>8
  DEF Next, vars, Client, Connect, Change, Watcher

LEMMA ClientsStay == ASSUME Inv, [Next]_vars PROVE ClientTypes'
<1> USE DEF ClientTypes
<1>1. ClientTypes
  BY DEF Inv
<1>2. CASE UNCHANGED <<clientVars, changes, faults>>
  BY <1>1, <1>2 DEF clientVars
<1>3. ASSUME NEW c \in Clients, Connect(c) PROVE ClientTypes'
  BY <1>1, <1>3 DEF Connect
<1>4. ASSUME NEW c \in Clients, Announce(c) PROVE ClientTypes'
  BY <1>1, <1>4 DEF Announce, Emit, Events, Refreshing
<1>5. ASSUME NEW c \in Clients, Notify(c) PROVE ClientTypes'
  BY <1>1, <1>5 DEF Notify, Emit, Events, Refreshing
<1>6. ASSUME NEW c \in Clients, NEW ws, Lose(c, ws), Fault, UNCHANGED changes PROVE ClientTypes'
  <2>1. faults' \in 0 .. MaxFaults
    BY <1>1, <1>6, ProxyAssumption DEF ProxyAssumption, Fault
  <2> QED BY <1>1, <1>6, <2>1 DEF Lose, Emit, Events
<1>7. ASSUME NEW c \in Clients, Change(c) PROVE ClientTypes'
  <2>1. PICK k \in KindsOf(c) : \E items \in SUBSET Items(c, k) :
            offer' = {o \in offer : <<o[1], o[2]>> # <<c, k>>} \cup {<<c, k, i>> : i \in items}
    BY <1>7 DEF Change
  <2>0. PICK items \in SUBSET Items(c, k) :
            offer' = {o \in offer : <<o[1], o[2]>> # <<c, k>>} \cup {<<c, k, i>> : i \in items}
    BY <2>1
  <2>2. k \in Kind
    BY ProxyAssumption DEF ProxyAssumption, KindsOf
  <2>3. {<<c, k, i>> : i \in items} \subseteq Offers
    <3>1. {<<c, k, i>> : i \in items} \subseteq {<<c, k, i>> : i \in Items(c, k)}
      OBVIOUS
    <3>2. {<<c, k, i>> : i \in Items(c, k)} \subseteq Offers
      <4> DEFINE F(d, j) == {<<d, j, i>> : i \in Items(d, j)}
                 All == {F(d, j) : d \in Clients, j \in Kind}
      <4>1. F(c, k) \in All
        <5> HIDE DEF F
        <5> QED BY <2>2
      <4>2. Offers = UNION All
        BY DEF Offers
      <4>3. {<<c, k, i>> : i \in Items(c, k)} = F(c, k)
        OBVIOUS
      <4> HIDE DEF F, All
      <4> QED BY <4>1, <4>2, <4>3
    <3> QED BY <3>1, <3>2
  <2>4. offer' \in SUBSET Offers
    BY <1>1, <2>0, <2>3
  <2>5. changes' \in 0 .. MaxChanges
    BY <1>1, <1>7, ProxyAssumption DEF ProxyAssumption, Change
  <2> QED BY <1>1, <1>7, <2>4, <2>5 DEF Change
<1>8. ASSUME NEW l \in Links, RequestFails(l) PROVE ClientTypes'
  <2>1. ClientOf[l] \in Clients
    BY ListsHaveKinds
  <2> QED BY <1>2, <1>6, <1>8, <2>1 DEF RequestFails
<1> QED
  BY <1>2, <1>3, <1>4, <1>5, <1>6, <1>7, <1>8
  DEF Next, vars, Client, Disconnect, Watcher, Start, Subscribe, Wake, Request, Register

(***************************************************************************)
(* What the proxy serves.                                                  *)
(***************************************************************************)
\* The handlers and names of an answer.
NewOf(l) == Handlers(l, Lists[ClientOf[l]][watcher[l].list], watcher[l].answer)
Adds(l) ==
    LET k == Lists[ClientOf[l]][watcher[l].list]
    IN  /\ k \in Kind /\ watcher[l].answer \subseteq Items(ClientOf[l], k)
        /\ served' = AddTo(served, NewOf(l))
        /\ registry' = [registry EXCEPT ![ClientOf[l]][k] = @ \cup {h.name : h \in NewOf(l)}]

LEMMA ServedTurns ==
    ASSUME Inv, [Next]_vars
    PROVE  \/ UNCHANGED <<served, registry>>
           \/ \E l \in Links : watcher'[l] # watcher[l] /\ (Clear(ClientOf[l]) \/ Adds(l))
<1>1. ASSUME NEW l \in Links, Register(l) PROVE Adds(l) /\ watcher'[l] # watcher[l]
  <2>1. Sound(l, watcher[l]) /\ watcher[l].fetch = "running" /\ DOMAIN watcher = Links
    BY <1>1 DEF Inv, Good, Register
  <2>2. Lists[ClientOf[l]][watcher[l].list] \in Kind
    BY <2>1, ListsHaveKinds DEF Sound, WatcherType
  <2>3. watcher'[l].fetch = "none"
    BY <1>1, <2>1 DEF Register, AfterList, At
  <2> QED BY <1>1, <2>1, <2>2, <2>3 DEF Register, Adds, NewOf, Sound
<1>2. ASSUME NEW l \in Links, Wake(l)
      PROVE  UNCHANGED <<served, registry>> \/ (Clear(ClientOf[l]) /\ watcher'[l] # watcher[l])
  <2>1. DOMAIN watcher = Links
    BY DEF Inv, Good
  <2>2. watcher[l].at = "woken" /\ watcher'[l].at # "woken"
    BY <1>2, <2>1 DEF Wake, Goes, At
  <2> QED BY <1>2, <2>2 DEF Wake
<1> QED
  BY <1>1, <1>2
  DEF Next, vars, clientVars, Client, Connect, Announce, Notify, Disconnect, Change, Watcher,
      Start, Subscribe, Request, RequestFails

LEMMA NewProper ==
    ASSUME NEW l \in Links, Adds(l)
    PROVE  \A h \in NewOf(l) : Proper(h) /\ h.link = l /\ h.kind = Lists[ClientOf[l]][watcher[l].list]
BY DEF Adds, NewOf, Handlers, Proper

LEMMA ServedProper == ASSUME Inv, [Next]_vars PROVE \A h \in served' : Proper(h)
<1>1. \A h \in served : Proper(h)
  BY DEF Inv
<1> QED BY <1>1, ServedTurns, NewProper DEF Clear, Adds, AddTo

LEMMA RegistryTyped == ASSUME Inv, [Next]_vars PROVE RegistryTypes'
<1>1. registry = [c \in Clients |-> registry[c]]
      /\ \A c \in Clients : registry[c] = [k \in Kind |-> registry[c][k]]
  BY DEF Inv, RegistryTypes
<1>2. SUFFICES registry' = [c \in Clients |-> registry'[c]]
               /\ \A c \in Clients : registry'[c] = [k \in Kind |-> registry'[c][k]]
  BY DEF RegistryTypes
<1>3. CASE UNCHANGED registry
  BY <1>1, <1>3
<1>4. ASSUME NEW c \in Clients, NEW r, registry' = [registry EXCEPT ![c] = r],
             r = [k \in Kind |-> r[k]]
      PROVE  registry' = [d \in Clients |-> registry'[d]]
             /\ \A d \in Clients : registry'[d] = [k \in Kind |-> registry'[d][k]]
  BY <1>1, <1>4
<1>5. ASSUME NEW l \in Links, Clear(ClientOf[l])
      PROVE  registry' = [c \in Clients |-> registry'[c]]
             /\ \A c \in Clients : registry'[c] = [k \in Kind |-> registry'[c][k]]
  BY <1>4, <1>5, ListsHaveKinds DEF Clear
<1>6. ASSUME NEW l \in Links, Adds(l)
      PROVE  registry' = [c \in Clients |-> registry'[c]]
             /\ \A c \in Clients : registry'[c] = [k \in Kind |-> registry'[c][k]]
  <2> DEFINE c == ClientOf[l]
             k == Lists[c][watcher[l].list]
             r == [registry[c] EXCEPT ![k] = @ \cup {h.name : h \in NewOf(l)}]
  <2>1. c \in Clients
    BY ListsHaveKinds
  <2>2. registry' = [registry EXCEPT ![c] = r]
    BY <1>6 DEF Adds
  <2>3. r = [j \in Kind |-> r[j]]
    BY <1>1, <2>1
  <2> HIDE DEF r
  <2> QED BY <1>4, <2>1, <2>2, <2>3
<1> QED BY <1>3, <1>5, <1>6, ServedTurns

\* Two handlers of a name are for the same upstream.
LEMMA Collisions ==
    ASSUME NamesApart, NEW g, NEW h, Proper(g), Proper(h), g.name = h.name, g.kind = h.kind
    PROVE  ClientOf[g.link] = ClientOf[h.link]
BY DEF NamesApart, Proper

LEMMA ClearsServed ==
    ASSUME NamesApart, Inv, RegistryMatchesServed, NEW c \in Clients, Clear(c)
    PROVE  /\ \A d \in Clients \ {c} : ServedFor(d)' = ServedFor(d)
           /\ ServedFor(c)' = {}
<1>1. \A h \in served : Proper(h)
  BY DEF Inv
<1>2. ASSUME NEW h \in served
      PROVE  h.name \in registry[c][h.kind] <=> ClientOf[h.link] = c
  <2>1. h.kind \in Kind /\ Proper(h)
    BY <1>1 DEF Proper
  <2>2. registry[c][h.kind] = {g.name : g \in {g \in ServedFor(c) : g.kind = h.kind}}
    BY <2>1 DEF RegistryMatchesServed
  <2>3. ASSUME ClientOf[h.link] = c PROVE h.name \in registry[c][h.kind]
    BY <2>2, <2>3 DEF ServedFor
  <2>4. ASSUME h.name \in registry[c][h.kind] PROVE ClientOf[h.link] = c
    <3>1. PICK g \in ServedFor(c) : g.kind = h.kind /\ g.name = h.name
      BY <2>2, <2>4
    <3>2. Proper(g) /\ ClientOf[g.link] = c
      BY <1>1 DEF ServedFor
    <3> QED BY <2>1, <3>1, <3>2, Collisions
  <2> QED BY <2>3, <2>4
<1>3. served' = {h \in served : ClientOf[h.link] # c}
  BY <1>2 DEF Clear
<1> QED BY <1>3 DEF ServedFor

LEMMA AddsServed ==
    ASSUME NamesApart, Inv, NEW l \in Links, Adds(l)
    PROVE  /\ \A d \in Clients \ {ClientOf[l]} : ServedFor(d)' = ServedFor(d)
           /\ ServedFor(ClientOf[l])' = AddTo(ServedFor(ClientOf[l]), NewOf(l))
<1> DEFINE c == ClientOf[l]
<1>1. \A h \in served : Proper(h)
  BY DEF Inv
<1>2. \A n \in NewOf(l) : Proper(n) /\ n.link = l
  BY NewProper
<1>3. ASSUME NEW h \in served, NEW n \in NewOf(l), n.name = h.name, n.kind = h.kind
      PROVE  ClientOf[h.link] = c
  BY <1>1, <1>2, <1>3, Collisions
<1>4. served' = {h \in served : \A n \in NewOf(l) : n.name # h.name \/ n.kind # h.kind}
                    \cup NewOf(l)
  BY DEF Adds, AddTo
<1>5. \A d \in Clients \ {c} : ServedFor(d)' = ServedFor(d)
  BY <1>2, <1>3, <1>4 DEF ServedFor
<1>6. ServedFor(c)' = AddTo(ServedFor(c), NewOf(l))
  BY <1>2, <1>4 DEF ServedFor, AddTo
<1> QED BY <1>5, <1>6

LEMMA Matching ==
    ASSUME NamesApart, Inv, RegistryMatchesServed, [Next]_vars
    PROVE  RegistryMatchesServed'
<1> DEFINE NamesOf(handlers, k) == {h.name : h \in {g \in handlers : g.kind = k}}
<1>1. \A c \in Clients, k \in Kind : registry[c][k] = NamesOf(ServedFor(c), k)
  BY DEF RegistryMatchesServed
<1>2. /\ registry = [c \in Clients |-> registry[c]]
      /\ \A c \in Clients : registry[c] = [k \in Kind |-> registry[c][k]]
  BY DEF Inv, RegistryTypes
<1>3. SUFFICES ASSUME NEW d \in Clients, NEW k \in Kind
               PROVE  registry'[d][k] = NamesOf(ServedFor(d)', k)
  BY DEF RegistryMatchesServed
<1>4. CASE UNCHANGED <<served, registry>>
  BY <1>1, <1>4 DEF ServedFor
<1>5. ASSUME NEW l \in Links, Clear(ClientOf[l])
      PROVE  registry'[d][k] = NamesOf(ServedFor(d)', k)
  <2>1. ClientOf[l] \in Clients
    BY ListsHaveKinds
  <2>2. CASE d = ClientOf[l]
    <3>1. registry'[d][k] = {}
      BY <1>2, <1>5, <2>2 DEF Clear
    <3>2. ServedFor(d)' = {}
      BY <1>5, <2>1, <2>2, ClearsServed
    <3> QED BY <3>1, <3>2
  <2>3. CASE d # ClientOf[l]
    <3>1. registry'[d] = registry[d]
      BY <1>2, <1>5, <2>3 DEF Clear
    <3>2. ServedFor(d)' = ServedFor(d)
      BY <1>5, <2>1, <2>3, ClearsServed
    <3> QED BY <1>1, <3>1, <3>2
  <2> QED BY <2>2, <2>3
<1>6. ASSUME NEW l \in Links, Adds(l)
      PROVE  registry'[d][k] = NamesOf(ServedFor(d)', k)
  <2> DEFINE j == Lists[ClientOf[l]][watcher[l].list]
  <2>1. CASE d # ClientOf[l]
    <3>1. registry'[d] = registry[d]
      BY <1>2, <1>6, <2>1 DEF Adds
    <3>2. ServedFor(d)' = ServedFor(d)
      BY <1>6, <2>1, AddsServed
    <3> QED BY <1>1, <3>1, <3>2
  <2>2. CASE d = ClientOf[l]
    <3>1. ServedFor(d)' = AddTo(ServedFor(d), NewOf(l))
      BY <1>6, <2>2, AddsServed
    <3>2. \A n \in NewOf(l) : n.kind = j
      BY <1>6, NewProper
    <3>3. CASE k = j
      <4>1. registry'[d][k] = registry[d][k] \cup {h.name : h \in NewOf(l)}
        BY <1>2, <1>6, <2>2, <3>3 DEF Adds
      <4>2. NamesOf(AddTo(ServedFor(d), NewOf(l)), k)
                = NamesOf(ServedFor(d), k) \cup {h.name : h \in NewOf(l)}
        BY <3>2, <3>3 DEF AddTo
      <4> QED BY <1>1, <3>1, <4>1, <4>2
    <3>4. CASE k # j
      <4>1. registry'[d][k] = registry[d][k]
        BY <1>2, <1>6, <2>2, <3>4 DEF Adds
      <4>2. NamesOf(AddTo(ServedFor(d), NewOf(l)), k) = NamesOf(ServedFor(d), k)
        BY <3>2, <3>4 DEF AddTo
      <4> QED BY <1>1, <3>1, <4>1, <4>2
    <3> QED BY <3>3, <3>4
  <2> QED BY <2>1, <2>2
<1> QED BY <1>4, <1>5, <1>6, ServedTurns

(***************************************************************************)
(* The theorems.                                                           *)
(***************************************************************************)
LEMMA Initially == Init => Inv /\ RegistryMatchesServed
<1> SUFFICES ASSUME Init PROVE Inv /\ RegistryMatchesServed
  OBVIOUS
<1>1. ClientTypes
  BY ProxyAssumption DEF ProxyAssumption, Init, ClientTypes, Events
<1>2. \A l \in Links : Sound(l, At("start"))
  BY AtIsSound DEF Stages
<1>3. Good(watcher)
  BY <1>2 DEF Init, Good
<1>4. RegistryTypes /\ \A h \in served : Proper(h)
  BY DEF Init, RegistryTypes
<1>5. RegistryMatchesServed
  BY DEF Init, RegistryMatchesServed, ServedFor
<1> QED BY <1>1, <1>3, <1>4, <1>5 DEF Inv

LEMMA Inductive == Inv /\ [Next]_vars => Inv'
BY ClientsStay, RegistryTyped, WatchersGood, ServedProper DEF Inv, Good, Sound, WatcherType, Proper

THEOREM Invariance == Spec => []Inv
<1>1. Init => Inv
  BY Initially
<1> QED BY <1>1, Inductive, PTL DEF Spec

\* The watchers are where they can be, at a list their upstream has, and
\* what is served are items of the upstream of its link.
THEOREM TypeCorrect == Spec => []TypeOK
<1>1. Inv => TypeOK
  BY DEF Inv, TypeOK, ClientTypes, RegistryTypes, Good, Sound, WatcherType, Proper
<1> QED BY <1>1, Invariance, PTL

\* If no two upstreams meet in a name, what is served for a client is what is
\* registered for it, after every registration, failure and change: the next
\* ClearAll leaves nothing behind.
THEOREM RegistryExact == ASSUME NamesApart PROVE Spec => []RegistryMatchesServed
<1>1. Inv /\ RegistryMatchesServed /\ [Next]_vars => RegistryMatchesServed'
  BY Matching
<1>2. Init => RegistryMatchesServed
  BY Initially
<1> QED BY <1>1, <1>2, Invariance, PTL DEF Spec

\* Under the same condition, the handlers of one upstream change only when a
\* watcher of this upstream moves: a refresh never takes those of another one.
THEOREM RefreshIsolated == ASSUME NamesApart PROVE Spec => OthersUntouched
<1> DEFINE Untouched ==
        \A c \in Clients : ServedFor(c)' # ServedFor(c)
            => \E l \in Links : ClientOf[l] = c /\ watcher'[l] # watcher[l]
<1>1. Inv /\ RegistryMatchesServed /\ [Next]_vars => Untouched
  <2> SUFFICES ASSUME Inv, RegistryMatchesServed, [Next]_vars,
                      NEW c \in Clients, ServedFor(c)' # ServedFor(c)
               PROVE  \E l \in Links : ClientOf[l] = c /\ watcher'[l] # watcher[l]
    OBVIOUS
  <2>1. ~UNCHANGED <<served, registry>>
    BY DEF ServedFor
  <2>2. PICK l \in Links : watcher'[l] # watcher[l] /\ (Clear(ClientOf[l]) \/ Adds(l))
    BY <2>1, ServedTurns
  <2>3. ClientOf[l] \in Clients
    BY ListsHaveKinds
  <2>4. ClientOf[l] = c
    BY <2>2, <2>3, ClearsServed, AddsServed
  <2> QED BY <2>2, <2>4
<1>2. Inv /\ RegistryMatchesServed /\ [Next]_vars => [Untouched]_vars
  BY <1>1
<1> QED BY <1>2, Invariance, RegistryExact, PTL DEF Spec, OthersUntouched, Untouched

(***************************************************************************)
(* What a template's handler makes of the URI it is called by.             *)
(***************************************************************************)
\* strings.TrimPrefix takes off what was put in front, and nothing else.
LEMMA TrimmedPrefix ==
    ASSUME NEW S, NEW prefix \in Seq(S), NEW s \in Seq(S)
    PROVE  TrimPrefix(prefix \o s, prefix) = s
<1> DEFINE whole == prefix \o s
           trimmed == SubSeq(whole, Len(prefix) + 1, Len(whole))
<1>1. /\ whole \in Seq(S) /\ Len(whole) = Len(prefix) + Len(s)
      /\ \A i \in 1 .. Len(prefix) + Len(s) :
             whole[i] = IF i <= Len(prefix) THEN prefix[i] ELSE s[i - Len(prefix)]
  BY ConcatProperties
<1>2. Len(prefix) \in Nat /\ Len(s) \in Nat
  OBVIOUS
<1> HIDE DEF whole
<1>3. IsPrefix(prefix, whole)
  <2>1. /\ SubSeq(prefix, 1, Len(prefix)) \in Seq(S)
        /\ Len(SubSeq(prefix, 1, Len(prefix))) = Len(prefix)
        /\ \A i \in 1 .. Len(prefix) : SubSeq(prefix, 1, Len(prefix))[i] = prefix[i]
    BY <1>2
  <2>2. /\ SubSeq(whole, 1, Len(prefix)) \in Seq(S)
        /\ Len(SubSeq(whole, 1, Len(prefix))) = Len(prefix)
        /\ \A i \in 1 .. Len(prefix) : SubSeq(whole, 1, Len(prefix))[i] = prefix[i]
    BY <1>1, <1>2
  <2>3. SubSeq(prefix, 1, Len(prefix)) = SubSeq(whole, 1, Len(prefix))
    BY <1>2, <2>1, <2>2, SeqEqual
  <2> QED BY <1>1, <1>2, <2>3 DEF IsPrefix
<1>4. trimmed = s
  <2>1. trimmed \in Seq(S) /\ Len(trimmed) = Len(s)
    BY <1>1, <1>2
  <2>2. ASSUME NEW i \in 1 .. Len(s) PROVE trimmed[i] = s[i]
    <3>1. trimmed[i] = whole[Len(prefix) + i]
      BY <1>1, <1>2
    <3>2. whole[Len(prefix) + i] = s[i]
      <4>1. Len(prefix) + i \in 1 .. Len(prefix) + Len(s) /\ ~(Len(prefix) + i <= Len(prefix))
            /\ Len(prefix) + i - Len(prefix) = i
        BY <1>2
      <4> QED BY <1>1, <4>1
    <3> QED BY <3>1, <3>2
  <2> QED BY <1>2, <2>1, <2>2, SeqEqual
<1> QED BY <1>3, <1>4 DEF TrimPrefix, whole

\* Items are sequences of letters.  (The provers do not take "_" for a string.)
Letters == STRING \cup {"_", "/"}

LEMMA StringsAreLetters == ASSUME NEW s \in Seq(STRING) PROVE s \in Seq(Letters)
<1>1. Len(s) \in Nat /\ s \in [1 .. Len(s) -> STRING]
  OBVIOUS
<1>2. s \in [1 .. Len(s) -> Letters]
  BY <1>1 DEF Letters
<1> QED BY <1>1, <1>2

LEMMA ItemsAreSequences ==
    ASSUME NEW c \in Clients, NEW k \in Kind PROVE Items(c, k) \subseteq Seq(Letters)
<1>1. Lists[c] \in Seq(Kind \cap DOMAIN ItemsOf)
  BY ProxyAssumption DEF ProxyAssumption
<1>2. KindsOf(c) \subseteq DOMAIN ItemsOf
  BY <1>1 DEF KindsOf
<1>3. Items(c, k) \subseteq Seq(STRING)
  BY <1>2, ProxyAssumption DEF Items, ProxyAssumption
<1> QED BY <1>3, StringsAreLetters

\* Without a scheme a URI gets the prefix in front.
LEMMA PlainIsPrefixed ==
    ASSUME NEW l \in Links, NEW uri \in Seq(Letters), Multi, \A i \in DOMAIN uri : uri[i] # "://"
    PROVE  TransformURI(l, uri) = (PrefixOf[l] \o <<"_">>) \o uri
<1>1. {i \in DOMAIN uri : uri[i] = "://"} = {}
  OBVIOUS
<1> QED BY <1>1 DEF TransformURI

LEMMA PlainForwarded ==
    ASSUME NEW h, Proper(h),
           Multi /\ h.kind = "templates" => \A i \in DOMAIN h.item : h.item[i] # "://"
    PROVE  Forwards(h) = h.item
<1>1. CASE h.kind = "templates"
  <2> DEFINE l == h.link
             uri == h.item
  <2>1. ClientOf[l] \in Clients /\ l \in Links /\ "templates" \in Kind
    BY <1>1, ListsHaveKinds DEF Proper, Kind
  <2>2. uri \in Items(ClientOf[l], "templates") /\ uri \in Seq(Letters)
    BY <1>1, <2>1, ItemsAreSequences DEF Proper
  <2>3. h.name = TransformURI(l, uri)
    BY <1>1 DEF Proper, RegisteredAs
  <2>4. CASE Multi
    <3>1. \A i \in DOMAIN uri : uri[i] # "://"
      BY <1>1, <2>4
    <3>2. <<>> \in Seq(Letters) /\ \A i \in DOMAIN <<>> : <<>>[i] # "://"
      OBVIOUS
    <3> DEFINE prefix == PrefixOf[l] \o <<"_">>
    <3>3. PrefixOf[l] \in Seq(Letters) /\ <<"_">> \in Seq(Letters)
      <4>1. PrefixOf \in [Links -> Seq(STRING)]
        BY <2>4, ProxyAssumption DEF ProxyAssumption
      <4>2. PrefixOf[l] \in Seq(Letters)
        BY <2>1, <4>1, StringsAreLetters
      <4>3. <<"_">> \in Seq(Letters)
        <5>1. "_" \in Letters
          BY DEF Letters
        <5>2. \A S, e : e \in S => <<e>> \in Seq(S)
          OBVIOUS
        <5> QED BY <5>1, <5>2
      <4> QED BY <4>2, <4>3
    <3>4. prefix \in Seq(Letters)
      BY <3>3, ConcatProperties
    <3> HIDE DEF l, uri
    <3>5. TransformURI(l, uri) = prefix \o uri
      BY <2>1, <2>2, <2>4, <3>1, PlainIsPrefixed
    <3>6. TransformURI(l, <<>>) = prefix \o <<>>
      BY <2>1, <2>4, <3>2, PlainIsPrefixed
    <3> HIDE DEF prefix
    <3>7. TransformURI(l, <<>>) = prefix
      BY <3>4, <3>6, ConcatEmptySeq
    <3>8. TrimPrefix(prefix \o uri, prefix) = uri
      BY <2>2, <3>4, TrimmedPrefix
    <3> QED BY <1>1, <2>3, <3>5, <3>7, <3>8 DEF Forwards, l, uri
  <2>5. CASE ~Multi
    <3>1. h.name = uri /\ TransformURI(l, <<>>) = <<>>
      BY <2>3, <2>5 DEF TransformURI
    <3>2. <<>> \o uri = uri /\ <<>> \in Seq(Letters)
      BY <2>2, ConcatEmptySeq
    <3>3. TrimPrefix(<<>> \o uri, <<>>) = uri
      BY <2>2, <3>2, TrimmedPrefix
    <3> QED BY <1>1, <3>1, <3>2, <3>3 DEF Forwards
  <2> QED BY <2>4, <2>5
<1> QED BY <1>1 DEF Forwards

(***************************************************************************)
(* What becomes of a URI with a scheme.                                    *)
(***************************************************************************)
LEMMA Least == ASSUME NEW T \in SUBSET Nat, T # {} PROVE \E i \in T : \A j \in T : i <= j
<1>1. PICK i \in T : \A j \in T : ~(<<j, i>> \in OpToRel(<, Nat))
  BY NatLessThanWellFounded, WFMin
<1>2. \A j \in T : ~(j < i)
  BY <1>1 DEF OpToRel
<1>3. \A j \in T : j \in Nat
  OBVIOUS
<1> QED BY <1>2, <1>3

\* The transformed URI is longer than the original, and where the original has its
\* scheme it has, as many letters further on as the prefix is long, a "/".
LEMMA SchemeMoved ==
    ASSUME NEW l \in Links, Multi, PrefixOf[l] \in Seq(Letters),
           NEW uri \in Seq(Letters), NEW k \in DOMAIN uri, uri[k] = "://"
    PROVE  LET name == TransformURI(l, uri)
           IN  /\ name \in Seq(Letters) /\ Len(name) = Len(uri) + Len(PrefixOf[l]) + 1
               /\ \E i \in 1 .. Len(uri) : uri[i] = "://" /\ name[i + Len(PrefixOf[l]) + 1] = "/"
<1> DEFINE schemes == {i \in DOMAIN uri : uri[i] = "://"}
           first == CHOOSE i \in schemes : \A j \in schemes : i <= j
           p == PrefixOf[l]
           scheme == SubSeq(uri, 1, first)
           rest == SubSeq(uri, first + 1, Len(uri))
           slash == <<"/">>
<1>1. /\ Len(uri) \in Nat /\ Len(p) \in Nat /\ DOMAIN uri = 1 .. Len(uri)
      /\ schemes \in SUBSET Nat /\ schemes # {}
  OBVIOUS
<1>2. first \in 1 .. Len(uri) /\ uri[first] = "://"
  BY <1>1, Least
<1>3. TransformURI(l, uri) = ((scheme \o p) \o slash) \o rest
  BY <1>1 DEF TransformURI
<1> HIDE DEF schemes, first
<1>4. /\ scheme \in Seq(Letters) /\ Len(scheme) = first
      /\ rest \in Seq(Letters) /\ Len(rest) = Len(uri) - first
  <2>1. \A i \in 1 .. Len(uri) : uri[i] \in Letters
    OBVIOUS
  <2>2. \A i \in 1 .. first : uri[i] \in Letters
    BY <1>1, <1>2, <2>1
  <2>3. \A i \in first + 1 .. Len(uri) : uri[i] \in Letters
    BY <1>1, <1>2, <2>1
  <2>4. 1 \in Int /\ first \in Int /\ first + 1 \in Int /\ Len(uri) \in Int /\ 1 <= first
    BY <1>1, <1>2
  <2>5. scheme \in Seq(Letters) /\ Len(scheme) = IF 1 <= first THEN first - 1 + 1 ELSE 0
    BY <2>2, <2>4, SubSeqProperties
  <2>6. /\ rest \in Seq(Letters)
        /\ Len(rest) = IF first + 1 <= Len(uri) THEN Len(uri) - (first + 1) + 1 ELSE 0
    BY <2>3, <2>4, SubSeqProperties
  <2>7. first \in Nat /\ Len(uri) \in Nat /\ 1 <= first /\ first <= Len(uri)
    BY <1>1, <1>2
  <2> HIDE DEF scheme, rest
  <2>8. Len(scheme) = first
    BY <2>5, <2>7
  <2>9. Len(rest) = Len(uri) - first
    BY <2>6, <2>7
  <2> QED BY <2>5, <2>6, <2>8, <2>9
<1>5. slash \in Seq(Letters) /\ Len(slash) = 1 /\ slash[1] = "/"
  <2>1. \A S, e : e \in S => <<e>> \in Seq(S) /\ Len(<<e>>) = 1 /\ <<e>>[1] = e
    OBVIOUS
  <2> QED BY <2>1 DEF Letters
<1> HIDE DEF scheme, rest, slash, p
<1> DEFINE front == scheme \o p
           body == front \o slash
<1>6. front \in Seq(Letters) /\ Len(front) = first + Len(p)
  BY <1>4, ConcatProperties DEF p
<1> HIDE DEF front
<1>7. /\ body \in Seq(Letters) /\ Len(body) = first + Len(p) + 1
      /\ body[first + Len(p) + 1] = "/"
  <2>1. /\ body \in Seq(Letters) /\ Len(body) = Len(front) + Len(slash)
        /\ \A i \in 1 .. Len(front) + Len(slash) :
               body[i] = IF i <= Len(front) THEN front[i] ELSE slash[i - Len(front)]
    <3>1. front \in Seq(Letters) /\ slash \in Seq(Letters)
      BY <1>5, <1>6
    <3> QED BY <3>1, ConcatProperties
  <2>2. /\ first + Len(p) + 1 \in 1 .. Len(front) + Len(slash)
        /\ ~(first + Len(p) + 1 <= Len(front)) /\ first + Len(p) + 1 - Len(front) = 1
    BY <1>1, <1>2, <1>5, <1>6
  <2> QED BY <1>5, <1>6, <2>1, <2>2
<1> HIDE DEF body
<1> DEFINE name == body \o rest
<1>8. /\ name \in Seq(Letters) /\ Len(name) = Len(uri) + Len(p) + 1
      /\ name[first + Len(p) + 1] = "/"
  <2>1. /\ name \in Seq(Letters) /\ Len(name) = Len(body) + Len(rest)
        /\ \A i \in 1 .. Len(body) + Len(rest) :
               name[i] = IF i <= Len(body) THEN body[i] ELSE rest[i - Len(body)]
    BY <1>4, <1>7, ConcatProperties
  <2>2. /\ first + Len(p) + 1 \in 1 .. Len(body) + Len(rest) /\ first + Len(p) + 1 <= Len(body)
        /\ Len(body) + Len(rest) = Len(uri) + Len(p) + 1
    BY <1>1, <1>2, <1>4, <1>7
  <2> QED BY <1>7, <2>1, <2>2
<1> HIDE DEF name
<1>9. TransformURI(l, uri) = name
  BY <1>3 DEF name, body, front
<1> QED BY <1>2, <1>8, <1>9 DEF p

\* A URI with a scheme that an endpoint for several upstreams has transformed is not
\* worked back: the upstream is asked for another one.
LEMMA SchemeLost ==
    ASSUME NEW h, Proper(h), Multi, h.kind = "templates",
           NEW k \in DOMAIN h.item, h.item[k] = "://"
    PROVE  Forwards(h) # h.item
<1> DEFINE p == PrefixOf[h.link]
           uri == h.item
           name == h.name
           prefix == p \o <<"_">>
<1>1. ClientOf[h.link] \in Clients /\ h.link \in Links /\ "templates" \in Kind
  BY ListsHaveKinds DEF Proper, Kind
<1>2. uri \in Seq(Letters) /\ p \in Seq(Letters)
  <2>1. uri \in Items(ClientOf[h.link], "templates")
    BY DEF Proper
  <2>2. PrefixOf \in [Links -> Seq(STRING)]
    BY ProxyAssumption DEF ProxyAssumption
  <2> QED BY <1>1, <2>1, <2>2, ItemsAreSequences, StringsAreLetters
<1>3. name = TransformURI(h.link, uri)
  BY DEF Proper, RegisteredAs
<1>4. /\ name \in Seq(Letters) /\ Len(name) = Len(uri) + Len(p) + 1
      /\ \E i \in 1 .. Len(uri) : uri[i] = "://" /\ name[i + Len(p) + 1] = "/"
  <2>1. k \in DOMAIN uri /\ uri[k] = "://" /\ PrefixOf[h.link] \in Seq(Letters)
    BY <1>2
  <2> HIDE DEF uri, name
  <2> QED BY <1>1, <1>2, <1>3, <2>1, SchemeMoved
<1>5. prefix \in Seq(Letters) /\ Len(prefix) = Len(p) + 1
  <2>1. \A S, e : e \in S => <<e>> \in Seq(S) /\ Len(<<e>>) = 1
    OBVIOUS
  <2>2. <<"_">> \in Seq(Letters) /\ Len(<<"_">>) = 1
    BY <2>1 DEF Letters
  <2> DEFINE line == <<"_">>
  <2> HIDE DEF line, p
  <2>3. line \in Seq(Letters) /\ Len(line) = 1
    BY <2>2 DEF line
  <2>4. p \o line \in Seq(Letters) /\ Len(p \o line) = Len(p) + Len(line)
    BY <1>2, <2>3, ConcatProperties
  <2> QED BY <2>3, <2>4 DEF line
<1>6. TransformURI(h.link, <<>>) = prefix
  <2>1. <<>> \in Seq(Letters) /\ \A i \in DOMAIN <<>> : <<>>[i] # "://"
    OBVIOUS
  <2>2. TransformURI(h.link, <<>>) = prefix \o <<>>
    BY <1>1, <2>1, PlainIsPrefixed
  <2> HIDE DEF prefix
  <2> QED BY <1>5, <2>2, ConcatEmptySeq
<1> HIDE DEF p, uri, name, prefix
<1>7. CASE IsPrefix(prefix, name)
  <2> DEFINE trimmed == SubSeq(name, Len(prefix) + 1, Len(name))
  <2>1. PICK i \in 1 .. Len(uri) : uri[i] = "://" /\ name[i + Len(p) + 1] = "/"
    BY <1>4
  <2>2. Len(p) \in Nat /\ Len(uri) \in Nat
    BY <1>2
  <2>3. trimmed[i] = name[i + Len(p) + 1]
    <3>1. \A j \in 1 .. Len(name) : name[j] \in Letters
      BY <1>4
    <3>2. \A j \in Len(prefix) + 1 .. Len(name) : name[j] \in Letters
      BY <1>5, <2>2, <3>1
    <3>3. Len(prefix) + 1 \in Int /\ Len(name) \in Int
      BY <1>4, <1>5, <2>2
    <3>4. \A j \in 1 .. Len(name) - (Len(prefix) + 1) + 1 :
              trimmed[j] = name[Len(prefix) + 1 + j - 1]
      BY <3>2, <3>3, SubSeqProperties
    <3>5. /\ i \in 1 .. Len(name) - (Len(prefix) + 1) + 1
          /\ Len(prefix) + 1 + i - 1 = i + Len(p) + 1
      BY <1>4, <1>5, <2>2
    <3> QED BY <3>4, <3>5
  <2>4. trimmed # uri
    BY <2>1, <2>3
  <2> QED BY <1>6, <1>7, <2>4 DEF Forwards, TrimPrefix, name, uri
<1>8. CASE ~IsPrefix(prefix, name)
  <2>1. name # uri
    BY <1>2, <1>4
  <2> QED BY <1>6, <1>8, <2>1 DEF Forwards, TrimPrefix, name, uri
<1> QED BY <1>7, <1>8

\* Which handlers pass on what the upstream has listed: all but those of a template
\* that has a scheme, behind an endpoint for several upstreams, whatever its prefix.
ForwardsExactly ==
    \A h \in served :
        Forwards(h) = h.item <=>
            ~(Multi /\ h.kind = "templates" /\ \E i \in DOMAIN h.item : h.item[i] = "://")

\* setupProxyHandlersWithStrategy: a request through a handler reaches the upstream
\* with the name or URI it has listed, except for ForwardsExactly's templates, of which
\* the comment at proxy.go:232 is never right.
THEOREM ForwardedExactly == Spec => []ForwardsExactly
<1>1. Inv => ForwardsExactly
  <2> SUFFICES ASSUME Inv, NEW h \in served
               PROVE  Forwards(h) = h.item <=>
                          ~(Multi /\ h.kind = "templates"
                                  /\ \E i \in DOMAIN h.item : h.item[i] = "://")
    BY DEF ForwardsExactly
  <2>1. Proper(h)
    BY DEF Inv
  <2>2. ASSUME Multi, h.kind = "templates", NEW k \in DOMAIN h.item, h.item[k] = "://"
        PROVE  Forwards(h) # h.item
    BY <2>1, <2>2, SchemeLost
  <2> QED BY <2>1, <2>2, PlainForwarded
<1> QED BY <1>1, Invariance, PTL

=============================================================================
