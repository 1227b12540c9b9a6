---------------------------- MODULE AccessProofs ----------------------------
(***************************************************************************)
(* Authentication and authorization for every configuration, set of users, *)
(* tokens, rules and names.  The invariant records what each stage has     *)
(* found out; that the policies made of a configuration decide what the    *)
(* configuration says (EnforceIsMay) is a fact of its own.                 *)
(***************************************************************************)
EXTENDS Access, TLAPS

\* What NewAuthenticator and NewAuthorizer have made, and nobody changes.
Made ==
    /\ config \in Configs /\ Valid(config)
    /\ provider \in BOOLEAN
    /\ userTokens \in TokenTables(config)
    /\ groupings = Groupings(config)
    /\ policies = Policies(config)

Asked ==
    /\ site \in {"mcp", "admin"}
    /\ header \in Tokens \cup {Malformed, None}
    /\ session \in Everyone \cup {None}
    /\ session # None => provider /\ Mapped(session)

\* Who the request comes from, stage by stage.
Stages == Ends \cup {"middleware", "session", "header", "jwt", "introspect", "static",
                     "receive", "authorize", "handle", "filter", "admin"}
Identity ==
    /\ at \in Stages
    /\ user \in Everyone \cup {None}
    /\ at \in {"session", "header", "jwt", "introspect", "static"} => AuthEnabled
    /\ at \in {"jwt", "introspect", "static"} => header \in Tokens
    /\ at \in {"jwt", "introspect"} => provider
    /\ IdentityProved
    /\ TokenHelps

\* What it asks for and gets.
MethodWords == {"tools/", "resources/", "templates/", "prompts/", "list", "call", "get", "read",
                "initialize", "notifications/initialized", "ping"}
Listed == UNION {Items[k] : k \in {k \in Kinds : method = ListMethod(k)}}
Shown == {n \in Listed : \A k \in Kinds : method = FilteredAs(k)
                             => Enforce(user, UseMethod(k), n)}
Served ==
    /\ method \in Seq(MethodWords)
    /\ at \in {"receive", "authorize", "handle", "filter", "denied"} => site = "mcp"
    /\ at \in {"admin", "forbidden"} => site = "admin"
    /\ site = "admin" => method = <<>> /\ result = {}
    /\ site = "mcp" /\ at \in {"handle", "filter", "served"} /\ RulesEnabled
           => user # None /\ (method \in Handshakes \/ Enforce(user, method, name))
    /\ at = "denied" => user = None \/ ~Enforce(user, method, name)
    /\ at \notin {"filter", "served"} => result = {}
    /\ at = "filter" => result = Listed
    /\ at = "served" /\ site = "mcp" => result = IF RulesEnabled THEN Shown ELSE Listed

AccessInv == Made /\ Asked /\ Identity /\ Served

(***************************************************************************)
(* Patterns and rules.                                                     *)
(***************************************************************************)

\* The pattern that stands for a missing method matches all methods.
LEMMA AnyMethodMatches ==
    ASSUME NEW m \in Seq(MethodWords)
    PROVE  PrefixMatch(m, AnyMethod)
<1>1. AnyMethod # <<>> /\ Last(AnyMethod) = "*"
  BY DEF AnyMethod, Last
<1>2. Front(AnyMethod) = <<>>
  BY DEF AnyMethod, Front
<1>3. IsPrefix(<<>>, m)
  BY DEF IsPrefix
<1> QED BY <1>1, <1>2, <1>3 DEF PrefixMatch

\* Enforce, on the policies and groupings made of a valid configuration, allows
\* what the rules of the user's groups allow.
LEMMA EnforceIsMay ==
    ASSUME Made, NEW u \in Everyone, NEW m \in Seq(MethodWords), NEW n
    PROVE  Enforce(u, m, n) <=> May(u, m, n)
<1> DEFINE MethodOf(r) == IF r.method = <<>> THEN AnyMethod ELSE r.method
<1>1. \A r : PrefixMatch(m, MethodOf(r)) <=> r.method = <<>> \/ PrefixMatch(m, r.method)
  BY AnyMethodMatches
<1>2. ASSUME Enforce(u, m, n) PROVE May(u, m, n)
  <2>1. PICK p \in Policies(config) : /\ <<u, p.group>> \in Groupings(config)
                                      /\ PrefixMatch(m, p.method) /\ PrefixMatch(n, p.name)
    BY <1>2 DEF Enforce, Made
  <2>2. PICK a \in AuthRulesOf(config) : \E pattern \in a.rule.allow :
            p = [group |-> a.group, name |-> pattern, method |-> MethodOf(a.rule)]
    BY <2>1 DEF Policies
  <2>3. PICK pattern \in a.rule.allow :
            p = [group |-> a.group, name |-> pattern, method |-> MethodOf(a.rule)]
    BY <2>2
  <2>4. a.group \in DOMAIN config.auth /\ a.rule \in config.auth[a.group]
    BY DEF AuthRulesOf, AuthRules
  <2>5. u \in config.groups[a.group]
    BY <2>1, <2>3 DEF Groupings
  <2>6. a.rule.method = <<>> \/ PrefixMatch(m, a.rule.method)
    BY <1>1, <2>1, <2>3
  <2>7. PrefixMatch(n, pattern)
    BY <2>1, <2>3
  <2> QED BY <2>4, <2>5, <2>6, <2>7 DEF May
<1>3. ASSUME May(u, m, n) PROVE Enforce(u, m, n)
  <2>0. PICK g \in DOMAIN config.auth :
            /\ u \in config.groups[g]
            /\ \E r \in config.auth[g] :
                   /\ r.method = <<>> \/ PrefixMatch(m, r.method)
                   /\ \E pattern \in r.allow : PrefixMatch(n, pattern)
    BY <1>3 DEF May
  <2>1. PICK r \in config.auth[g] :
            /\ r.method = <<>> \/ PrefixMatch(m, r.method)
            /\ \E pattern \in r.allow : PrefixMatch(n, pattern)
    BY <2>0
  <2>2. PICK pattern \in r.allow : PrefixMatch(n, pattern)
    BY <2>1
  <2>3. r \in Rules /\ g \in DOMAIN config.groups
    BY AccessAssumption DEF Made, Valid, IsConfig
  <2> DEFINE a == [group |-> g, rule |-> r]
             p == [group |-> g, name |-> pattern, method |-> MethodOf(r)]
  <2>4. a \in AuthRulesOf(config)
    BY <2>3 DEF AuthRulesOf, AuthRules
  <2>5. p \in Policies(config)
    <3>1. a.group = g /\ a.rule = r
      OBVIOUS
    <3>2. p \in {[group |-> a.group, name |-> q,
                  method |-> IF a.rule.method = <<>> THEN AnyMethod ELSE a.rule.method]
                     : q \in a.rule.allow}
      BY <2>2, <3>1
    <3> HIDE DEF a, p
    <3> QED BY <2>4, <3>2 DEF Policies
  <2>6. <<u, g>> \in Groupings(config)
    BY <2>0, <2>3 DEF Groupings
  <2>7. PrefixMatch(m, p.method) /\ PrefixMatch(n, p.name) /\ p.group = g
    BY <1>1, <2>1, <2>2
  <2> QED BY <2>5, <2>6, <2>7 DEF Enforce, Made
<1> QED BY <1>2, <1>3

\* No two lists are asked for with one method, and the filter takes none for
\* another.
LEMMA ListMethods ==
    /\ \A k, j \in Kinds : ListMethod(k) = ListMethod(j) => k = j
    /\ \A k \in Kinds, j \in Kinds \ {"templates"} : ListMethod(j) = FilteredAs(k) <=> k = j
    /\ \A k \in Kinds : ListMethod(k) \in Seq(MethodWords)
<1>1. /\ ListMethod("tools") = <<"tools/", "list">>
      /\ ListMethod("resources") = <<"resources/", "list">>
      /\ ListMethod("templates") = <<"resources/", "templates/", "list">>
      /\ ListMethod("prompts") = <<"prompts/", "list">>
  BY DEF ListMethod, Slash
<1>2. /\ ListMethod("tools")[1] = "tools/" /\ ListMethod("resources")[1] = "resources/"
      /\ ListMethod("prompts")[1] = "prompts/"
      /\ ListMethod("templates")[1] = "resources/"
      /\ Len(ListMethod("templates")) = 3 /\ Len(ListMethod("resources")) = 2
  BY <1>1
<1>3. FilteredAs("templates")[1] = "resource_templates/"
  BY DEF FilteredAs
<1>4. \A k \in Kinds \ {"templates"} : FilteredAs(k) = ListMethod(k)
  BY DEF FilteredAs
<1>5. \A k, j \in Kinds : ListMethod(k) = ListMethod(j) => k = j
  BY <1>2 DEF Kinds
<1>6. \A k \in Kinds, j \in Kinds \ {"templates"} : ListMethod(j) = FilteredAs(k) <=> k = j
  <2> SUFFICES ASSUME NEW k \in Kinds, NEW j \in Kinds \ {"templates"}
               PROVE  ListMethod(j) = FilteredAs(k) <=> k = j
    OBVIOUS
  <2>1. CASE k = "templates"
    <3>1. j \in {"tools", "resources", "prompts"} BY DEF Kinds
    <3>2. ListMethod(j)[1] # FilteredAs(k)[1] BY <2>1, <3>1, <1>2, <1>3
    <3> QED BY <2>1, <3>2
  <2>2. CASE k # "templates"
    BY <2>2, <1>4, <1>5
  <2> QED BY <2>1, <2>2
<1>7. \A k \in Kinds : ListMethod(k) \in Seq(MethodWords)
  <2> DEFINE W == MethodWords
  <2>0. \A a, b, c \in W : <<a, b>> \in Seq(W) /\ <<a, b, c>> \in Seq(W)
    <3> HIDE DEF W
    <3> QED OBVIOUS
  <2>1. /\ <<"tools/", "list">> \in Seq(MethodWords) /\ <<"resources/", "list">> \in Seq(MethodWords)
        /\ <<"resources/", "templates/", "list">> \in Seq(MethodWords)
        /\ <<"prompts/", "list">> \in Seq(MethodWords)
    BY <2>0 DEF MethodWords
  <2> QED BY <1>1, <2>1, Zenon DEF Kinds
<1> QED BY <1>5, <1>6, <1>7

(***************************************************************************)
(* The invariant, in the order in which a request passes the stages.       *)
(***************************************************************************)
LEMMA UserFacts ==
    ASSUME Made
    PROVE  /\ \A u \in Users(config) : u \in Everyone /\ config.tokenOf[u] \in Tokens
           /\ \A t \in DOMAIN userTokens :
                  /\ t \in Tokens /\ userTokens[t] \in Users(config)
                  /\ config.tokenOf[userTokens[t]] = t
           /\ \A u \in Users(config) : config.tokenOf[u] \in DOMAIN userTokens
           /\ None \notin Everyone
           /\ \A t \in Tokens : Subject[t] \in Everyone \cup {None}
<1>1. IsConfig(config)
  BY AccessAssumption DEF Made
<1>2. \A u \in Users(config) : u \in Everyone /\ config.tokenOf[u] \in Tokens
  BY <1>1 DEF IsConfig, Users
<1>3. /\ userTokens \in [{config.tokenOf[u] : u \in Users(config)} -> Users(config)]
      /\ \A t \in DOMAIN userTokens : config.tokenOf[userTokens[t]] = t
  BY DEF Made, TokenTables
<1>4. DOMAIN userTokens = {config.tokenOf[u] : u \in Users(config)}
  BY <1>3
<1> QED BY <1>2, <1>3, <1>4, AccessAssumption

LEMMA InitAccess == Init => AccessInv
<1> SUFFICES ASSUME Init PROVE AccessInv
  OBVIOUS
<1>1. Made
  BY DEF Init, Made
<1>2. Asked
  BY DEF Init, Asked
<1>3. Identity
  BY DEF Init, Identity, Stages, IdentityProved, Admitted, TokenHelps
<1>4. Served
  BY DEF Init, Served
<1> QED BY <1>1, <1>2, <1>3, <1>4 DEF AccessInv

\* The request and what was made of the configuration stay as they are.
LEMMA Unchanged ==
    ASSUME AccessInv, [Next]_vars
    PROVE  UNCHANGED <<made, asked>>
BY DEF Next, vars, Middleware, CheckSession, CheckHeader, ValidateJWT, IntrospectToken,
   StaticToken, Receive, Authorize, Handle, Filter, AdminCheck, Goes, Admits

LEMMA MadeAsked ==
    ASSUME AccessInv, UNCHANGED <<made, asked>>
    PROVE  Made' /\ Asked'
BY DEF AccessInv, Made, Asked, made, asked, Mapped, Users

\* Who is let in at a stage of the Authenticator has proved who it is.
LEMMA IdentityStep ==
    ASSUME AccessInv, [Next]_vars
    PROVE  Identity'
<1> USE DEF AccessInv, Identity, IdentityProved, TokenHelps, Admitted, Stages, Ends, AuthEnabled
<1>1. /\ UNCHANGED <<config, provider, userTokens, session, header, site>>
      /\ Users(config)' = Users(config)
  BY Unchanged DEF made, asked, Users
<1>2. CASE Middleware
  BY <1>1, <1>2 DEF Middleware, Goes, Admits
<1>3. CASE CheckSession
  <2>1. CASE session # None
    <3>1. provider /\ Mapped(session) /\ session \in Everyone
      BY <2>1 DEF Asked
    <3> QED BY <1>1, <1>3, <2>1, <3>1 DEF CheckSession, Admits, Mapped
  <2>2. CASE session = None
    BY <1>1, <1>3, <2>2 DEF CheckSession, Goes
  <2> QED BY <2>1, <2>2
<1>4. CASE CheckHeader
  <2>1. CASE header \in Tokens
    BY <1>1, <1>4, <2>1 DEF CheckHeader, Goes
  <2>2. CASE header \notin Tokens
    BY <1>1, <1>4, <2>2, UserFacts DEF CheckHeader, Goes
  <2> QED BY <2>1, <2>2
<1>5. CASE ValidateJWT \/ IntrospectToken
  <2>1. header \in Tokens /\ provider
    BY <1>5 DEF ValidateJWT, IntrospectToken
  <2>2. CASE Mapped(Subject[header]) /\ Admits(Subject[header])
    <3>1. Subject[header] \in Everyone
      BY <2>1, <2>2, UserFacts DEF Mapped
    <3> QED BY <1>1, <2>1, <2>2, <3>1 DEF Admits, Mapped
  <2>3. CASE Goes("introspect") \/ Goes("static")
    BY <1>1, <1>5, <2>1, <2>3 DEF Goes, ValidateJWT, IntrospectToken
  <2> QED BY <1>5, <2>2, <2>3 DEF ValidateJWT, IntrospectToken
<1>6. CASE StaticToken
  <2>1. header \in Tokens
    BY <1>6 DEF StaticToken
  <2>2. CASE header \in DOMAIN userTokens
    <3>1. /\ userTokens[header] \in Users(config) /\ userTokens[header] \in Everyone
          /\ userTokens[header] # None /\ config.tokenOf[userTokens[header]] = header
      BY <2>2, UserFacts
    <3>2. user' = userTokens[header] /\ at' \in {"receive", "admin"}
      BY <1>6, <2>2 DEF StaticToken, Admits
    <3> QED BY <1>1, <2>1, <3>1, <3>2
  <2>3. CASE header \notin DOMAIN userTokens
    BY <1>1, <1>6, <2>3, UserFacts DEF StaticToken, Goes
  <2> QED BY <2>2, <2>3
<1>7. CASE AdminCheck
  <2>1. CASE user = None
    <3>1. Users(config) = {}
      BY <1>7, <2>1 DEF AdminCheck
    <3> QED BY <1>1, <1>7, <2>1, <3>1 DEF AdminCheck, Goes
  <2>2. CASE user # None
    BY <1>1, <1>7, <2>2 DEF AdminCheck, Goes
  <2> QED BY <2>1, <2>2
<1>8. CASE Receive \/ Authorize \/ Handle \/ Filter
  BY <1>1, <1>8 DEF Receive, Authorize, Handle, Filter, Goes
<1>9. CASE UNCHANGED vars
  BY <1>1, <1>9 DEF vars
<1> QED BY <1>2, <1>3, <1>4, <1>5, <1>6, <1>7, <1>8, <1>9 DEF Next

\* What the stages of the Authorizer have decided stays true, as nothing they
\* looked at changes.
LEMMA SameDecision ==
    ASSUME AccessInv, [Next]_vars, UNCHANGED <<user, method, name>>
    PROVE  /\ Enforce(user, method, name)' = Enforce(user, method, name)
           /\ Listed' = Listed /\ Shown' = Shown
<1>1. UNCHANGED <<policies, groupings>>
  BY Unchanged DEF made
<1>2. \A u, m, n : Enforce(u, m, n)' = Enforce(u, m, n)
  BY <1>1 DEF Enforce
<1> QED BY <1>2 DEF Listed, Shown, Enforce

LEMMA UseMethods == \A k \in Kinds : UseMethod(k) \in Seq(MethodWords)
<1> DEFINE W == MethodWords
<1>1. \A a, b \in W : <<a, b>> \in Seq(W)
  <2> HIDE DEF W
  <2> QED OBVIOUS
<1>2. /\ <<"tools/", "call">> \in Seq(W) /\ <<"prompts/", "get">> \in Seq(W)
      /\ <<"resources/", "read">> \in Seq(W)
  BY <1>1 DEF MethodWords
<1> QED BY <1>2, Zenon DEF UseMethod, Kinds

LEMMA CallsHaveMethods == \A call \in Calls : call[1] \in Seq(MethodWords)
<1> DEFINE W == MethodWords
<1>1. \A a \in W : <<a>> \in Seq(W)
  <2> HIDE DEF W
  <2> QED OBVIOUS
<1>2. \A m \in Handshakes : m \in Seq(W)
  BY <1>1 DEF Handshakes, MethodWords
<1> QED BY <1>2, UseMethods, ListMethods DEF Calls

LEMMA ServedStep ==
    ASSUME AccessInv, [Next]_vars
    PROVE  Served'
<1> USE DEF AccessInv, Served
<1>1. UNCHANGED <<config, site>> /\ RulesEnabled' = RulesEnabled /\ site \in {"mcp", "admin"}
  BY Unchanged DEF made, asked, RulesEnabled, AuthRulesOf, AuthRules, Asked
<1>2. CASE Middleware \/ CheckSession \/ CheckHeader \/ ValidateJWT \/ IntrospectToken
           \/ StaticToken
  <2>1. /\ \/ at' \in {"session", "header", "jwt", "introspect", "static", "unauthorized"}
           \/ at' = "receive" /\ site = "mcp"
           \/ at' = "admin" /\ site = "admin"
        /\ UNCHANGED <<method, result>> /\ result = {}
    BY <1>1, <1>2 DEF Middleware, CheckSession, CheckHeader, ValidateJWT, IntrospectToken,
       StaticToken, Goes, Admits
  <2> QED BY <1>1, <2>1
<1>3. CASE Receive
  <2>1. method' \in Seq(MethodWords)
    BY <1>3, CallsHaveMethods DEF Receive
  <2> QED BY <1>1, <1>3, <2>1 DEF Receive
<1>4. CASE Authorize
  <2>1. UNCHANGED <<user, method, name, result>> /\ result = {} /\ site = "mcp"
    BY <1>4 DEF Authorize, Goes
  <2>2. \/ at' = "handle" /\ (RulesEnabled => user # None
                                 /\ (method \in Handshakes \/ Enforce(user, method, name)))
        \/ at' = "denied" /\ (user = None \/ ~Enforce(user, method, name))
    BY <1>4 DEF Authorize, Goes
  <2> QED BY <1>1, <2>1, <2>2, SameDecision
<1>5. CASE Handle
  <2>1. UNCHANGED <<user, method, name>> /\ at = "handle" /\ at' = "filter" /\ site = "mcp"
    BY <1>5 DEF Handle
  <2>2. result' = Listed
    BY <1>5 DEF Handle, Listed
  <2> QED BY <1>1, <2>1, <2>2, SameDecision
<1>6. CASE Filter
  <2>1. UNCHANGED <<user, method, name>> /\ at = "filter" /\ at' = "served" /\ site = "mcp"
    BY <1>6 DEF Filter
  <2>2. result' = IF RulesEnabled THEN Shown ELSE Listed
    BY <1>6, <2>1 DEF Filter, Shown
  <2> QED BY <1>1, <2>1, <2>2, SameDecision
<1>7. CASE AdminCheck
  BY <1>1, <1>7 DEF AdminCheck, Goes
<1>8. CASE UNCHANGED vars
  <2>1. UNCHANGED <<at, user, method, name, result>>
    BY <1>8 DEF vars
  <2> QED BY <1>1, <2>1, SameDecision
<1> QED BY <1>2, <1>3, <1>4, <1>5, <1>6, <1>7, <1>8 DEF Next

LEMMA AccessStep == AccessInv /\ [Next]_vars => AccessInv'
<1> SUFFICES ASSUME AccessInv, [Next]_vars PROVE AccessInv'
  OBVIOUS
<1>1. Made' /\ Asked'
  BY Unchanged, MadeAsked
<1>2. Identity'
  BY IdentityStep
<1>3. Served'
  BY ServedStep
<1> QED BY <1>1, <1>2, <1>3 DEF AccessInv

LEMMA Invariance == Spec => []AccessInv
<1> QED BY InitAccess, AccessStep, PTL DEF Spec

(***************************************************************************)
(* The theorems.                                                           *)
(***************************************************************************)

\* The variables have their types; an answer has names of the kind asked for only.
THEOREM TypeCorrect == Spec => []TypeOK
<1>1. AccessInv => TypeOK
  <2> SUFFICES ASSUME AccessInv PROVE TypeOK
    OBVIOUS
  <2> USE DEF AccessInv
  <2>1. DOMAIN userTokens \subseteq Tokens
    BY UserFacts
  <2>2. ASSUME NEW k \in Kinds, method = ListMethod(k) PROVE result \subseteq Items[k]
    <3>1. {j \in Kinds : method = ListMethod(j)} = {k}
      BY <2>2, ListMethods
    <3>2. Listed = Items[k]
      BY <3>1 DEF Listed
    <3>3. result \in {{}, Listed, Shown}
      BY DEF Served, Asked, Identity, Stages, Ends
    <3> QED BY <3>2, <3>3 DEF Shown
  <2> QED BY <2>1, <2>2 DEF TypeOK, Made, Asked, Identity, Stages
<1> QED BY <1>1, Invariance, PTL

\* Nobody is admitted who has not proved to be this user, whatever the
\* configuration, the identity provider and its failures.
THEOREM Proved == Spec => []IdentityProved
<1>1. AccessInv => IdentityProved
  BY DEF AccessInv, Identity
<1> QED BY <1>1, Invariance, PTL

\* No request with a configured token is turned away as unauthorized.
THEOREM TokensOpen == Spec => []TokenHelps
<1>1. AccessInv => TokenHelps
  BY DEF AccessInv, Identity
<1> QED BY <1>1, Invariance, PTL

\* A list shows what its reader may use, and a call passes exactly if it may: the
\* filter of lists and the check of calls agree with the rules of the configuration,
\* for all patterns, groups and names.
THEOREM ListsAgree == Spec => []ListedIsUsable
<1>1. AccessInv => ListedIsUsable
  <2> SUFFICES ASSUME AccessInv, RulesEnabled, NEW k \in Kinds \ {"templates"}
               PROVE  /\ at = "served" /\ method = ListMethod(k)
                             => result = {n \in Items[k] : May(user, UseMethod(k), n)}
                      /\ at = "served" /\ method = UseMethod(k) => May(user, method, name)
                      /\ at = "denied" /\ method = UseMethod(k) /\ user # None
                             => ~May(user, method, name)
    BY DEF ListedIsUsable
  <2> USE DEF AccessInv
  <2>1. ListMethod(k) # <<>> /\ UseMethod(k) # <<>> /\ UseMethod(k) \notin Handshakes
    BY DEF ListMethod, UseMethod, Handshakes
  <2>2. user # None => user \in Everyone
    BY DEF Identity
  <2>3. user # None => \A m \in Seq(MethodWords) : \A n :
                           Enforce(user, m, n) <=> May(user, m, n)
    BY <2>2, EnforceIsMay
  <2>4. ASSUME at = "served", method = ListMethod(k)
        PROVE  result = {n \in Items[k] : May(user, UseMethod(k), n)}
    <3>1. site = "mcp" /\ user # None
      BY <2>1, <2>4 DEF Served, Asked
    <3>2. Listed = Items[k]
      <4>1. {j \in Kinds : method = ListMethod(j)} = {k}
        BY <2>4, ListMethods
      <4> QED BY <4>1 DEF Listed
    <3>3. \A j \in Kinds : method = FilteredAs(j) <=> j = k
      BY <2>4, ListMethods
    <3>4. Shown = {n \in Items[k] : Enforce(user, UseMethod(k), n)}
      BY <3>2, <3>3 DEF Shown
    <3>5. \A n : Enforce(user, UseMethod(k), n) <=> May(user, UseMethod(k), n)
      BY <2>3, <3>1, UseMethods
    <3>6. result = Shown
      BY <2>4, <3>1 DEF Served
    <3> QED BY <3>4, <3>5, <3>6
  <2>5. at = "served" /\ method = UseMethod(k) => May(user, method, name)
    <3> SUFFICES ASSUME at = "served", method = UseMethod(k) PROVE May(user, method, name)
      OBVIOUS
    <3>1. site = "mcp" /\ user # None
      BY <2>1 DEF Served, Asked
    <3>2. Enforce(user, method, name)
      BY <2>1, <3>1 DEF Served
    <3> QED BY <2>3, <3>1, <3>2, UseMethods
  <2>6. at = "denied" /\ method = UseMethod(k) /\ user # None => ~May(user, method, name)
    BY <2>3, UseMethods DEF Served
  <2> QED BY <2>4, <2>5, <2>6
<1> QED BY <1>1, Invariance, PTL

=============================================================================
