------------------------------- MODULE Access -------------------------------
(***************************************************************************)
(* Who may do what: one request, from its credentials to its answer.       *)
(*                                                                         *)
(* The configuration is checked (pkg/config/config.go), an Authenticator   *)
(* and an Authorizer are made of it (pkg/auth/authenticator.go and         *)
(* authorizer.go, for one endpoint), and the request passes them: session, *)
(* bearer token, identity provider, static tokens; then the rules of the   *)
(* user's groups, the handler and the filter of lists, or the admin check  *)
(* (admin.go).  Where the session comes from is in OidcLogin.              *)
(*                                                                         *)
(* Names, methods and patterns are sequences of words: "tools/list" is     *)
(* <<"tools/", "list">>, "calc_*" is <<"calc_", "*">>, and "" is <<>>.     *)
(***************************************************************************)
EXTENDS SequencesExt

CONSTANTS
    Everyone,   \* Users, configured or not.
    Tokens,     \* Bearer tokens.
    Jwts,       \* Those that look like a JWT.
    Subject,    \* Each token: the user the identity provider has issued it to, or
    None,       \* none.  No user, no token.
    Malformed,  \* An Authorization header without "Bearer ".
    Configs,    \* The configurations to look at,
    Rules,      \* the rules in them, and
    Items       \* what the upstream has: a set of names for each of Kinds.

Kinds == {"tools", "resources", "templates", "prompts"}

\* A configuration: the users with their static tokens; groups and their members;
\* "auth" of the endpoint, rules per group; the groups of administrators; "auth" of
\* the server, with require_user_in_config.
IsConfig(c) ==
    /\ c.tokenOf \in [DOMAIN c.tokenOf -> Tokens]
    /\ DOMAIN c.tokenOf \subseteq Everyone
    /\ \A g \in DOMAIN c.groups : c.groups[g] \subseteq Everyone
    /\ \A g \in DOMAIN c.auth : c.auth[g] \subseteq Rules
    /\ c.type \in {"", "token", "oidc"} /\ c.strict \in BOOLEAN

ASSUME AccessAssumption ==
    /\ Jwts \subseteq Tokens
    /\ Subject \in [Tokens -> Everyone \cup {None}]
    /\ None \notin Everyone \cup Tokens /\ Malformed \notin Tokens \cup {None}
    /\ \A c \in Configs : IsConfig(c)
    /\ \A r \in Rules : r.method \in Seq(STRING) /\ r.allow \subseteq Seq(STRING)
    /\ DOMAIN Items = Kinds

VARIABLES
    config,      \* The configuration of this run.
    provider,    \* Whether the Authenticator has an OIDC provider.
    userTokens,  \* Its static tokens, with the user of each.
    groupings,   \* The Authorizer: user and group,
    policies,    \* and group, method and name.
    session,     \* The request: the user of its session,
    header,      \* its bearer token,
    site,        \* the MCP endpoint or the admin one,
    at,          \* how far it has come, or how it has ended;
    user,        \* who it is,
    method,      \* what it asks for,
    name,
    result       \* and the names in its answer.

made == <<config, provider, userTokens, groupings, policies>>
asked == <<session, header, site>>
vars == <<made, asked, at, user, method, name, result>>

(***************************************************************************)
(* Start: Validate, NewAuthenticator, NewAuthorizer.                       *)
(***************************************************************************)
Users(c) == DOMAIN c.tokenOf

Valid(c) ==
    /\ \A g \in DOMAIN c.groups : c.groups[g] \subseteq Users(c)
    /\ c.admin \subseteq DOMAIN c.groups
    /\ DOMAIN c.auth \subseteq DOMAIN c.groups

\* The rules of all groups in one list.  (Groups have names here: NewAuthorizer would
\* leave out the rules of one whose name is empty.)
AuthRules(c) == {[group |-> g, rule |-> r] : g \in DOMAIN c.auth, r \in Rules}
AuthRulesOf(c) == {a \in AuthRules(c) : a.rule \in c.auth[a.group]}

Groupings(c) == {gp \in Everyone \X DOMAIN c.groups : gp[1] \in c.groups[gp[2]]}
AnyMethod == <<"*">>
Policies(c) ==
    UNION {{[group |-> a.group, name |-> pattern,
             method |-> IF a.rule.method = <<>> THEN AnyMethod ELSE a.rule.method]
                : pattern \in a.rule.allow} : a \in AuthRulesOf(c)}

\* Two users with one token: the map of tokens keeps one of them.
TokenTables(c) ==
    {table \in [{c.tokenOf[u] : u \in Users(c)} -> Users(c)] :
        \A t \in DOMAIN table : c.tokenOf[table[t]] = t}

AuthEnabled == Users(config) # {} \/ config.type # ""
RulesEnabled == AuthRulesOf(config) # {}

\* getUserFromJWT: the user in the claims, who must be configured in strict mode.
AnySubject(u) == u # None    \* Mutant: require_user_in_config is not looked at.
Mapped(u) == u # None /\ (config.strict => u \in Users(config))

\* Sessions are in the store of the admin endpoint only; their users were mapped
\* when they logged in.
Init ==
    /\ config \in {c \in Configs : Valid(c)}
    /\ provider \in IF config.type = "oidc" THEN BOOLEAN ELSE {FALSE}
    /\ userTokens \in TokenTables(config)
    /\ groupings = Groupings(config) /\ policies = Policies(config)
    /\ site \in {"mcp", "admin"}
    /\ session \in {None} \cup IF provider /\ site = "admin" THEN {u \in Everyone : Mapped(u)}
                                                           ELSE {}
    /\ header \in Tokens \cup {Malformed, None}
    /\ at = "middleware"
    /\ user = None /\ method = <<>> /\ name = <<>> /\ result = {}

-----------------------------------------------------------------------------
(***************************************************************************)
(* The Authenticator.                                                      *)
(***************************************************************************)
Goes(stage) == at' = stage /\ UNCHANGED <<made, asked, user, method, name, result>>
Admits(u) ==
    /\ at' = IF site = "mcp" THEN "receive" ELSE "admin"
    /\ user' = u
    /\ UNCHANGED <<made, asked, method, name, result>>

Middleware ==
    /\ at = "middleware"
    /\ IF AuthEnabled THEN Goes("session") ELSE Admits(None)

CheckSession ==
    /\ at = "session"
    /\ IF session # None THEN Admits(session) ELSE Goes("header")

CheckHeader ==
    /\ at = "header"
    /\ Goes(IF header \notin Tokens THEN "unauthorized"
            ELSE IF ~provider THEN "static"
            ELSE IF header \in Jwts THEN "jwt" ELSE "introspect")

\* The provider may also not be reached.
ValidateJWT ==
    /\ at = "jwt"
    /\ \/ Mapped(Subject[header]) /\ Admits(Subject[header])
       \/ Goes("introspect")

NoFallback ==    \* Mutant: what the provider refuses is refused.
    /\ at = "introspect"
    /\ \/ Mapped(Subject[header]) /\ Admits(Subject[header])
       \/ Goes("unauthorized")
IntrospectToken ==
    /\ at = "introspect"
    /\ \/ Mapped(Subject[header]) /\ Admits(Subject[header])
       \/ Goes("static")

StaticToken ==
    /\ at = "static"
    /\ IF header \in DOMAIN userTokens THEN Admits(userTokens[header]) ELSE Goes("unauthorized")

(***************************************************************************)
(* The Authorizer: the middleware of an endpoint's MCP server.             *)
(***************************************************************************)
Handshakes == {<<"initialize">>, <<"notifications/initialized">>, <<"ping">>}
Slash == [tools |-> "tools/", resources |-> "resources/", prompts |-> "prompts/"]
ListMethod(k) == IF k = "templates" THEN <<"resources/", "templates/", "list">>
                 ELSE <<Slash[k], "list">>
UseMethod(k) == CASE k = "tools" -> <<"tools/", "call">>
                  [] k = "prompts" -> <<"prompts/", "get">>
                  [] OTHER -> <<"resources/", "read">>

\* The lists the filter knows; it has a name of its own for that of templates.
FilteredAs(k) == IF k = "templates" THEN <<"resource_templates/", "list">> ELSE ListMethod(k)

\* What a client may ask for: a method with the name extractResourceName finds: none in a list.
Calls ==
    {<<m, <<>>>> : m \in Handshakes \cup {ListMethod(k) : k \in Kinds}}
        \cup UNION {{<<UseMethod(k), n>> : n \in Items[k]} : k \in Kinds}

Receive ==
    /\ at = "receive"
    /\ \E call \in Calls : method' = call[1] /\ name' = call[2]
    /\ at' = "authorize"
    /\ UNCHANGED <<made, asked, user, result>>

PrefixMatch(str, pattern) ==
    IF pattern # <<>> /\ Last(pattern) = "*" THEN IsPrefix(Front(pattern), str) ELSE str = pattern

Enforce(u, m, n) ==
    \E p \in policies :
        /\ <<u, p.group>> \in groupings
        /\ PrefixMatch(m, p.method)
        /\ PrefixMatch(n, p.name)

Authorize ==
    /\ at = "authorize"
    /\ Goes(IF ~RulesEnabled THEN "handle"
            ELSE IF user = None THEN "denied"
            ELSE IF method \in Handshakes \/ Enforce(user, method, name) THEN "handle"
            ELSE "denied")

AnswerAll ==    \* Mutant: names of other kinds get into the answer.
    /\ at = "handle"
    /\ at' = "filter"
    /\ result' = UNION {Items[k] : k \in Kinds}
    /\ UNCHANGED <<made, asked, user, method, name>>
\* A list has all names of its kind, whatever the user may do with them.
Handle ==
    /\ at = "handle"
    /\ at' = "filter"
    /\ result' = UNION {Items[k] : k \in {k \in Kinds : method = ListMethod(k)}}
    /\ UNCHANGED <<made, asked, user, method, name>>

FilterByList ==    \* Mutant: the right to list is asked for, not the right to use.
    /\ at = "filter"
    /\ at' = "served"
    /\ result' = IF RulesEnabled /\ user # None
                   THEN {n \in result : \A k \in Kinds : method = FilteredAs(k)
                                            => Enforce(user, ListMethod(k), n)}
                   ELSE result
    /\ UNCHANGED <<made, asked, user, method, name>>
Filter ==
    /\ at = "filter"
    /\ at' = "served"
    /\ result' = IF RulesEnabled /\ user # None
                   THEN {n \in result : \A k \in Kinds : method = FilteredAs(k)
                                            => Enforce(user, UseMethod(k), n)}
                   ELSE result
    /\ UNCHANGED <<made, asked, user, method, name>>

\* AdminAuthorizer, in front of the status page.
AdminCheck ==
    /\ at = "admin"
    /\ Goes(IF user = None THEN "unauthorized"
            ELSE IF \E g \in config.admin : user \in config.groups[g] THEN "served"
            ELSE "forbidden")

Next ==
    \/ Middleware \/ CheckSession \/ CheckHeader \/ ValidateJWT \/ IntrospectToken \/ StaticToken
    \/ Receive \/ Authorize \/ Handle \/ Filter \/ AdminCheck

Spec == Init /\ [][Next]_vars

-----------------------------------------------------------------------------
(***************************************************************************)
(* Properties.                                                             *)
(***************************************************************************)
Ends == {"unauthorized", "denied", "forbidden", "served"}
TypeOK ==
    /\ config \in Configs /\ provider \in BOOLEAN
    /\ DOMAIN userTokens \subseteq Tokens
    /\ session \in Everyone \cup {None} /\ header \in Tokens \cup {Malformed, None}
    /\ site \in {"mcp", "admin"}
    /\ at \in Ends \cup {"middleware", "session", "header", "jwt", "introspect", "static",
                         "receive", "authorize", "handle", "filter", "admin"}
    /\ user \in Everyone \cup {None}
    /\ \A k \in Kinds : method = ListMethod(k) => result \subseteq Items[k]

Admitted == at \in {"receive", "authorize", "handle", "filter", "admin",
                    "denied", "forbidden", "served"}

\* Who is admitted has proved it: with a session, with a token of the identity
\* provider or with the static token of this very user; and without a provider,
\* or if users must be configured, it is a configured user.
IdentityProved ==
    Admitted /\ AuthEnabled =>
        /\ user # None
        /\ \/ user = session
           \/ header \in Tokens /\ provider /\ user = Subject[header]
           \/ header \in Tokens /\ user \in Users(config) /\ config.tokenOf[user] = header
        /\ ~provider \/ config.strict => user \in Users(config)

\* A configured token opens the door whatever the identity provider makes of it,
\* and also while it cannot be reached.
TokenHelps ==
    at = "unauthorized" => \A u \in Users(config) : config.tokenOf[u] # header

\* Authorization Rules of README.md, as far as the code keeps them: what the rules of
\* the groups allow that the configuration puts a user in.  The groups in a JWT
\* (README.md:285) are not looked at, and "allow" of a list (README.md:234) is held
\* against the empty name: "calc_*" does not allow tools/list.
May(u, m, n) ==
    \E g \in DOMAIN config.auth : u \in config.groups[g] /\ \E r \in config.auth[g] :
        /\ r.method = <<>> \/ PrefixMatch(m, r.method)
        /\ \E pattern \in r.allow : PrefixMatch(n, pattern)

\* README.md:238-239, "users only see items they are allowed to call", and the other
\* calls are rejected: a list that is served has those names exactly for which the
\* rules let a call pass, and calls are served or denied accordingly.  The list of
\* resource templates is excepted, which the filter does not know.
ListedIsUsable ==
    RulesEnabled => \A k \in Kinds \ {"templates"} :
        /\ at = "served" /\ method = ListMethod(k)
               => result = {n \in Items[k] : May(user, UseMethod(k), n)}
        /\ at = "served" /\ method = UseMethod(k) => May(user, method, name)
        /\ at = "denied" /\ method = UseMethod(k) /\ user # None => ~May(user, method, name)

=============================================================================
