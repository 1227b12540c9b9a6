--------------------------- MODULE MCProxyRefresh ---------------------------
(***************************************************************************)
(* Finite instances of ProxyRefresh for TLC.                               *)
(***************************************************************************)
EXTENDS ProxyRefresh, TLC

CONSTANTS c1, c2, l1, l2

OneClient == [l \in {l1} |-> c1]
TwoClients == (l1 :> c1) @@ (l2 :> c2)

\* Prefixes that keep the names of two upstreams apart.  "a" and "a_b" would not:
\* "a" with "b_x" and "a_b" with "x" are both "a_b_x".
Apart == [l \in Links |-> IF l = l1 THEN <<"a">> ELSE <<"b">>]

ASSUME PrefixesApart == NamesApart

OneTool == ("tools" :> {<<"x">>})
ToolAndTemplate ==
    ("tools" :> {<<"x">>}) @@ ("resources" :> {}) @@ ("templates" :> {<<"s", "://", "x">>})

\* The capabilities: the first of two upstreams may have resources as well.
Tools == [c \in {c1, c2} |-> <<"tools">>]
ResourcesOnly == [c \in {c1} |-> <<"resources", "templates">>]
MoreOnFirst == (c1 :> <<"tools", "resources", "templates">>) @@ (c2 :> <<"tools">>)

=============================================================================
