------------------------------ MODULE MCAccess ------------------------------
(***************************************************************************)
(* Configurations and names for TLC.                                       *)
(***************************************************************************)
EXTENDS Access

CONSTANTS alice, bob, carol, ta, tb, idOfCarol, idOfAlice

\* The identity provider knows Alice and Carol, who is not configured.
SubjectOf == [t \in Tokens |-> CASE t = idOfAlice -> alice [] t = idOfCarol -> carol
                                  [] OTHER -> None]

Star == <<"*">>
Add == <<"calc_", "add">>
Sub == <<"calc_", "sub">>
Hello == <<"hello">>

MCItems == [tools |-> {Add, Sub, Hello}, resources |-> {Hello}, templates |-> {Add},
            prompts |-> {Sub}]

\* Lists of everything, calls of one group of tools, all of tools, anything by name, and
\* a rule that allows nothing.
MayList == [method |-> ListMethod("tools"), allow |-> {Star}]
MayCalc == [method |-> UseMethod("tools"), allow |-> {<<"calc_", "*">>}]
MayTool == [method |-> <<"tools/", "*">>, allow |-> {Star, Hello}]
MayHello == [method |-> <<>>, allow |-> {<<>>, Hello}]
MayNothing == [method |-> Star, allow |-> {}]
MCRules == {MayList, MayCalc, MayTool, MayHello, MayNothing}

NoUsers == [u \in {} |-> ta]
OneUser == [u \in {alice} |-> ta]
TwoUsers == [u \in {alice, bob} |-> IF u = alice THEN ta ELSE tb]
OneTokenForTwo == [u \in {alice, bob} |-> ta]

Groups1 == [devs |-> {alice}, ops |-> {alice, bob}]
Groups2 == [devs |-> {alice}, ops |-> {}]

Auths ==
    {[g \in {} |-> {}]} \cup [{"devs"} -> {{}, {MayNothing}, {MayList, MayCalc}, {MayHello}}]
        \cup [{"devs", "ops"} -> {{MayList}, {MayCalc}, {MayTool}, {MayNothing, MayHello}}]

MCConfigs ==
    [tokenOf : {NoUsers, OneUser, TwoUsers, OneTokenForTwo},
     groups : {Groups1, Groups2, [devs |-> {}, ops |-> {}]}, auth : Auths,
     admin : {{}, {"ops"}}, type : {"", "token", "oidc"}, strict : BOOLEAN]

=============================================================================
