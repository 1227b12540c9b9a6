-------------------------- MODULE SessionLifecycle --------------------------
(***************************************************************************)
(* What the client of one upstream promises about sessions, whatever its   *)
(* goroutines do: at most one session is open at a time, a session is      *)
(* opened only when there is none to serve, published once, served until   *)
(* a request on that very session has failed, and closed when it is        *)
(* dropped.  Shutting down may close the session that is being served.     *)
(***************************************************************************)
EXTENDS Naturals

VARIABLES
    current,   \* The session that serves requests, None if there is none.
    live,      \* The open sessions.
    opened,    \* How many sessions were ever opened.
    faulty     \* The sessions on which a request has failed.

vars == <<current, live, opened, faulty>>

None == 0

Init == current = None /\ live = {} /\ opened = 0 /\ faulty = {}

Open ==
    /\ current = None
    /\ live = {}
    /\ opened' = opened + 1
    /\ live' = {opened + 1}
    /\ UNCHANGED <<current, faulty>>

Publish ==
    /\ current = None
    /\ live = {opened}
    /\ current' = opened
    /\ UNCHANGED <<live, opened, faulty>>

Fail ==
    /\ \E s \in 1 .. opened : faulty' = faulty \cup {s}
    /\ UNCHANGED <<current, live, opened>>

Drop ==
    /\ current \in faulty
    /\ current' = None
    /\ live' = {}
    /\ UNCHANGED <<opened, faulty>>

Shut ==
    /\ current # None
    /\ live' = {}
    /\ UNCHANGED <<current, opened, faulty>>

Next == Open \/ Publish \/ Fail \/ Drop \/ Shut

Spec == Init /\ [][Next]_vars

=============================================================================
