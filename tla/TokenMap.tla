------------------------------ MODULE TokenMap ------------------------------
(***************************************************************************)
(* What the token store promises to its callers: a map from upstream names *)
(* to tokens.  Every call takes effect at one moment between its beginning *)
(* and its return, or it fails and has no effect; a crash forgets the      *)
(* calls and not the map.                                                  *)
(***************************************************************************)

CONSTANTS
    Callers, Names, Tokens,
    NoToken,      \* The map has no token for a name.
    NoRequest,
    Unreadable    \* The map cannot be read: no call succeeds.

VARIABLES
    map,     \* [Names -> Tokens \cup {NoToken}], or Unreadable.
    call     \* Each caller: its request, how far it is, and what a load has read.

vars == <<map, call>>

Maps == [Names -> Tokens \cup {NoToken}]
Requests == [op : {"save", "delete", "load"}, name : Names, token : Tokens]
Idle == [at |-> "idle", request |-> NoRequest, read |-> Unreadable]

\* The map after a request.
Effect(m, request) ==
    CASE request.op = "save"   -> [m EXCEPT ![request.name] = request.token]
      [] request.op = "delete" -> [m EXCEPT ![request.name] = NoToken]
      [] request.op = "load"   -> m

Init == map \in Maps \cup {Unreadable} /\ call = [c \in Callers |-> Idle]

Begin(c) ==
    /\ call[c] = Idle
    /\ \E r \in Requests :
           call' = [call EXCEPT ![c] = [at |-> "pending", request |-> r, read |-> Unreadable]]
    /\ UNCHANGED map

\* A call that is under way ends.
Ends(c, result, read) ==
    /\ call[c].at = "pending"
    /\ call' = [call EXCEPT ![c] = [at |-> result, request |-> call[c].request, read |-> read]]

Succeed(c) ==
    /\ Ends(c, "ok", IF call[c].request.op = "load" THEN map ELSE Unreadable)
    /\ map # Unreadable
    /\ map' = Effect(map, call[c].request)

Refuse(c) == Ends(c, "failed", Unreadable) /\ UNCHANGED map

Return(c) ==
    /\ call[c].at \in {"ok", "failed"}
    /\ call' = [call EXCEPT ![c] = Idle]
    /\ UNCHANGED map

Crash == call' = [c \in Callers |-> Idle] /\ UNCHANGED map

Next == Crash \/ \E c \in Callers : Begin(c) \/ Succeed(c) \/ Refuse(c) \/ Return(c)

Spec == Init /\ [][Next]_vars

=============================================================================
