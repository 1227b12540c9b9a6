----------------------------- MODULE TokenStore -----------------------------
(***************************************************************************)
(* tokens.json (pkg/auth/token_store.go): the tokens of the upstreams,     *)
(* kept across restarts.  Save and Delete read the file, change one entry  *)
(* and write all of it to a temporary file that they rename; Load reads.   *)
(* A mutex serialises them; every file operation may fail, and the process *)
(* may end between any two of them.                                        *)
(***************************************************************************)
EXTENDS Naturals

CONSTANTS
    Callers,      \* The goroutines that use the store.
    Names,        \* The names of upstreams.
    Tokens,       \* The tokens that may be stored.
    NoToken,      \* The file has no token for a name.
    NoRequest,    \* A caller has no request under way.
    Absent,       \* There is no file.
    Malformed,    \* The file is not the JSON it should be.
    MaxCrashes    \* Bound: how often the process ends.

ASSUME StoreAssumption ==
    /\ NoToken \notin Tokens
    /\ NoRequest \notin [op : {"save", "delete", "load"}, name : Names, token : Tokens]
    /\ Absent \notin [Names -> Tokens \cup {NoToken}]
    /\ Malformed \notin [Names -> Tokens \cup {NoToken}] \cup {Absent}
    /\ MaxCrashes \in Nat

VARIABLES
    file,      \* tokens.json: Absent, Malformed, or what it maps the names to.
    temps,     \* The number of temporary files beside it.
    locked,    \* The mutex.
    caller,    \* Each goroutine: its stage, its request, and the map it has in memory.
    crashes

vars == <<file, temps, locked, caller, crashes>>

Maps == [Names -> Tokens \cup {NoToken}]
Requests == [op : {"save", "delete", "load"}, name : Names, token : Tokens]
Empty == [n \in Names |-> NoToken]

Critical == {"load", "create", "write", "rename"}
Stages == Critical \cup {"idle", "lock", "ok", "failed"}
Idle == [at |-> "idle", request |-> NoRequest, tokens |-> Malformed]

Init ==
    /\ file \in Maps \cup {Absent, Malformed}
    /\ temps = 0
    /\ locked = FALSE
    /\ caller = [c \in Callers |-> Idle]
    /\ crashes = 0

-----------------------------------------------------------------------------
At(c, stage) == caller[c].at = stage
Goes(c, stage) == caller' = [caller EXCEPT ![c].at = stage]

\* The deferred Unlock runs on every return.
EndsLocked(c, result) == Goes(c, result) /\ UNCHANGED locked  \* Mutant: no deferred Unlock.
Ends(c, result) == Goes(c, result) /\ locked' = FALSE

Begin(c) ==
    /\ At(c, "idle")
    /\ \E r \in Requests :
           caller' = [caller EXCEPT ![c] = [Idle EXCEPT !.at = "lock", !.request = r]]
    /\ UNCHANGED <<file, temps, locked, crashes>>

LockIgnored(c) ==    \* Mutant: the mutex is not taken.
    /\ At(c, "lock")
    /\ Goes(c, "load")
    /\ UNCHANGED <<file, temps, locked, crashes>>
Lock(c) ==
    /\ At(c, "lock")
    /\ ~locked
    /\ locked' = TRUE
    /\ Goes(c, "load")
    /\ UNCHANGED <<file, temps, crashes>>

\* loadLocked: a file that does not exist is an empty map.
Content == IF file = Absent THEN Empty ELSE file

\* Save and Delete change their entry of the map they have read.
Updated(tokens, request) ==
    CASE request.op = "save"   -> [tokens EXCEPT ![request.name] = request.token]
      [] request.op = "delete" -> [tokens EXCEPT ![request.name] = NoToken]
      [] request.op = "load"   -> tokens

\* The file is read; a Load is done, the others go on to write.
ReadFile(c) ==
    LET isLoad == caller[c].request.op = "load"
    IN  /\ At(c, "load")
        /\ file # Malformed
        /\ caller' = [caller EXCEPT ![c].tokens = Updated(Content, caller[c].request),
                                    ![c].at = IF isLoad THEN "ok" ELSE "create"]
        /\ locked' = ~isLoad
        /\ UNCHANGED <<file, temps, crashes>>

CreateTemp(c) ==
    /\ At(c, "create")
    /\ temps' = temps + 1
    /\ Goes(c, "write")
    /\ UNCHANGED <<file, locked, crashes>>

\* The file cannot be read or parsed, or no temporary file can be created.
RemovesAnyway(c) ==    \* Mutant: removes a temporary file that was not created.
    /\ At(c, "load") \/ At(c, "create")
    /\ temps' = temps - 1
    /\ Ends(c, "failed")
    /\ UNCHANGED <<file, crashes>>
FailsEarly(c) ==
    /\ At(c, "load") \/ At(c, "create")
    /\ Ends(c, "failed")
    /\ UNCHANGED <<file, temps, crashes>>

\* The temporary file is written and closed.
WriteInPlace(c) ==    \* Mutant: tokens.json itself is written, piece by piece.
    /\ At(c, "write")
    /\ file' = Malformed
    /\ Goes(c, "rename")
    /\ UNCHANGED <<temps, locked, crashes>>
WriteTemp(c) ==
    /\ At(c, "write")
    /\ Goes(c, "rename")
    /\ UNCHANGED <<file, temps, locked, crashes>>

Rename(c) ==
    /\ At(c, "rename")
    /\ file' = caller[c].tokens
    /\ temps' = temps - 1
    /\ Ends(c, "ok")
    /\ UNCHANGED crashes

\* Write, Close or Rename fails: the temporary file is removed.
TempForgotten(c) ==    \* Mutant: it is not removed.
    /\ At(c, "write") \/ At(c, "rename")
    /\ Ends(c, "failed")
    /\ UNCHANGED <<file, temps, crashes>>
FailsLate(c) ==
    /\ At(c, "write") \/ At(c, "rename")
    /\ temps' = temps - 1
    /\ Ends(c, "failed")
    /\ UNCHANGED <<file, crashes>>

Return(c) ==
    /\ At(c, "ok") \/ At(c, "failed")
    /\ caller' = [caller EXCEPT ![c] = Idle]
    /\ UNCHANGED <<file, temps, locked, crashes>>

\* The process ends and is started again: only the files are left.
Crash ==
    /\ crashes < MaxCrashes
    /\ crashes' = crashes + 1
    /\ locked' = FALSE
    /\ caller' = [c \in Callers |-> Idle]
    /\ UNCHANGED <<file, temps>>

Works(c) ==
    \/ ReadFile(c) \/ CreateTemp(c) \/ WriteTemp(c) \/ Rename(c)
    \/ FailsEarly(c) \/ FailsLate(c) \/ Return(c)

Next == Crash \/ \E c \in Callers : Begin(c) \/ Lock(c) \/ Works(c)

Spec == Init /\ [][Next]_vars

\* File operations end; sync.Mutex is handed to a goroutine that has waited
\* for a millisecond, so that no waiter starves.
Fairness == \A c \in Callers : WF_vars(Works(c)) /\ SF_vars(Lock(c))

FairSpec == Spec /\ Fairness

-----------------------------------------------------------------------------
(***************************************************************************)
(* Properties.                                                             *)
(***************************************************************************)
TypeOK ==
    /\ file \in Maps \cup {Absent, Malformed}
    /\ temps \in Nat
    /\ locked \in BOOLEAN
    /\ caller \in [Callers -> [at : Stages, request : Requests \cup {NoRequest},
                               tokens : Maps \cup {Malformed}]]
    /\ crashes \in 0 .. MaxCrashes

\* The mutex is held exactly while one goroutine is between Lock and Unlock.
MutualExclusion ==
    /\ locked <=> \E c \in Callers : caller[c].at \in Critical
    /\ \A c, d \in Callers :
           caller[c].at \in Critical /\ caller[d].at \in Critical => c = d

\* What a goroutine is about to write is the file with its own entry changed:
\* no entry another one has saved is lost.
NothingStale ==
    \A c \in Callers : caller[c].at \in {"create", "write", "rename"} =>
        /\ file # Malformed
        /\ caller[c].request.op # "load"
        /\ caller[c].tokens = Updated(Content, caller[c].request)

\* The strengthening of the refinement that every step preserves.
StoreInv ==
    /\ MutualExclusion
    /\ NothingStale
    /\ \A c \in Callers :
           caller[c].at = "idle" <=> caller[c].request = NoRequest
    /\ \A c \in Callers : caller[c].at \in {"idle", "lock", "load"}
                              => caller[c].tokens = Malformed
    /\ \A c \in Callers : caller[c].at = "ok" => caller[c].tokens # Malformed
    /\ \A c \in Callers : caller[c].at \in {"write", "rename"} => temps > 0

\* Temporary files do not accumulate: besides the one being written there are
\* no more than the process has died while writing.
LitterOnlyAfterCrash ==
    temps <= crashes + (IF \E c \in Callers : caller[c].at \in {"write", "rename"}
                        THEN 1 ELSE 0)

\* The comment of Save: read-merge-write with atomic rename.  For its callers
\* the store is a map, whatever fails and wherever the process ends.
Stage(c) == IF caller[c].at \in Critical \cup {"lock"} THEN "pending" ELSE caller[c].at
Seen(c) ==
    [at |-> Stage(c), request |-> caller[c].request,
     read |-> IF caller[c].at = "ok" /\ caller[c].request.op = "load"
              THEN caller[c].tokens ELSE Malformed]
Map == INSTANCE TokenMap WITH
    map <- Content, call <- [c \in Callers |-> Seen(c)], Unreadable <- Malformed
MapSpec == Map!Spec

\* Every call returns, whatever the other callers do and whatever fails.
CallsReturn == \A c \in Callers : caller[c].at # "idle" ~> caller[c].at = "idle"

=============================================================================
