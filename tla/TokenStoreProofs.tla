-------------------------- MODULE TokenStoreProofs --------------------------
(***************************************************************************)
(* TokenStore keeps its types and its invariant and implements TokenMap,   *)
(* for any callers, names, tokens and number of crashes.                   *)
(***************************************************************************)
EXTENDS TokenStore, TLAPS

Inv == TypeOK /\ StoreInv

Callings == [at : Stages, request : Requests \cup {NoRequest}, tokens : Maps \cup {Malformed}]

LEMMA IdleType == Idle \in Callings
BY DEF Idle, Callings, Stages

LEMMA InitInv == Init => Inv
<1> SUFFICES ASSUME Init PROVE Inv
  OBVIOUS
<1>1. \A c \in Callers : caller[c] = Idle
  BY DEF Init
<1>2. TypeOK
  <2>1. caller \in [Callers -> Callings]
    BY IdleType DEF Init
  <2>2. crashes \in 0 .. MaxCrashes
    BY StoreAssumption DEF StoreAssumption, Init
  <2> QED BY <2>1, <2>2 DEF Init, TypeOK, Callings
<1>3. StoreInv
  BY <1>1 DEF Init, StoreInv, MutualExclusion, NothingStale, Idle, Critical
<1> QED BY <1>2, <1>3 DEF Inv

\* A request applied to a map gives a map.
LEMMA UpdatedType ==
    ASSUME NEW m \in Maps, NEW r \in Requests
    PROVE  Updated(m, r) \in Maps
<1>1. r.op \in {"save", "delete", "load"} /\ r.name \in Names /\ r.token \in Tokens
  BY DEF Requests
<1>2. CASE r.op = "save"   BY <1>1, <1>2 DEF Updated, Maps
<1>3. CASE r.op = "delete" BY <1>1, <1>3 DEF Updated, Maps
<1>4. CASE r.op = "load"   BY <1>1, <1>4 DEF Updated, Maps
<1> QED BY <1>1, <1>2, <1>3, <1>4

\* What loadLocked returns is a map, if it returns at all.
LEMMA ContentType == TypeOK /\ file # Malformed => Content \in Maps
BY DEF TypeOK, Content, Empty, Maps

LEMMA ContentSame == file' = file => Content' = Content
BY DEF Content

\* Maps and the two other states of the file are told apart.
LEMMA Apart == Malformed \notin Maps /\ Absent \notin Maps /\ Absent # Malformed
            /\ NoRequest \notin Requests
BY StoreAssumption DEF Maps, Requests

(***************************************************************************)
(* One step per action: types and invariant together, because a step that  *)
(* decrements temps needs that there is a temporary file.                  *)
(***************************************************************************)
LEMMA StepBegin == ASSUME Inv, NEW c \in Callers, Begin(c) PROVE Inv'
<1>1. PICK r \in Requests :
          caller' = [caller EXCEPT ![c] = [Idle EXCEPT !.at = "lock", !.request = r]]
  BY DEF Begin
<1>2. TypeOK'
  BY <1>1 DEF Inv, TypeOK, Begin, Idle, Stages
<1>3. StoreInv'
  BY <1>1, Apart DEF Inv, TypeOK, StoreInv, MutualExclusion, NothingStale, Begin, At, Idle,
     Critical, Content
<1> QED BY <1>2, <1>3 DEF Inv

LEMMA StepLock == ASSUME Inv, NEW c \in Callers, Lock(c) PROVE Inv'
<1>1. TypeOK'
  BY DEF Inv, TypeOK, Lock, Goes, Stages, Critical
<1>2. StoreInv'
  BY DEF Inv, TypeOK, StoreInv, MutualExclusion, NothingStale, Lock, At, Goes, Critical,
     Content
<1> QED BY <1>1, <1>2 DEF Inv

LEMMA StepReadFile == ASSUME Inv, NEW c \in Callers, ReadFile(c) PROVE Inv'
<1>1. caller[c].request \in Requests
  BY DEF Inv, TypeOK, StoreInv, ReadFile, At
<1>2. Updated(Content, caller[c].request) \in Maps
  BY <1>1, ContentType, UpdatedType DEF Inv, ReadFile
<1> DEFINE isLoad == caller[c].request.op = "load"
<1>3. /\ caller[c].at = "load"
      /\ file # Malformed
      /\ caller' = [caller EXCEPT ![c].tokens = Updated(Content, caller[c].request),
                                  ![c].at = IF isLoad THEN "ok" ELSE "create"]
      /\ locked' = ~isLoad
      /\ UNCHANGED <<file, temps, crashes>>
  BY DEF ReadFile, At
<1>4. TypeOK'
  BY <1>2, <1>3 DEF Inv, TypeOK, Stages, Critical
<1>5. MutualExclusion'
  BY <1>3 DEF Inv, TypeOK, StoreInv, MutualExclusion, Critical
<1>6. NothingStale'
  <2> SUFFICES ASSUME NEW d \in Callers,
                      caller'[d].at \in {"create", "write", "rename"}
               PROVE  /\ file' # Malformed
                      /\ caller'[d].request.op # "load"
                      /\ caller'[d].tokens = Updated(Content', caller'[d].request)
    BY DEF NothingStale
  <2>1. d = c
    BY <1>3 DEF Inv, TypeOK, StoreInv, MutualExclusion, Critical
  <2>2. /\ caller'[c].request = caller[c].request
        /\ caller'[c].tokens = Updated(Content, caller[c].request)
        /\ ~isLoad
    BY <1>3, <2>1 DEF Inv, TypeOK
  <2> QED BY <1>3, <2>1, <2>2, ContentSame
<1>7. StoreInv'
  BY <1>2, <1>3, <1>5, <1>6, Apart DEF Inv, TypeOK, StoreInv
<1> QED BY <1>4, <1>7 DEF Inv

LEMMA StepCreateTemp == ASSUME Inv, NEW c \in Callers, CreateTemp(c) PROVE Inv'
<1>1. TypeOK'
  BY DEF Inv, TypeOK, CreateTemp, Goes, Stages, Critical
<1>2. MutualExclusion'
  BY DEF Inv, TypeOK, StoreInv, MutualExclusion, CreateTemp, At, Goes, Critical
<1>3. NothingStale'
  BY ContentSame DEF Inv, TypeOK, StoreInv, NothingStale, CreateTemp, At, Goes
<1>4. StoreInv'
  BY <1>2, <1>3 DEF Inv, TypeOK, StoreInv, CreateTemp, At, Goes
<1> QED BY <1>1, <1>4 DEF Inv

LEMMA StepWriteTemp == ASSUME Inv, NEW c \in Callers, WriteTemp(c) PROVE Inv'
<1>1. TypeOK'
  BY DEF Inv, TypeOK, WriteTemp, Goes, Stages, Critical
<1>2. MutualExclusion'
  BY DEF Inv, TypeOK, StoreInv, MutualExclusion, WriteTemp, At, Goes, Critical
<1>3. NothingStale'
  BY ContentSame DEF Inv, TypeOK, StoreInv, NothingStale, WriteTemp, At, Goes
<1>4. StoreInv'
  BY <1>2, <1>3 DEF Inv, TypeOK, StoreInv, WriteTemp, At, Goes
<1> QED BY <1>1, <1>4 DEF Inv

\* The goroutine that leaves the critical section was alone in it: what the
\* invariant says of the others inside holds for want of others.
LEMMA Alone ==
    ASSUME Inv, NEW c \in Callers, caller[c].at \in Critical, NEW result \in {"ok", "failed"},
           Ends(c, result)
    PROVE  /\ \A d \in Callers : caller'[d].at \notin Critical
           /\ MutualExclusion'
           /\ NothingStale'
           /\ caller' \in [Callers -> [at : Stages, request : Requests \cup {NoRequest},
                                       tokens : Maps \cup {Malformed}]]
<1>1. \A d \in Callers : caller'[d].at \notin Critical
  BY DEF Inv, TypeOK, StoreInv, MutualExclusion, Ends, Goes, Critical
<1>2. MutualExclusion'
  BY <1>1 DEF MutualExclusion, Ends
<1>3. NothingStale'
  BY <1>1 DEF NothingStale, Critical
<1>4. caller' \in [Callers -> [at : Stages, request : Requests \cup {NoRequest},
                              tokens : Maps \cup {Malformed}]]
  BY DEF Inv, TypeOK, Ends, Goes, Stages
<1> QED BY <1>1, <1>2, <1>3, <1>4

LEMMA StepRename == ASSUME Inv, NEW c \in Callers, Rename(c) PROVE Inv'
<1>1. caller[c].request \in Requests /\ file # Malformed
  BY DEF Inv, TypeOK, StoreInv, NothingStale, Rename, At
<1>2. caller[c].tokens \in Maps
  BY <1>1, ContentType, UpdatedType DEF Inv, StoreInv, NothingStale, Rename, At
<1>3. caller[c].at \in Critical /\ Ends(c, "ok")
  BY DEF Rename, At, Critical
<1>4. temps - 1 \in Nat
  BY DEF Inv, TypeOK, StoreInv, Rename, At
<1>5. TypeOK'
  BY <1>2, <1>3, <1>4, Alone DEF Inv, TypeOK, Rename, Ends
<1>6. /\ \A d \in Callers \ {c} : caller'[d] = caller[d]
      /\ caller'[c] = [caller[c] EXCEPT !.at = "ok"]
  BY <1>3 DEF Inv, TypeOK, Ends, Goes
<1>7. StoreInv'
  BY <1>2, <1>3, <1>6, Alone, Apart DEF Inv, TypeOK, StoreInv, Critical, Rename, At
<1> QED BY <1>5, <1>7 DEF Inv

LEMMA StepFailsEarly == ASSUME Inv, NEW c \in Callers, FailsEarly(c) PROVE Inv'
<1>1. caller[c].at \in Critical /\ Ends(c, "failed")
  BY DEF FailsEarly, At, Critical
<1>2. TypeOK'
  BY <1>1, Alone DEF Inv, TypeOK, FailsEarly, Ends
<1>3. StoreInv'
  BY <1>1, Alone DEF Inv, TypeOK, StoreInv, FailsEarly, At, Ends, Goes, Critical
<1> QED BY <1>2, <1>3 DEF Inv

LEMMA StepFailsLate == ASSUME Inv, NEW c \in Callers, FailsLate(c) PROVE Inv'
<1>1. caller[c].at \in Critical /\ Ends(c, "failed")
  BY DEF FailsLate, At, Critical
<1>2. temps - 1 \in Nat
  BY DEF Inv, TypeOK, StoreInv, FailsLate, At
<1>4. TypeOK'
  BY <1>1, <1>2, Alone DEF Inv, TypeOK, FailsLate, Ends
<1>3. StoreInv'
  BY <1>1, Alone DEF Inv, TypeOK, StoreInv, FailsLate, At, Ends, Goes, Critical
<1> QED BY <1>4, <1>3 DEF Inv

LEMMA StepReturn == ASSUME Inv, NEW c \in Callers, Return(c) PROVE Inv'
<1>1. TypeOK'
  BY DEF Inv, TypeOK, Return, Idle, Stages
<1>2. StoreInv'
  BY ContentSame DEF Inv, TypeOK, StoreInv, MutualExclusion, NothingStale, Return, At, Idle,
     Critical
<1> QED BY <1>1, <1>2 DEF Inv

LEMMA StepCrash == Inv /\ Crash => Inv'
<1> SUFFICES ASSUME Inv, Crash PROVE Inv'
  OBVIOUS
<1>1. TypeOK'
  <2>1. caller' \in [Callers -> Callings]
    BY IdleType DEF Crash
  <2>2. crashes' \in 0 .. MaxCrashes
    BY StoreAssumption DEF StoreAssumption, Inv, TypeOK, Crash
  <2> QED BY <2>1, <2>2 DEF Inv, TypeOK, Crash, Callings
<1>2. \A c \in Callers : caller'[c] = Idle
  BY DEF Crash
<1>3. StoreInv'
  BY <1>2 DEF Crash, StoreInv, MutualExclusion, NothingStale, Idle, Critical
<1> QED BY <1>1, <1>3 DEF Inv

LEMMA InvStep == Inv /\ [Next]_vars => Inv'
<1> SUFFICES ASSUME Inv, [Next]_vars PROVE Inv'
  OBVIOUS
<1>1. CASE UNCHANGED vars
  BY <1>1, ContentSame DEF vars, Inv, TypeOK, StoreInv, MutualExclusion, NothingStale
<1>2. CASE Crash
  BY <1>2, StepCrash
<1>3. ASSUME NEW c \in Callers, Begin(c) \/ Lock(c) \/ Works(c) PROVE Inv'
  BY <1>3, StepBegin, StepLock, StepReadFile, StepCreateTemp, StepWriteTemp, StepRename,
     StepFailsEarly, StepFailsLate, StepReturn DEF Works
<1> QED BY <1>1, <1>2, <1>3 DEF Next

\* The types, and the invariant of the mutex and of the maps in memory, hold in
\* every state.
THEOREM Invariance == Spec => [](TypeOK /\ StoreInv)
<1>1. Init => Inv
  BY InitInv
<1>2. Inv /\ [Next]_vars => Inv'
  BY InvStep
<1>3. Spec => []Inv
  BY <1>1, <1>2, PTL DEF Spec
<1> QED BY <1>3, PTL DEF Inv

\* The variables keep their types: in particular no temporary file is removed
\* twice.
THEOREM TypeCorrect == Spec => []TypeOK
BY Invariance, PTL

\* A goroutine that is about to write has lost no entry another one has saved,
\* and nobody else is between Lock and Unlock.
THEOREM Consistent == Spec => []StoreInv
BY Invariance, PTL

(***************************************************************************)
(* Temporary files.                                                        *)
(***************************************************************************)
Writing == \E c \in Callers : caller[c].at \in {"write", "rename"}

LEMMA LitterSame ==
    ASSUME LitterOnlyAfterCrash, Writing' <=> Writing, UNCHANGED <<temps, crashes>>
    PROVE  LitterOnlyAfterCrash'
BY DEF LitterOnlyAfterCrash, Writing

LEMMA LitterStep == Inv /\ LitterOnlyAfterCrash /\ [Next]_vars => LitterOnlyAfterCrash'
<1> SUFFICES ASSUME Inv, LitterOnlyAfterCrash, [Next]_vars PROVE LitterOnlyAfterCrash'
  OBVIOUS
<1> USE DEF LitterOnlyAfterCrash
<1>1. temps \in Nat /\ crashes \in Nat
  BY StoreAssumption DEF StoreAssumption, Inv, TypeOK
<1>2. CASE UNCHANGED vars
  BY <1>2 DEF vars
<1>3. CASE Crash
  BY <1>1, <1>3 DEF Crash, Idle
<1>4. ASSUME NEW c \in Callers, Begin(c) \/ Lock(c) \/ ReadFile(c) \/ Return(c)
      PROVE  LitterOnlyAfterCrash'
  <2>1. \A d \in Callers : \/ caller'[d] = caller[d]
                           \/ d = c /\ {caller[d].at, caller'[d].at} \cap {"write", "rename"} = {}
    <3>1. CASE Begin(c)    BY <3>1 DEF Inv, TypeOK, Begin, At, Idle
    <3>2. CASE Lock(c)     BY <3>2 DEF Inv, TypeOK, Lock, At, Goes
    <3>3. CASE ReadFile(c) BY <3>3 DEF Inv, TypeOK, ReadFile, At
    <3>4. CASE Return(c)   BY <3>4 DEF Inv, TypeOK, Return, At, Idle
    <3> QED BY <1>4, <3>1, <3>2, <3>3, <3>4
  <2>2. UNCHANGED <<temps, crashes>>
    BY <1>4 DEF Begin, Lock, ReadFile, Return
  <2>3. Writing' <=> Writing
    BY <2>1 DEF Writing
  <2> QED BY <2>2, <2>3, LitterSame
<1>5. ASSUME NEW c \in Callers, CreateTemp(c) PROVE LitterOnlyAfterCrash'
  <2>1. ~Writing
    BY <1>5 DEF Inv, StoreInv, MutualExclusion, Critical, CreateTemp, At, Writing
  <2>2. caller'[c].at = "write"
    BY <1>5 DEF Inv, TypeOK, CreateTemp, Goes
  <2> QED BY <1>1, <1>5, <2>1, <2>2 DEF Writing, CreateTemp
<1>6. ASSUME NEW c \in Callers, WriteTemp(c) PROVE LitterOnlyAfterCrash'
  BY <1>1, <1>6 DEF Inv, TypeOK, WriteTemp, At, Goes
<1>7. ASSUME NEW c \in Callers, FailsEarly(c) PROVE LitterOnlyAfterCrash'
  BY <1>1, <1>7 DEF Inv, TypeOK, FailsEarly, At, Ends, Goes
<1>8. ASSUME NEW c \in Callers, Rename(c) \/ FailsLate(c) PROVE LitterOnlyAfterCrash'
  BY <1>1, <1>8 DEF Inv, TypeOK, Rename, FailsLate, At, Ends, Goes
<1> QED BY <1>2, <1>3, <1>4, <1>5, <1>6, <1>7, <1>8 DEF Next, Works

\* Besides the temporary file that is being written there are no more than the
\* process has died while writing: every failure removes its own.
THEOREM NoLitter == Spec => []LitterOnlyAfterCrash
<1>1. Init => LitterOnlyAfterCrash
  BY DEF Init, LitterOnlyAfterCrash, Idle
<1>2. Inv /\ LitterOnlyAfterCrash /\ [Next]_vars => LitterOnlyAfterCrash'
  BY LitterStep
<1>3. Spec => []Inv
  BY Invariance, PTL DEF Inv
<1> QED BY <1>1, <1>2, <1>3, PTL DEF Spec

(***************************************************************************)
(* The refinement.                                                         *)
(***************************************************************************)
Calls == [c \in Callers |-> Seen(c)]

\* A step of one caller changes what is seen of this caller only.
LEMMA OneCaller ==
    ASSUME NEW c \in Callers, \A d \in Callers \ {c} : caller'[d] = caller[d]
    PROVE  Calls' = [Calls EXCEPT ![c] = Seen(c)']
<1> DEFINE New == [Calls EXCEPT ![c] = Seen(c)']
<1>1. \A d \in Callers \ {c} : Seen(d)' = Seen(d)
  BY DEF Seen, Stage
<1>2. New = [d \in Callers |-> IF d = c THEN Seen(c)' ELSE Seen(d)]
  BY DEF Calls
<1>3. Calls' = [d \in Callers |-> Seen(d)']
  BY DEF Calls
<1> HIDE DEF New
<1>4. Calls' = New
  BY <1>1, <1>2, <1>3
<1> QED BY <1>4 DEF New

LEMMA MapBegin == ASSUME Inv, NEW c \in Callers, Begin(c) PROVE Map!Begin(c)
<1>1. PICK r \in Requests :
          caller' = [caller EXCEPT ![c] = [Idle EXCEPT !.at = "lock", !.request = r]]
  BY DEF Begin
<1>2. Calls[c] = Map!Idle
  BY DEF Inv, StoreInv, Begin, At, Calls, Seen, Stage, Map!Idle, Critical
<1>3. Seen(c)' = [at |-> "pending", request |-> r, read |-> Malformed]
  BY <1>1 DEF Inv, TypeOK, Seen, Stage, Idle, Critical
<1>4. Calls' = [Calls EXCEPT ![c] = Seen(c)']
  BY <1>1, OneCaller DEF Inv, TypeOK
<1>5. Calls' = [Calls EXCEPT ![c] = [at |-> "pending", request |-> r, read |-> Malformed]]
  BY <1>3, <1>4
<1>6. Content' = Content
  BY ContentSame DEF Begin
<1> QED BY <1>2, <1>5, <1>6 DEF Map!Begin, Map!Requests, Requests, Calls

\* Taking the mutex, reading the file in order to write it, and writing the
\* temporary file cannot be seen from outside.
LEMMA MapStutter ==
    ASSUME Inv, NEW c \in Callers,
           \/ Lock(c) \/ CreateTemp(c) \/ WriteTemp(c)
           \/ ReadFile(c) /\ caller[c].request.op # "load"
    PROVE  UNCHANGED <<Content, Calls>>
<1>1. /\ \A d \in Callers \ {c} : caller'[d] = caller[d]
      /\ caller'[c].request = caller[c].request
      /\ caller[c].at \in Critical \cup {"lock"}
      /\ caller'[c].at \in Critical
      /\ file' = file
  <2>1. CASE Lock(c)       BY <2>1 DEF Inv, TypeOK, Lock, At, Goes, Critical
  <2>2. CASE CreateTemp(c) BY <2>2 DEF Inv, TypeOK, CreateTemp, At, Goes, Critical
  <2>3. CASE WriteTemp(c)  BY <2>3 DEF Inv, TypeOK, WriteTemp, At, Goes, Critical
  <2>4. CASE ReadFile(c) /\ caller[c].request.op # "load"
    BY <2>4 DEF Inv, TypeOK, ReadFile, At, Critical
  <2> QED BY <2>1, <2>2, <2>3, <2>4
<1>2. Seen(c)' = Seen(c)
  BY <1>1 DEF Seen, Stage, Critical
<1>3. Calls' = [Calls EXCEPT ![c] = Seen(c)]
  BY <1>1, <1>2, OneCaller
<1> QED BY <1>1, <1>3, ContentSame DEF Calls

\* A call that is pending ends.
LEMMA MapEnds ==
    ASSUME NEW c \in Callers, \A d \in Callers \ {c} : caller'[d] = caller[d],
           NEW result, NEW read,
           Seen(c).at = "pending",
           Seen(c)' = [at |-> result, request |-> Seen(c).request, read |-> read]
    PROVE  Map!Ends(c, result, read)
<1>1. Calls' = [Calls EXCEPT ![c] = Seen(c)']
  BY OneCaller
<1>2. Calls' = [Calls EXCEPT ![c] = [at |-> result, request |-> Seen(c).request, read |-> read]]
  BY <1>1
<1>3. Calls[c] = Seen(c)
  BY DEF Calls
<1>4. Calls' = [Calls EXCEPT ![c] = [at |-> result, request |-> Calls[c].request, read |-> read]]
  BY <1>2, <1>3
<1> QED BY <1>3, <1>4 DEF Map!Ends, Calls

\* Reading the file is the moment at which a Load takes effect.
LEMMA MapLoad ==
    ASSUME Inv, NEW c \in Callers, ReadFile(c), caller[c].request.op = "load"
    PROVE  Map!Succeed(c)
<1>1. /\ \A d \in Callers \ {c} : caller'[d] = caller[d]
      /\ caller'[c].request = caller[c].request
      /\ caller'[c].at = "ok"
      /\ caller'[c].tokens = Content
      /\ caller[c].at = "load"
      /\ file # Malformed
      /\ file' = file
  BY DEF Inv, TypeOK, ReadFile, At, Updated
<1>2. /\ Seen(c) = [at |-> "pending", request |-> caller[c].request, read |-> Malformed]
      /\ Seen(c)' = [at |-> "ok", request |-> caller[c].request, read |-> Content]
  BY <1>1 DEF Seen, Stage, Critical
<1>3. Map!Ends(c, "ok", Content)
  BY <1>1, <1>2, MapEnds
<1>4. Content # Malformed /\ Content' = Content
  BY <1>1, ContentType, ContentSame, Apart DEF Inv
<1>5. Calls[c].request.op = "load"
  BY DEF Calls, Seen
<1> QED BY <1>3, <1>4, <1>5 DEF Map!Succeed, Map!Effect, Calls

\* Renaming the temporary file is the moment at which a Save or a Delete takes
\* effect: what was read is still the content.
LEMMA MapRename == ASSUME Inv, NEW c \in Callers, Rename(c) PROVE Map!Succeed(c)
<1>1. /\ \A d \in Callers \ {c} : caller'[d] = caller[d]
      /\ caller'[c] = [caller[c] EXCEPT !.at = "ok"]
      /\ caller[c].at = "rename"
      /\ file' = caller[c].tokens
  BY DEF Inv, TypeOK, Rename, At, Ends, Goes
<1>2. /\ file # Malformed
      /\ caller[c].request.op # "load"
      /\ caller[c].tokens = Updated(Content, caller[c].request)
      /\ caller[c].request \in Requests
  BY <1>1 DEF Inv, TypeOK, StoreInv, NothingStale
<1>3. Content # Malformed /\ caller[c].tokens \in Maps
  BY <1>2, ContentType, UpdatedType, Apart DEF Inv
<1>4. Content' = Map!Effect(Content, caller[c].request)
  BY <1>1, <1>2, <1>3, Apart DEF Content, Updated, Map!Effect
<1>5. /\ Seen(c) = [at |-> "pending", request |-> caller[c].request, read |-> Malformed]
      /\ Seen(c)' = [at |-> "ok", request |-> caller[c].request, read |-> Malformed]
  BY <1>1, <1>2 DEF Seen, Stage, Critical, Inv, TypeOK
<1>6. Map!Ends(c, "ok", Malformed)
  BY <1>1, <1>5, MapEnds
<1>7. Calls[c].request = caller[c].request
  BY DEF Calls, Seen
<1> QED BY <1>2, <1>3, <1>4, <1>6, <1>7 DEF Map!Succeed, Calls

\* A call that fails has left the content as it was.
LEMMA MapRefuse ==
    ASSUME Inv, NEW c \in Callers, FailsEarly(c) \/ FailsLate(c) PROVE Map!Refuse(c)
<1>1. /\ \A d \in Callers \ {c} : caller'[d] = caller[d]
      /\ caller'[c].request = caller[c].request
      /\ caller'[c].at = "failed"
      /\ caller[c].at \in Critical
      /\ file' = file
  BY DEF Inv, TypeOK, FailsEarly, FailsLate, At, Ends, Goes, Critical
<1>2. /\ Seen(c) = [at |-> "pending", request |-> caller[c].request, read |-> Malformed]
      /\ Seen(c)' = [at |-> "failed", request |-> caller[c].request, read |-> Malformed]
  BY <1>1 DEF Seen, Stage, Critical
<1>3. Map!Ends(c, "failed", Malformed)
  BY <1>1, <1>2, MapEnds
<1> QED BY <1>1, <1>3, ContentSame DEF Map!Refuse

LEMMA MapReturn == ASSUME Inv, NEW c \in Callers, Return(c) PROVE Map!Return(c)
<1>1. /\ \A d \in Callers \ {c} : caller'[d] = caller[d]
      /\ caller'[c] = Idle
      /\ caller[c].at \in {"ok", "failed"}
      /\ file' = file
  BY DEF Inv, TypeOK, Return, At
<1>2. Seen(c).at \in {"ok", "failed"} /\ Seen(c)' = Map!Idle
  BY <1>1 DEF Seen, Stage, Critical, Idle, Map!Idle
<1>3. Calls' = [Calls EXCEPT ![c] = Map!Idle]
  BY <1>1, <1>2, OneCaller
<1>4. Calls[c].at \in {"ok", "failed"}
  BY <1>2 DEF Calls
<1> QED BY <1>1, <1>3, <1>4, ContentSame DEF Map!Return, Calls

LEMMA AllIdle == (\A c \in Callers : caller[c] = Idle) => Calls = [c \in Callers |-> Map!Idle]
BY DEF Calls, Seen, Stage, Critical, Idle, Map!Idle

LEMMA MapCrash == Crash => Map!Crash
<1> SUFFICES ASSUME Crash PROVE Map!Crash
  OBVIOUS
<1>1. \A c \in Callers : caller'[c] = Idle
  BY DEF Crash
<1>2. Calls' = [c \in Callers |-> Map!Idle]
  BY <1>1 DEF Calls, Seen, Stage, Critical, Idle, Map!Idle
<1> QED BY <1>2, ContentSame DEF Crash, Map!Crash, Calls

LEMMA MapInit == Init => Map!Init
<1> SUFFICES ASSUME Init PROVE Map!Init
  OBVIOUS
<1>1. Calls = [c \in Callers |-> Map!Idle]
  BY AllIdle DEF Init
<1>2. Content \in Maps \cup {Malformed}
  BY DEF Init, Content, Empty, Maps
<1> QED BY <1>1, <1>2 DEF Map!Init, Map!Maps, Maps, Calls

LEMMA MapStep == Inv /\ [Next]_vars => [Map!Next]_(Map!vars)
<1> SUFFICES ASSUME Inv, [Next]_vars PROVE Map!Next \/ UNCHANGED <<Content, Calls>>
  BY DEF Map!vars, Calls
<1>1. CASE UNCHANGED vars
  BY <1>1, ContentSame DEF vars, Calls, Seen, Stage
<1>2. CASE Crash
  BY <1>2, MapCrash DEF Map!Next
<1>3. ASSUME NEW c \in Callers, Begin(c) \/ Lock(c) \/ Works(c)
      PROVE  Map!Next \/ UNCHANGED <<Content, Calls>>
  <2>1. CASE Begin(c)
    BY <2>1, MapBegin DEF Map!Next
  <2>2. CASE Lock(c) \/ CreateTemp(c) \/ WriteTemp(c)
    BY <2>2, MapStutter
  <2>3. CASE ReadFile(c) /\ caller[c].request.op # "load"
    BY <2>3, MapStutter
  <2>4. CASE ReadFile(c) /\ caller[c].request.op = "load"
    BY <2>4, MapLoad DEF Map!Next
  <2>5. CASE Rename(c)
    BY <2>5, MapRename DEF Map!Next
  <2>6. CASE FailsEarly(c) \/ FailsLate(c)
    BY <2>6, MapRefuse DEF Map!Next
  <2>7. CASE Return(c)
    BY <2>7, MapReturn DEF Map!Next
  <2> QED BY <1>3, <2>1, <2>2, <2>3, <2>4, <2>5, <2>6, <2>7 DEF Works
<1> QED BY <1>1, <1>2, <1>3 DEF Next

\* For its callers the store is a map: every Load, Save and Delete takes effect
\* at one moment or fails without effect, whatever the other goroutines do,
\* whichever file operation fails and wherever the process ends.
THEOREM Implements == Spec => MapSpec
<1>1. Init => Map!Init
  BY MapInit
<1>2. Inv /\ [Next]_vars => [Map!Next]_(Map!vars)
  BY MapStep
<1>3. Spec => []Inv
  BY Invariance, PTL DEF Inv
<1> QED BY <1>1, <1>2, <1>3, PTL DEF Spec, MapSpec, Map!Spec

=============================================================================
