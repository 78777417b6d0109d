------------------------ MODULE RelayHandlersProofs ------------------------
(***************************************************************************)
(* Invariants of RelayHandlers, proved for any number of requests, targets *)
(* and crashes.  None of the properties that RelayHandlers states is       *)
(* inductive: they speak of answers, and say nothing of what a handler has *)
(* read and not yet answered.  The invariant is built in layers, each      *)
(* proved with the help of the ones before it:                             *)
(*   Shape    types, the lock, where a request of each kind can be, and    *)
(*            that what it copies cannot change before it unlocks;         *)
(*   Counted  commandID is the number of wakes that have incremented it;   *)
(*   Given    ids that were given are below the ids that will be;          *)
(*   Moment   the shared fields, and every copy that is answered from,     *)
(*            describe one wake and one report.                            *)
(***************************************************************************)
EXTENDS RelayHandlers, FiniteSetTheorems, TLAPS

Labels == {"new", "lock", "increment", "set target", "set queued", "return",
           "set report", "set report time", "copy", "unlock", "respond",
           "done", "dropped"}

\* A wake has taken its id and has not returned it yet.
Midway == {"set target", "set queued", "return"}

\* Between lock and unlock.
Critical == Midway \cup {"increment", "set report", "set report time", "copy",
                         "unlock"}

\* A handler is running.
Active == Critical \cup {"lock", "respond"}

States == [commandID : Nat, target : Server!Targets \cup {Blank},
           lastReport : ReportBodies \cup {NoReport},
           lastQueued : Requests \cup {Nothing},
           lastReportTime : Requests \cup {Nothing}]

Args == RawTargets \cup 0..MaxCommands \cup ReportBodies \cup {Nothing}

----------------------------------------------------------------------------
\* Layer 1: Shape.

Types ==
    /\ state \in States
    /\ mu \in Requests \cup {Free}
    /\ pc \in [Requests -> Labels]
    /\ kind \in [Requests -> Kinds \cup {Nothing}]
    /\ arg \in [Requests -> Args]
    /\ seen \in [Requests -> States]
    /\ left = [r \in Requests |-> left[r]]
    /\ answer = [r \in Requests |-> answer[r]]
    /\ crashes \in 0..MaxCrashes
    /\ born \in [Requests -> 0..MaxCrashes]
    /\ floor = [r \in Requests |-> floor[r]]

\* What a request is answered with, from its copies.
response(r) ==
    CASE kind[r] = "wake" -> seen[r].commandID
      [] kind[r] = "poll" -> pollAnswer(seen[r], arg[r])
      [] kind[r] = "report" -> "ok"
      [] kind[r] = "index" -> seen[r]

\* The steps a request of each kind takes, and the process it runs in.
PlaceOK(r) ==
    /\ pc[r] = "new" <=> kind[r] = Nothing
    /\ kind[r] # Nothing => arg[r] \in argsOf(kind[r])
    /\ pc[r] \in Midway \cup {"increment"} => kind[r] = "wake"
    /\ pc[r] \in {"set report", "set report time"} => kind[r] = "report"
    /\ pc[r] = "copy" => kind[r] \in {"poll", "index"}
    /\ born[r] <= crashes
    /\ pc[r] \in Active => born[r] = crashes
    /\ pc[r] = "done" => answer[r] = response(r)

Locked == \A r \in Requests : pc[r] \in Critical <=> mu = r

\* The fields a reader has copied are still the shared ones.

agree(r, fields) == \A f \in fields : seen[r][f] = state[f]

CopyOK(r) ==
    /\ pc[r] = "lock" => left[r] = fieldsOf(kind[r])
    /\ pc[r] = "copy" /\ kind[r] = "poll" =>
         \/ left[r] = PollFields
         \/ left[r] = <<"target">> /\ agree(r, {"commandID"})
    /\ pc[r] = "copy" /\ kind[r] = "index" =>
         \/ left[r] = IndexFields
         \/ /\ left[r] = <<"target", "lastReport", "lastQueued", "lastReportTime">>
            /\ agree(r, {"commandID"})
         \/ /\ left[r] = <<"lastReport", "lastQueued", "lastReportTime">>
            /\ agree(r, {"commandID", "target"})
         \/ /\ left[r] = <<"lastQueued", "lastReportTime">>
            /\ agree(r, {"commandID", "target", "lastReport"})
         \/ /\ left[r] = <<"lastReportTime">>
            /\ agree(r, {"commandID", "target", "lastReport", "lastQueued"})
    /\ pc[r] = "unlock" /\ kind[r] = "poll" => agree(r, {"commandID", "target"})
    /\ pc[r] = "unlock" /\ kind[r] = "index" => seen[r] = state

Shape == Types /\ Locked /\ \A r \in Requests : PlaceOK(r) /\ CopyOK(r)

LEMMA NormalizeType ==
  ASSUME NEW t \in RawTargets
  PROVE  Server!normalizeTarget(t) \in Server!Targets
BY TrimAssumption DEF Server!normalizeTarget, Server!Targets

LEMMA ZeroStateType == ZeroState \in States
BY DEF ZeroState, States

LEMMA ShapeInit == Init => Shape
<1> SUFFICES ASSUME Init PROVE Shape
  OBVIOUS
<1>1. Types
  BY ZeroStateType, RequestAssumption
     DEF Init, Types, Labels, Critical, Midway, Args
<1>2. Locked
  BY RequestAssumption DEF Init, Locked, Critical, Midway
<1>3. ASSUME NEW r \in Requests PROVE PlaceOK(r) /\ CopyOK(r)
  BY RequestAssumption DEF Init, PlaceOK, CopyOK, Midway, Critical, Active
<1> QED BY <1>1, <1>2, <1>3 DEF Shape

LEMMA ArriveShape ==
  ASSUME Shape, NEW r \in Requests, NEW k \in Kinds, Arrive(r, k)
  PROVE  Shape'
<1> USE DEF Shape
<1>1. /\ pc[r] = "new" /\ pc' = [pc EXCEPT ![r] = "lock"]
      /\ kind' = [kind EXCEPT ![r] = k]
      /\ left' = [left EXCEPT ![r] = fieldsOf(k)]
      /\ born' = [born EXCEPT ![r] = crashes]
      /\ \E n : floor' = [floor EXCEPT ![r] = n]
      /\ UNCHANGED <<state, mu, seen, answer, crashes>>
  BY DEF Arrive, goto
<1>2. PICK a \in argsOf(k) : arg' = [arg EXCEPT ![r] = a]
  BY DEF Arrive
<1>3. a \in Args
  BY <1>2 DEF argsOf, Args, Kinds
<1>4. Types'
  BY <1>1, <1>2, <1>3 DEF Types, Labels
<1>5. Locked'
  BY <1>1 DEF Locked, Types, Critical, Midway
<1>6. PlaceOK(r)' /\ CopyOK(r)'
  <2>1. /\ pc'[r] = "lock" /\ kind'[r] = k /\ arg'[r] = a
        /\ left'[r] = fieldsOf(k) /\ born'[r] = crashes' /\ crashes' \in Nat
    BY <1>1, <1>2 DEF Types
  <2>2. k # Nothing
    BY RequestAssumption
  <2>3. PlaceOK(r)'
    <3>1. arg'[r] \in argsOf(kind'[r])
      BY <1>2, <2>1
    <3>2. (arg[r] \in argsOf(kind[r]))'
      BY <3>1
    <3>3. (born[r] <= crashes)'
      BY <2>1
    <3> QED
      BY <2>1, <2>2, <3>2, <3>3 DEF PlaceOK, Critical, Midway, Active
  <2>4. CopyOK(r)'
    BY <2>1 DEF CopyOK
  <2> QED BY <2>3, <2>4
<1>7. ASSUME NEW q \in Requests, q # r PROVE PlaceOK(q)' /\ CopyOK(q)'
  BY <1>1, <1>2, <1>7
     DEF PlaceOK, CopyOK, agree, Types, response, pollAnswer
<1> QED BY <1>4, <1>5, <1>6, <1>7

LEMMA LockShape ==
  ASSUME Shape, NEW r \in Requests, Lock(r)
  PROVE  Shape'
<1> USE DEF Shape
<1>1. /\ pc[r] = "lock" /\ mu = Free /\ mu' = r
      /\ pc' = [pc EXCEPT ![r] = firstStep(r)]
      /\ UNCHANGED <<state, kind, arg, left, seen, answer, crashes, born, floor>>
  BY DEF Lock, available, goto, local, history
<1>2. kind[r] \in Kinds
  BY <1>1 DEF Types, PlaceOK
<1>3. /\ firstStep(r) \in {"increment", "set report", "copy"}
      /\ firstStep(r) = "increment" => kind[r] = "wake"
      /\ firstStep(r) = "set report" => kind[r] = "report"
      /\ firstStep(r) = "copy" => kind[r] \in {"poll", "index"}
  BY <1>2 DEF firstStep, Kinds
<1>4. Types'
  BY <1>1, <1>3 DEF Types, Labels
<1>5. Locked'
  BY <1>1, <1>3, RequestAssumption DEF Locked, Types, Critical, Midway
<1>6. PlaceOK(r)'
  BY <1>1, <1>2, <1>3, RequestAssumption
     DEF PlaceOK, Types, Critical, Midway, Active
<1>7. CopyOK(r)'
  BY <1>1, <1>2, <1>3 DEF CopyOK, Types, fieldsOf
<1>8. ASSUME NEW q \in Requests, q # r PROVE PlaceOK(q)' /\ CopyOK(q)'
  BY <1>1, <1>8 DEF PlaceOK, CopyOK, agree, Types, response, pollAnswer
<1> QED BY <1>4, <1>5, <1>6, <1>7, <1>8

LEMMA UnlockShape ==
  ASSUME Shape, NEW r \in Requests, Unlock(r)
  PROVE  Shape'
<1> USE DEF Shape
<1>1. /\ pc[r] = "unlock" /\ mu' = Free
      /\ pc' = [pc EXCEPT ![r] = "respond"]
      /\ UNCHANGED <<state, kind, arg, left, seen, answer, crashes, born, floor>>
  BY DEF Unlock, released, goto, local, history
<1>2. mu = r
  BY <1>1 DEF Locked, Critical
<1>3. Types'
  BY <1>1 DEF Types, Labels
<1>4. Locked'
  BY <1>1, <1>2, RequestAssumption DEF Locked, Types, Critical, Midway
<1>5. PlaceOK(r)' /\ CopyOK(r)'
  BY <1>1 DEF PlaceOK, CopyOK, Types, Critical, Midway, Active
<1>6. ASSUME NEW q \in Requests, q # r PROVE PlaceOK(q)' /\ CopyOK(q)'
  BY <1>1, <1>6 DEF PlaceOK, CopyOK, agree, Types, response, pollAnswer
<1> QED BY <1>3, <1>4, <1>5, <1>6

\* A step of the request that holds the lock which stays between lock and
\* unlock, whatever it does to the shared fields and to its own copies.
LEMMA InsideShape ==
  ASSUME Shape, NEW r \in Requests, NEW l \in Critical,
         pc[r] \in Critical, pc' = [pc EXCEPT ![r] = l],
         state' \in States, seen' \in [Requests -> States],
         left' = [q \in Requests |-> left'[q]],
         \A q \in Requests \ {r} : seen'[q] = seen[q] /\ left'[q] = left[q],
         UNCHANGED <<mu, kind, arg, answer, crashes, born, floor>>,
         PlaceOK(r)', CopyOK(r)'
  PROVE  Shape'
<1> USE DEF Shape
<1>1. Types'
  BY DEF Types, Labels, Critical, Midway
<1>2. Locked'
  BY DEF Locked, Types
<1>3. ASSUME NEW q \in Requests, q # r PROVE PlaceOK(q)' /\ CopyOK(q)'
  <2>1. /\ pc'[q] = pc[q] /\ kind'[q] = kind[q] /\ arg'[q] = arg[q]
        /\ answer'[q] = answer[q] /\ born'[q] = born[q]
        /\ seen'[q] = seen[q] /\ left'[q] = left[q] /\ crashes' = crashes
    BY <1>3 DEF Types
  <2>2. pc[q] \notin Critical
    BY <1>3 DEF Locked
  <2>3. PlaceOK(q)'
    BY <2>1 DEF PlaceOK, response, pollAnswer
  <2>4. CopyOK(q)'
    BY <2>1, <2>2 DEF CopyOK, Critical
  <2> QED BY <2>3, <2>4
<1> QED BY <1>1, <1>2, <1>3

LEMMA WritersShape ==
  ASSUME Shape, NEW r \in Requests,
         \/ IncrementID(r) \/ SetTarget(r) \/ SetLastQueued(r) \/ ReturnID(r)
         \/ SetLastReport(r) \/ SetReportTime(r)
  PROVE  Shape'
<1> USE DEF Shape
<1>1. PICK l \in Critical :
        /\ pc' = [pc EXCEPT ![r] = l] /\ pc[r] \in Critical
        /\ \/ pc[r] \in Midway \cup {"increment"} /\ l \in Midway \cup {"unlock"}
           \/ /\ pc[r] \in {"set report", "set report time"}
              /\ l \in {"set report time", "unlock"}
        /\ UNCHANGED <<mu, kind, arg, left, answer, crashes, born, floor>>
  BY DEF IncrementID, SetTarget, SetLastQueued, ReturnID, SetLastReport,
         SetReportTime, goto, local, history, Critical, Midway
<1>2. kind[r] \in {"wake", "report"} /\ arg[r] \in argsOf(kind[r])
  BY <1>1, RequestAssumption DEF PlaceOK, Kinds
<1>3. kind[r] = "wake" => Server!normalizeTarget(arg[r]) \in Server!Targets
  BY <1>2, NormalizeType DEF argsOf
<1>4. state' \in States
  <2>1. CASE IncrementID(r)
    <3>1. state \in States /\ state' = [state EXCEPT !.commandID = @ + 1]
      BY <2>1 DEF IncrementID, Types
    <3>2. state.commandID + 1 \in Nat
      BY <3>1 DEF States
    <3> QED BY <3>1, <3>2 DEF States
  <2>2. CASE SetTarget(r)
    BY <2>2, <1>3 DEF SetTarget, stored, PlaceOK, Types, States, Midway
  <2>3. CASE SetLastQueued(r)
    BY <2>3 DEF SetLastQueued, Types, States
  <2>4. CASE ReturnID(r)
    BY <2>4 DEF ReturnID, Types, States
  <2>5. CASE SetLastReport(r)
    BY <2>5, <1>2 DEF SetLastReport, PlaceOK, argsOf, Types, States
  <2>6. CASE SetReportTime(r)
    BY <2>6 DEF SetReportTime, Types, States
  <2> QED BY <2>1, <2>2, <2>3, <2>4, <2>5, <2>6
<1>5. /\ seen' \in [Requests -> States]
      /\ \A q \in Requests \ {r} : seen'[q] = seen[q]
  <2>1. CASE ReturnID(r)
    BY <2>1 DEF ReturnID, Types, States
  <2>2. CASE UNCHANGED seen
    BY <2>2 DEF Types
  <2> QED BY <2>1, <2>2 DEF IncrementID, SetTarget, SetLastQueued,
                SetLastReport, SetReportTime, local
<1>6. PlaceOK(r)' /\ CopyOK(r)'
  <2>1. pc'[r] = l /\ kind'[r] = kind[r] /\ arg'[r] = arg[r]
    BY <1>1 DEF Types
  <2>2. PlaceOK(r)'
    BY <1>1, <2>1 DEF PlaceOK, Types, Midway, Critical, Active
  <2>3. CopyOK(r)'
    BY <1>1, <1>2, <2>1 DEF CopyOK, Midway
  <2> QED BY <2>2, <2>3
<1> QED BY <1>1, <1>4, <1>5, <1>6, InsideShape DEF Types

LEMMA CopyFieldShape ==
  ASSUME Shape, NEW r \in Requests, CopyField(r)
  PROVE  Shape'
<1> USE DEF Shape
<1> DEFINE f == Head(left[r])
<1>1. /\ pc[r] = "copy" /\ seen' = [seen EXCEPT ![r][f] = state[f]]
      /\ left' = [left EXCEPT ![r] = Tail(@)]
      /\ pc' = [pc EXCEPT ![r] = IF Len(left[r]) = 1 THEN "unlock" ELSE "copy"]
      /\ UNCHANGED <<state, mu, kind, arg, answer, crashes, born, floor>>
  BY DEF CopyField, goto, history
<1>2. kind[r] = "poll" \/ kind[r] = "index"
  BY <1>1 DEF PlaceOK
<1>3. /\ state \in States /\ seen[r] \in States /\ seen'[r] = [seen[r] EXCEPT ![f] = state[f]]
      /\ left'[r] = Tail(left[r])
      /\ pc'[r] = IF Len(left[r]) = 1 THEN "unlock" ELSE "copy"
      /\ kind'[r] = kind[r] /\ state' = state
  BY <1>1 DEF Types
<1>4. CopyOK(r)' /\ seen'[r] \in States
  <2>1. CASE kind[r] = "poll"
    <3>1. CASE left[r] = PollFields
      <4>1. /\ f = "commandID" /\ left'[r] = <<"target">> /\ pc'[r] = "copy"
        BY <3>1, <1>3 DEF PollFields
      <4> QED BY <4>1, <1>3, <2>1 DEF CopyOK, agree, States
    <3>2. CASE left[r] = <<"target">> /\ agree(r, {"commandID"})
      <4>1. f = "target" /\ pc'[r] = "unlock"
        BY <3>2, <1>3
      <4> QED BY <4>1, <3>2, <1>3, <2>1 DEF CopyOK, agree, States
    <3> QED BY <3>1, <3>2, <2>1, <1>1 DEF CopyOK
  <2>2. CASE kind[r] = "index"
    <3>1. CASE left[r] = IndexFields
      <4>1. /\ f = "commandID" /\ pc'[r] = "copy"
            /\ left'[r] = <<"target", "lastReport", "lastQueued", "lastReportTime">>
        BY <3>1, <1>3 DEF IndexFields
      <4> QED BY <4>1, <1>3, <2>2 DEF CopyOK, agree, States
    <3>2. CASE /\ left[r] = <<"target", "lastReport", "lastQueued", "lastReportTime">>
               /\ agree(r, {"commandID"})
      <4>1. /\ f = "target" /\ pc'[r] = "copy"
            /\ left'[r] = <<"lastReport", "lastQueued", "lastReportTime">>
        BY <3>2, <1>3
      <4> QED BY <4>1, <3>2, <1>3, <2>2 DEF CopyOK, agree, States
    <3>3. CASE /\ left[r] = <<"lastReport", "lastQueued", "lastReportTime">>
               /\ agree(r, {"commandID", "target"})
      <4>1. /\ f = "lastReport" /\ pc'[r] = "copy"
            /\ left'[r] = <<"lastQueued", "lastReportTime">>
        BY <3>3, <1>3
      <4> QED BY <4>1, <3>3, <1>3, <2>2 DEF CopyOK, agree, States
    <3>4. CASE /\ left[r] = <<"lastQueued", "lastReportTime">>
               /\ agree(r, {"commandID", "target", "lastReport"})
      <4>1. /\ f = "lastQueued" /\ pc'[r] = "copy"
            /\ left'[r] = <<"lastReportTime">>
        BY <3>4, <1>3
      <4> QED BY <4>1, <3>4, <1>3, <2>2 DEF CopyOK, agree, States
    <3>5. CASE /\ left[r] = <<"lastReportTime">>
               /\ agree(r, {"commandID", "target", "lastReport", "lastQueued"})
      <4>1. f = "lastReportTime" /\ pc'[r] = "unlock"
        BY <3>5, <1>3
      <4> QED BY <4>1, <3>5, <1>3, <2>2 DEF CopyOK, agree, States
    <3> QED BY <3>1, <3>2, <3>3, <3>4, <3>5, <2>2, <1>1 DEF CopyOK
  <2> QED BY <2>1, <2>2, <1>2
<1>5. PlaceOK(r)'
  BY <1>1, <1>2, <1>3, RequestAssumption
     DEF PlaceOK, Types, Midway, Critical, Active
<1>6. /\ seen' \in [Requests -> States]
      /\ left' = [q \in Requests |-> left'[q]]
      /\ \A q \in Requests \ {r} : seen'[q] = seen[q] /\ left'[q] = left[q]
  BY <1>1, <1>4 DEF Types
<1>7. \E l \in Critical : pc' = [pc EXCEPT ![r] = l]
  BY <1>1 DEF Critical
<1>8. pc[r] \in Critical /\ state' \in States
  BY <1>1, <1>3 DEF Critical
<1> QED BY <1>1, <1>4, <1>5, <1>6, <1>7, <1>8, InsideShape

LEMMA RespondShape ==
  ASSUME Shape, NEW r \in Requests, Respond(r)
  PROVE  Shape'
<1> USE DEF Shape
<1>1. /\ pc[r] = "respond" /\ answer' = [answer EXCEPT ![r] = response(r)]
      /\ pc' = [pc EXCEPT ![r] = "done"]
      /\ UNCHANGED <<state, mu, kind, arg, left, seen, crashes, born, floor>>
  BY DEF Respond, goto, history, response
<1>2. Types'
  BY <1>1 DEF Types, Labels
<1>3. Locked'
  BY <1>1 DEF Locked, Types, Critical, Midway
<1>4. PlaceOK(r)' /\ CopyOK(r)'
  <2>1. answer'[r] = response(r)'
    BY <1>1 DEF Types, response, pollAnswer
  <2> QED BY <1>1, <2>1 DEF PlaceOK, CopyOK, Types, Critical, Midway, Active
<1>5. ASSUME NEW q \in Requests, q # r PROVE PlaceOK(q)' /\ CopyOK(q)'
  BY <1>1, <1>5 DEF PlaceOK, CopyOK, agree, Types, response, pollAnswer
<1> QED BY <1>2, <1>3, <1>4, <1>5

LEMMA CrashShape ==
  ASSUME Shape, Crash
  PROVE  Shape'
<1> USE DEF Shape
<1>1. /\ crashes < MaxCrashes /\ crashes' = crashes + 1
      /\ state' = ZeroState /\ mu' = Free
      /\ pc' = [r \in Requests |->
                  IF pc[r] \in {"new", "done"} THEN pc[r] ELSE "dropped"]
      /\ left' = [r \in Requests |-> <<>>]
      /\ UNCHANGED <<kind, arg, seen, answer, born, floor>>
  BY DEF Crash
<1>2. Types'
  <2>1. crashes' \in 0..MaxCrashes
    BY <1>1, RequestAssumption DEF Types
  <2>2. pc' \in [Requests -> Labels]
    BY <1>1 DEF Types, Labels
  <2>3. left' = [r \in Requests |-> left'[r]]
    BY <1>1
  <2> QED BY <1>1, <2>1, <2>2, <2>3, ZeroStateType DEF Types
<1>3. Locked'
  BY <1>1, RequestAssumption DEF Locked, Critical, Midway
<1>4. ASSUME NEW r \in Requests PROVE PlaceOK(r)' /\ CopyOK(r)'
  <2>1. pc'[r] \in {"new", "done", "dropped"} /\ (pc'[r] # "dropped" => pc'[r] = pc[r])
    BY <1>1
  <2>2. pc'[r] = "dropped" => pc[r] # "new"
    BY <1>1
  <2>3. PlaceOK(r)'
    <3>1. (born[r] <= crashes)'
      <4>1. born[r] <= crashes /\ born[r] \in Int /\ crashes \in Int
        <5>1. PlaceOK(r)
          OBVIOUS
        <5>2. born[r] <= crashes
          BY <5>1 DEF PlaceOK
        <5>3. born[r] \in 0..MaxCrashes /\ crashes \in 0..MaxCrashes
          BY DEF Types
        <5> QED BY <5>2, <5>3
      <4> QED BY <1>1, <4>1
    <3>2. (pc[r] = "new" <=> kind[r] = Nothing)'
      BY <1>1, <2>1, <2>2 DEF PlaceOK
    <3>3. (pc[r] = "done" => answer[r] = response(r))'
      BY <1>1, <2>1 DEF PlaceOK, response, pollAnswer
    <3> QED BY <1>1, <2>1, <3>1, <3>2, <3>3
         DEF PlaceOK, Critical, Midway, Active
  <2>4. CopyOK(r)'
    BY <2>1 DEF CopyOK
  <2> QED BY <2>3, <2>4
<1> QED BY <1>2, <1>3, <1>4

LEMMA ShapeStep == Shape /\ [Next]_vars => Shape'
<1> SUFFICES ASSUME Shape, [Next]_vars PROVE Shape'
  OBVIOUS
<1>1. CASE UNCHANGED vars
  <2>1. UNCHANGED <<state, mu, pc, kind, arg, left, seen, answer, crashes, born, floor>>
    BY <1>1 DEF vars, local, history
  <2>2. Types' /\ Locked'
    BY <2>1 DEF Shape, Types, Locked
  <2>3. ASSUME NEW r \in Requests PROVE PlaceOK(r)' /\ CopyOK(r)'
    BY <2>1 DEF Shape, PlaceOK, CopyOK, agree, response, pollAnswer
  <2> QED BY <2>2, <2>3 DEF Shape
<1>2. CASE Crash
  BY <1>2, CrashShape
<1>3. ASSUME NEW r \in Requests, NEW k \in Kinds, Arrive(r, k) PROVE Shape'
  BY <1>3, ArriveShape
<1>4. ASSUME NEW r \in Requests, Handle(r) PROVE Shape'
  BY <1>4, LockShape, UnlockShape, WritersShape, CopyFieldShape, RespondShape
     DEF Handle
<1> QED BY <1>1, <1>2, <1>3, <1>4 DEF Next, Idle

\* A request is between lock and unlock exactly when it holds the mutex, and
\* what a reader has copied under it are the shared fields as they still are.
THEOREM MutexProtects == Spec => []Shape
BY ShapeInit, ShapeStep, PTL DEF Spec

----------------------------------------------------------------------------
\* Layer 2: Counted.

Wakes == {w \in Requests : kind[w] = "wake"}
Incremented == {w \in Wakes : born[w] = crashes /\ pc[w] \notin {"lock", "increment"}}

Counted ==
    /\ Cardinality(Wakes) <= MaxCommands
    /\ state.commandID = Cardinality(Incremented)

LEMMA WakesFinite ==
  /\ IsFiniteSet(Wakes) /\ Cardinality(Wakes) \in Nat
  /\ IsFiniteSet(Incremented) /\ Cardinality(Incremented) \in Nat
  /\ Cardinality(Incremented) <= Cardinality(Wakes)
<1>1. IsFiniteSet(Requests)
  BY FS_Interval, RequestAssumption DEF Requests
<1>2. Wakes \in SUBSET Requests /\ Incremented \in SUBSET Wakes
  BY DEF Wakes, Incremented
<1>3. IsFiniteSet(Wakes)
  BY <1>1, <1>2, FS_Subset
<1>4. IsFiniteSet(Incremented) /\ Cardinality(Incremented) <= Cardinality(Wakes)
  BY <1>2, <1>3, FS_Subset
<1> QED BY <1>3, <1>4, FS_CardinalityType

\* A wake that has not incremented commandID yet finds it below the bound.
LEMMA CommandBound ==
  ASSUME Shape, Counted
  PROVE  /\ state.commandID \in 0..MaxCommands
         /\ \A r \in Requests :
              kind[r] = "wake" /\ r \notin Incremented => state.commandID < MaxCommands
<1>1. state.commandID \in 0..MaxCommands
  BY WakesFinite, RequestAssumption DEF Counted
<1>2. ASSUME NEW r \in Requests, kind[r] = "wake", r \notin Incremented
      PROVE  state.commandID < MaxCommands
  <2>1. Incremented \cup {r} \in SUBSET Wakes
    BY <1>2 DEF Incremented, Wakes
  <2>2. Cardinality(Incremented \cup {r}) <= Cardinality(Wakes)
    BY <2>1, WakesFinite, FS_Subset
  <2>3. Cardinality(Incremented \cup {r}) = Cardinality(Incremented) + 1
    BY <1>2, WakesFinite, FS_AddElement
  <2> QED BY <2>2, <2>3, WakesFinite, RequestAssumption DEF Counted
<1> QED BY <1>1, <1>2

LEMMA CountedStep == Shape /\ Counted /\ [Next]_vars => Counted'
<1> SUFFICES ASSUME Shape, Counted, [Next]_vars PROVE Counted'
  OBVIOUS
<1>1. ASSUME UNCHANGED <<state, kind, born, crashes>>,
             \A q \in Requests : (pc'[q] \in {"lock", "increment"})
                                   <=> (pc[q] \in {"lock", "increment"})
      PROVE  Counted'
  <2>1. Wakes' = Wakes
    BY <1>1 DEF Wakes
  <2>2. Incremented' = Incremented
    BY <1>1, <2>1 DEF Incremented, Wakes
  <2> QED BY <2>1, <2>2, <1>1 DEF Counted
<1>2. ASSUME NEW r \in Requests, NEW k \in Kinds, Arrive(r, k) PROVE Counted'
  <2>1. /\ pc[r] = "new" /\ pc' = [pc EXCEPT ![r] = "lock"]
        /\ kind' = [kind EXCEPT ![r] = k]
        /\ born' = [born EXCEPT ![r] = crashes]
        /\ k = "wake" => Cardinality({w \in Requests : kind[w] = k}) < MaxCommands
        /\ UNCHANGED <<state, crashes>>
    BY <1>2 DEF Arrive, goto
  <2>2. r \notin Wakes
    BY <2>1, RequestAssumption DEF Wakes, Shape, PlaceOK, Kinds
  <2>3. Incremented' = Incremented
    BY <2>1, <2>2 DEF Incremented, Wakes, Shape, Types
  <2>4. Wakes' = IF k = "wake" THEN Wakes \cup {r} ELSE Wakes
    BY <2>1, <2>2 DEF Wakes, Shape, Types
  <2>5. k = "wake" => Cardinality(Wakes) < MaxCommands
    BY <2>1 DEF Wakes
  <2>6. Cardinality(Wakes \cup {r}) = Cardinality(Wakes) + 1
    BY <2>2, WakesFinite, FS_AddElement
  <2>7. Cardinality(Wakes') <= MaxCommands
    BY <2>4, <2>5, <2>6, WakesFinite, RequestAssumption DEF Counted
  <2> QED BY <2>1, <2>3, <2>7 DEF Counted
<1>3. CASE Crash
  <2>1. /\ crashes' = crashes + 1 /\ state' = ZeroState /\ UNCHANGED <<kind, born>>
    BY <1>3 DEF Crash
  <2>2. Wakes' = Wakes
    BY <2>1 DEF Wakes
  <2>3. ASSUME NEW w \in Requests PROVE w \notin Incremented'
    <3>1. PlaceOK(w) /\ born[w] \in 0..MaxCrashes /\ crashes \in 0..MaxCrashes
      BY DEF Shape, Types
    <3>2. born[w] <= crashes
      BY <3>1 DEF PlaceOK
    <3>3. born'[w] # crashes'
      BY <2>1, <3>1, <3>2
    <3> QED BY <3>3 DEF Incremented
  <2>4. Incremented' = {}
    BY <2>3 DEF Incremented, Wakes
  <2> QED BY <2>1, <2>2, <2>4, FS_EmptySet DEF Counted, ZeroState
<1>4. ASSUME NEW r \in Requests, Handle(r) PROVE Counted'
  <2>1. UNCHANGED <<kind, born, crashes>>
    BY <1>4 DEF Handle, Lock, Unlock, IncrementID, SetTarget, SetLastQueued,
                ReturnID, SetLastReport, SetReportTime, CopyField, Respond,
                local, history
  <2>2. CASE IncrementID(r)
    <3>1. /\ pc[r] = "increment" /\ pc' = [pc EXCEPT ![r] = "set target"]
          /\ state'.commandID = state.commandID + 1
      BY <2>2 DEF IncrementID, goto, Shape, Types, States
    <3>2. kind[r] = "wake" /\ born[r] = crashes
      BY <3>1 DEF Shape, PlaceOK, Midway, Critical, Active
    <3>3. r \notin Incremented
      BY <3>1 DEF Incremented
    <3>4. Wakes' = Wakes
      BY <2>1 DEF Wakes
    <3>5. Incremented' = Incremented \cup {r}
      BY <2>1, <3>1, <3>2, <3>4 DEF Incremented, Wakes, Shape, Types
    <3>6. Cardinality(Incremented') = Cardinality(Incremented) + 1
      BY <3>3, <3>5, WakesFinite, FS_AddElement
    <3> QED BY <3>1, <3>4, <3>6 DEF Counted
  <2>3. CASE Lock(r)
    <3>1. /\ pc[r] = "lock" /\ pc' = [pc EXCEPT ![r] = firstStep(r)]
          /\ state' = state
      BY <2>3 DEF Lock, goto
    <3>2. firstStep(r) = "increment" \/ r \notin Wakes
      BY DEF firstStep, Wakes
    <3>3. Wakes' = Wakes
      BY <2>1 DEF Wakes
    <3>4. Incremented' = Incremented
      BY <2>1, <3>1, <3>2, <3>3 DEF Incremented, Wakes, Shape, Types
    <3> QED BY <3>1, <3>3, <3>4 DEF Counted
  <2>4. CASE ~IncrementID(r) /\ ~Lock(r)
    <3>1. state'.commandID = state.commandID
      <4>1. state \in States
        BY DEF Shape, Types
      <4>2. CASE SetTarget(r)
        BY <4>1, <4>2 DEF SetTarget, States
      <4>3. CASE SetLastQueued(r)
        BY <4>1, <4>3 DEF SetLastQueued, States
      <4>4. CASE SetLastReport(r)
        BY <4>1, <4>4 DEF SetLastReport, States
      <4>5. CASE SetReportTime(r)
        BY <4>1, <4>5 DEF SetReportTime, States
      <4>6. CASE UNCHANGED state
        BY <4>6
      <4> QED
        BY <1>4, <2>4, <4>2, <4>3, <4>4, <4>5, <4>6
           DEF Handle, Unlock, ReturnID, CopyField, Respond
    <3>2. /\ {pc[r], pc'[r]} \cap {"lock", "increment"} = {}
          /\ \A q \in Requests \ {r} : pc'[q] = pc[q]
      BY <1>4, <2>4 DEF Handle, Unlock, SetTarget, SetLastQueued, ReturnID,
           SetLastReport, SetReportTime, CopyField, Respond, goto, Shape, Types
    <3>3. Wakes' = Wakes
      BY <2>1 DEF Wakes
    <3>4. Incremented' = Incremented
      BY <2>1, <3>2, <3>3 DEF Incremented, Wakes
    <3> QED BY <3>1, <3>3, <3>4 DEF Counted
  <2> QED BY <2>2, <2>3, <2>4
<1>5. CASE UNCHANGED vars
  BY <1>1, <1>5 DEF vars, local, history
<1> QED BY <1>2, <1>3, <1>4, <1>5 DEF Next, Idle

LEMMA CountedInit == Init => Counted
<1> SUFFICES ASSUME Init PROVE Counted
  OBVIOUS
<1>1. Wakes = {} /\ Incremented = {}
  BY RequestAssumption DEF Init, Wakes, Incremented, Kinds
<1> QED BY <1>1, FS_EmptySet, RequestAssumption DEF Init, Counted, ZeroState

----------------------------------------------------------------------------
\* Layer 3: Given.

midway == \E r \in Requests : pc[r] \in Midway

\* An id of this process that is below the id being given, or the newest.
known(id) == id <= state.commandID /\ (midway => id < state.commandID)

GivenOK(w) ==
    /\ kind[w] = "wake" /\ pc[w] \in Midway \cup {"lock", "increment"} =>
         seen[w].commandID = 0
    /\ pc[w] = "new" => seen[w] = ZeroState
    /\ kind[w] = "wake" /\ pc[w] \in {"unlock", "respond", "done"} =>
         seen[w].commandID > floor[w]
    /\ givenID(w) > 0 /\ born[w] = crashes => known(givenID(w))
    /\ pc[w] \in Active => known(floor[w])
    /\ kind[w] = "poll" /\ pc[w] \in {"respond", "done"} =>
         seen[w].commandID >= floor[w]
    /\ floor[w] \in 0..MaxCommands

Given == AcksUnique /\ \A w \in Requests : GivenOK(w)

\* A bounded set of natural numbers that is not empty has a greatest member.
LEMMA MaxFacts ==
  ASSUME NEW n \in Nat, NEW S \in SUBSET (0..n), S # {}
  PROVE  Max(S) \in S /\ \A s \in S : s <= Max(S)
<1> DEFINE T == {n - s : s \in S}
<1>1. T \in SUBSET Nat /\ T # {}
  <2>1. \A s \in S : n - s \in Nat
    OBVIOUS
  <2> QED BY <2>1
<1>2. PICK t \in T : \A u \in T : ~(<<u, t>> \in OpToRel(<, Nat))
  BY <1>1, NatLessThanWellFounded, WFMin
<1>3. PICK m \in S : t = n - m
  BY <1>2
<1>4. ASSUME NEW s \in S PROVE m >= s
  <2>1. n - s \in T /\ n - s \in Nat /\ t \in Nat
    BY <1>1
  <2>2. ~(n - s < t)
    BY <1>2, <2>1 DEF OpToRel
  <2> QED BY <1>3, <2>2
<1> QED BY <1>4 DEF Max

LEMMA KnownStep ==
  ASSUME Shape, Counted, NEW r \in Requests, Handle(r),
         NEW id \in Nat, known(id)
  PROVE  known(id)'
<1>1. state.commandID \in Nat /\ state'.commandID \in Nat
  <2>1. Shape'
    BY ShapeStep DEF Next
  <2> QED BY <2>1 DEF Shape, Types, States
<1>2. ASSUME NEW q \in Requests, pc[r] \in Critical, pc[q] \in Midway
      PROVE  q = r
  BY <1>2 DEF Shape, Locked, Critical
<1>3. CASE IncrementID(r)
  <2>1. state'.commandID = state.commandID + 1 /\ pc[r] = "increment"
    BY <1>3 DEF IncrementID, Shape, Types, States
  <2> QED BY <1>1, <2>1 DEF known
<1>4. CASE ReturnID(r)
  <2>1. pc[r] = "return" /\ pc' = [pc EXCEPT ![r] = "unlock"] /\ state' = state
    BY <1>4 DEF ReturnID, goto
  <2>2. midway
    BY <2>1 DEF midway, Midway
  <2>3. ~midway'
    BY <2>1, <1>2 DEF midway, Midway, Critical, Shape, Types
  <2> QED BY <1>1, <2>1, <2>2, <2>3 DEF known
<1>5. CASE ~IncrementID(r) /\ ~ReturnID(r)
  <2>1. state'.commandID = state.commandID
    <3>1. state \in States
      BY DEF Shape, Types
    <3>2. CASE SetTarget(r)
      BY <3>1, <3>2 DEF SetTarget, States
    <3>3. CASE SetLastQueued(r)
      BY <3>1, <3>3 DEF SetLastQueued, States
    <3>4. CASE SetLastReport(r)
      BY <3>1, <3>4 DEF SetLastReport, States
    <3>5. CASE SetReportTime(r)
      BY <3>1, <3>5 DEF SetReportTime, States
    <3>6. CASE UNCHANGED state
      BY <3>6
    <3> QED
      BY <1>5, <3>2, <3>3, <3>4, <3>5, <3>6
         DEF Handle, Lock, Unlock, CopyField, Respond
  <2>2. /\ pc[r] \in Midway <=> pc'[r] \in Midway
        /\ \A q \in Requests \ {r} : pc'[q] = pc[q]
    BY <1>5 DEF Handle, Lock, Unlock, SetTarget, SetLastQueued, SetLastReport,
       SetReportTime, CopyField, Respond, firstStep, goto, Midway, Shape, Types
  <2>3. midway' <=> midway
    BY <2>2 DEF midway
  <2> QED BY <2>1, <2>3 DEF known
<1> QED BY <1>3, <1>4, <1>5

LEMMA ArriveGiven ==
  ASSUME Shape, Counted, Given, NEW r \in Requests, NEW k \in Kinds, Arrive(r, k)
  PROVE  Given'
<1>1. /\ pc[r] = "new" /\ pc' = [pc EXCEPT ![r] = "lock"]
      /\ kind' = [kind EXCEPT ![r] = k]
      /\ born' = [born EXCEPT ![r] = crashes]
      /\ floor' = [floor EXCEPT ![r] = Max(ackedIDs \cup {0})]
      /\ UNCHANGED <<state, seen, answer, crashes>>
  BY DEF Arrive, goto
<1>2. seen[r].commandID = 0 /\ kind[r] = Nothing /\ Nothing \notin Kinds
  <2>1. GivenOK(r) /\ PlaceOK(r)
    BY DEF Given, Shape
  <2>2. seen[r] = ZeroState /\ kind[r] = Nothing
    BY <1>1, <2>1 DEF GivenOK, PlaceOK
  <2> QED BY <2>2, RequestAssumption DEF ZeroState
<1>3. \A id : known(id)' <=> known(id)
  BY <1>1 DEF known, midway, Midway, Shape, Types
<1>4. state.commandID \in 0..MaxCommands
  BY CommandBound
<1>5. ASSUME NEW w \in Requests, kind[w] = "wake", pc[w] = "done", born[w] = crashes
      PROVE  answer[w] \in 0..MaxCommands /\ known(answer[w])
  <2>1. answer[w] = seen[w].commandID
    BY <1>5 DEF Shape, PlaceOK, response
  <2>2. seen[w].commandID \in Nat /\ seen[w].commandID > floor[w] /\ floor[w] \in 0..MaxCommands
    BY <1>5 DEF Given, GivenOK, Shape, Types, States
  <2>3. known(seen[w].commandID)
    BY <1>5, <2>2 DEF Given, GivenOK, givenID
  <2> QED BY <1>4, <2>1, <2>2, <2>3, RequestAssumption DEF known
<1>6. known(0)
  <2>1. ASSUME NEW q \in Requests, pc[q] \in Midway PROVE 0 < state.commandID
    <3>1. known(floor[q]) /\ floor[q] \in 0..MaxCommands
      BY <2>1 DEF Given, GivenOK, Active, Critical
    <3> QED BY <1>4, <2>1, <3>1 DEF known, midway
  <2> QED BY <1>4, <2>1 DEF known, midway
<1>7. floor'[r] \in 0..MaxCommands /\ known(floor'[r])
  <2> DEFINE S == ackedIDs \cup {0}
  <2>1. S \in SUBSET (0..MaxCommands) /\ \A id \in S : known(id)
    BY <1>5, <1>6, RequestAssumption DEF ackedIDs
  <2>2. Max(S) \in S
    BY <2>1, MaxFacts, RequestAssumption
  <2>3. floor'[r] = Max(S)
    BY <1>1 DEF Shape, Types
  <2> QED BY <2>1, <2>2, <2>3
<1>8. \A w \in Requests : givenID(w)' = givenID(w)
  BY <1>1, <1>2 DEF givenID, Shape, Types
<1>9. AcksUnique'
  <2>1. ASSUME NEW v \in Requests, NEW w \in Requests,
               v # w, givenID(v)' > 0, (born[v] = born[w])'
        PROVE  (givenID(v) # givenID(w))'
    <3>1. givenID(v) > 0 /\ givenID(v)' = givenID(v) /\ givenID(w)' = givenID(w)
      BY <1>8, <2>1
    <3>2. v # r
      BY <1>2, <3>1 DEF givenID
    <3>3. CASE w = r
      BY <1>2, <3>1, <3>3 DEF givenID
    <3>4. CASE w # r
      BY <1>1, <2>1, <3>1, <3>2, <3>4 DEF Given, AcksUnique, Shape, Types
    <3> QED BY <3>3, <3>4
  <2> QED BY <2>1 DEF AcksUnique
<1>10. GivenOK(r)'
  <2>1. pc'[r] = "lock" /\ seen'[r].commandID = 0 /\ givenID(r)' = 0
    BY <1>1, <1>2, <1>8 DEF givenID, Shape, Types
  <2>2. known(floor[r])' /\ floor'[r] \in 0..MaxCommands
    BY <1>3, <1>7 DEF known
  <2> QED BY <2>1, <2>2 DEF GivenOK, Midway
<1>11. ASSUME NEW w \in Requests, w # r PROVE GivenOK(w)'
  <2>1. /\ pc'[w] = pc[w] /\ kind'[w] = kind[w] /\ seen'[w] = seen[w]
        /\ born'[w] = born[w] /\ floor'[w] = floor[w] /\ crashes' = crashes
        /\ givenID(w)' = givenID(w)
    BY <1>1, <1>8, <1>11 DEF Shape, Types
  <2>2. known(givenID(w))' <=> known(givenID(w))
    BY <1>1, <2>1 DEF known, midway, Midway, Shape, Types
  <2>3. known(floor[w])' <=> known(floor[w])
    BY <1>1, <2>1 DEF known, midway, Midway, Shape, Types
  <2>4. GivenOK(w)
    BY DEF Given
  <2> QED BY <2>1, <2>2, <2>3, <2>4 DEF GivenOK
<1> QED BY <1>9, <1>10, <1>11 DEF Given

\* What a step of a handler leaves alone.
LEMMA HandleFrame ==
  ASSUME Shape, NEW r \in Requests, Handle(r)
  PROVE  /\ UNCHANGED <<kind, arg, crashes, born, floor>>
         /\ \A q \in Requests \ {r} : pc'[q] = pc[q] /\ seen'[q] = seen[q]
         /\ ~ReturnID(r) /\ ~CopyField(r) => seen' = seen
         /\ ReturnID(r) => pc[r] = "return" /\ kind[r] = "wake"
         /\ CopyField(r) => pc[r] = "copy" /\ kind[r] \in {"poll", "index"}
         /\ pc[r] \in Active /\ born[r] = crashes
<1>1. UNCHANGED <<kind, arg, crashes, born, floor>>
  BY DEF Handle, Lock, Unlock, IncrementID, SetTarget, SetLastQueued,
         ReturnID, SetLastReport, SetReportTime, CopyField, Respond,
         local, history
<1>2. \A q \in Requests \ {r} : pc'[q] = pc[q]
  BY DEF Handle, Lock, Unlock, IncrementID, SetTarget, SetLastQueued,
         ReturnID, SetLastReport, SetReportTime, CopyField, Respond, goto,
         Shape, Types
<1>3. ~ReturnID(r) /\ ~CopyField(r) => seen' = seen
  BY DEF Handle, Lock, Unlock, IncrementID, SetTarget, SetLastQueued,
         SetLastReport, SetReportTime, Respond, local
<1>4. \A q \in Requests \ {r} : seen'[q] = seen[q]
  BY <1>3 DEF ReturnID, CopyField, Shape, Types
<1>5. pc[r] \in Active
  BY DEF Handle, Lock, Unlock, IncrementID, SetTarget, SetLastQueued,
         ReturnID, SetLastReport, SetReportTime, CopyField, Respond,
         Active, Critical, Midway
<1>6. PlaceOK(r)
  BY DEF Shape
<1>7. ReturnID(r) => pc[r] = "return" /\ kind[r] = "wake"
  BY <1>6 DEF ReturnID, PlaceOK, Midway
<1>8. CopyField(r) => pc[r] = "copy" /\ kind[r] \in {"poll", "index"}
  BY <1>6 DEF CopyField, PlaceOK
<1>9. born[r] = crashes
  BY <1>5, <1>6 DEF PlaceOK
<1> QED BY <1>1, <1>2, <1>3, <1>4, <1>5, <1>7, <1>8, <1>9

LEMMA HandleGiven ==
  ASSUME Shape, Counted, Given, NEW r \in Requests, Handle(r)
  PROVE  Given'
<1>1. /\ UNCHANGED <<kind, arg, crashes, born, floor>>
      /\ \A q \in Requests \ {r} : pc'[q] = pc[q] /\ seen'[q] = seen[q]
      /\ ~ReturnID(r) /\ ~CopyField(r) => seen' = seen
      /\ ReturnID(r) => pc[r] = "return" /\ kind[r] = "wake"
      /\ CopyField(r) => pc[r] = "copy" /\ kind[r] \in {"poll", "index"}
      /\ pc[r] \in Active /\ born[r] = crashes
  BY HandleFrame
<1>2. \A w \in Requests : /\ givenID(w) \in Nat /\ floor[w] \in 0..MaxCommands
                          /\ floor[w] \in Nat /\ seen[w].commandID \in Nat
  BY RequestAssumption DEF Given, GivenOK, givenID, Shape, Types, States
<1>3. \A id \in Nat : known(id) => known(id)'
  BY KnownStep
<1>4. GivenOK(r) /\ CopyOK(r) /\ PlaceOK(r)
  BY DEF Given, Shape
<1>5. state.commandID \in Nat /\ known(floor[r]) /\ floor[r] \in Nat
  BY <1>1, <1>2, <1>4 DEF GivenOK, Shape, Types, States
<1>6. ASSUME NEW w \in Requests, w # r
      PROVE  GivenOK(w)' /\ givenID(w)' = givenID(w)
  <2>1. /\ pc'[w] = pc[w] /\ kind'[w] = kind[w] /\ seen'[w] = seen[w]
        /\ born'[w] = born[w] /\ floor'[w] = floor[w] /\ crashes' = crashes
        /\ givenID(w)' = givenID(w)
    BY <1>1, <1>6 DEF givenID
  <2>2. known(givenID(w)) => known(givenID(w))'
    <3>1. PICK n \in Nat : n = givenID(w)
      BY <1>2
    <3> QED BY <1>3, <2>1, <3>1 DEF known, midway
  <2>3. known(floor[w]) => known(floor[w])'
    <3>1. PICK n \in Nat : n = floor[w]
      BY <1>2
    <3> QED BY <1>3, <2>1, <3>1 DEF known, midway
  <2>4. GivenOK(w)
    BY DEF Given
  <2> QED BY <2>1, <2>2, <2>3, <2>4 DEF GivenOK
<1>7. CASE ReturnID(r)
  <2>1. /\ pc[r] = "return" /\ kind[r] = "wake" /\ pc'[r] = "unlock"
        /\ seen'[r].commandID = state.commandID /\ state' = state
    BY <1>1, <1>7 DEF ReturnID, goto, Shape, Types, States
  <2>2. midway
    BY <2>1 DEF midway, Midway
  <2>3. ~midway'
    <3>1. ASSUME NEW q \in Requests \ {r} PROVE pc[q] \notin Midway
      <4>1. mu = r
        BY <2>1 DEF Shape, Locked, Critical, Midway
      <4> QED BY <4>1 DEF Shape, Locked, Critical
    <3> QED BY <1>1, <2>1, <3>1 DEF midway, Midway
  <2>4. floor[r] < state.commandID
    BY <1>5, <2>2 DEF known
  <2>5. GivenOK(r)'
    <3>1. known(givenID(r))' /\ known(floor[r])'
      BY <1>1, <1>5, <2>1, <2>3, <2>4 DEF known, givenID
    <3> QED BY <1>1, <1>2, <2>1, <2>4, <3>1 DEF GivenOK, Midway
  <2>6. AcksUnique'
    <3>1. \A w \in Requests \ {r} :
            givenID(w) > 0 /\ born[w] = crashes => givenID(w) < state.commandID
      BY <2>2 DEF Given, GivenOK, known
    <3>2. givenID(r)' = state.commandID
      BY <1>1, <2>1 DEF givenID
    <3>3. ASSUME NEW v \in Requests, NEW w \in Requests,
                 v # w, givenID(v)' > 0, (born[v] = born[w])'
          PROVE  (givenID(v) # givenID(w))'
      <4>1. CASE v = r
        BY <1>1, <1>2, <1>5, <1>6, <2>4, <3>1, <3>2, <3>3, <4>1
      <4>2. CASE w = r
        BY <1>1, <1>2, <1>5, <1>6, <3>1, <3>2, <3>3, <4>2
      <4>3. CASE v # r /\ w # r
        BY <1>1, <1>6, <3>3, <4>3 DEF Given, AcksUnique
      <4> QED BY <4>1, <4>2, <4>3
    <3> QED BY <3>3 DEF AcksUnique
  <2> QED BY <1>6, <2>5, <2>6 DEF Given
<1>8. CASE ~ReturnID(r)
  <2>1. givenID(r)' = givenID(r)
    <3>1. CASE CopyField(r)
      BY <1>1, <3>1 DEF givenID
    <3>2. CASE ~CopyField(r)
      BY <1>1, <1>8, <3>2 DEF givenID
    <3> QED BY <3>1, <3>2
  <2>2. AcksUnique'
    BY <1>1, <1>6, <2>1 DEF Given, AcksUnique
  <2>3. known(givenID(r)) => known(givenID(r))'
    <3>1. PICK n \in Nat : n = givenID(r)
      BY <1>2
    <3> QED BY <1>3, <2>1, <3>1 DEF known, midway
  <2>4. known(floor[r])'
    <3>1. PICK n \in Nat : n = floor[r]
      BY <1>2
    <3> QED BY <1>1, <1>3, <1>5, <3>1 DEF known, midway
  <2>5. /\ pc'[r] \in Midway \cup {"lock", "increment"} =>
             pc[r] \in Midway \cup {"lock", "increment"}
        /\ pc'[r] # "new"
        /\ kind[r] = "wake" /\ pc'[r] \in {"unlock", "respond", "done"} =>
             pc[r] \in {"unlock", "respond", "done"}
        /\ kind[r] = "poll" /\ pc'[r] \in {"respond", "done"} =>
             pc[r] \in {"unlock", "respond", "done"} /\ seen' = seen
    BY <1>4, <1>8 DEF Handle, Lock, Unlock, IncrementID, SetTarget, SetLastQueued,
         SetLastReport, SetReportTime, CopyField, Respond, goto, local,
         firstStep, Shape, Types, Midway, PlaceOK
  <2>6. kind[r] = "poll" /\ pc[r] = "unlock" => seen[r].commandID >= floor[r]
    BY <1>4, <1>5 DEF CopyOK, agree, known
  <2>7. kind[r] = "wake" => seen'[r] = seen[r]
    BY <1>1, <1>8
  <2>8. GivenOK(r)'
    BY <1>1, <1>2, <1>4, <2>1, <2>3, <2>4, <2>5, <2>6, <2>7 DEF GivenOK
  <2> QED BY <1>6, <2>2, <2>8 DEF Given
<1> QED BY <1>7, <1>8

LEMMA GivenStep == Shape /\ Counted /\ Given /\ [Next]_vars => Given'
<1> SUFFICES ASSUME Shape, Counted, Given, [Next]_vars PROVE Given'
  OBVIOUS
<1>1. ASSUME NEW r \in Requests, NEW k \in Kinds, Arrive(r, k) PROVE Given'
  BY <1>1, ArriveGiven
<1>2. ASSUME NEW r \in Requests, Handle(r) PROVE Given'
  BY <1>2, HandleGiven
<1>3. CASE Crash
  <2>1. /\ crashes' = crashes + 1
        /\ pc' = [r \in Requests |->
                    IF pc[r] \in {"new", "done"} THEN pc[r] ELSE "dropped"]
        /\ UNCHANGED <<kind, seen, born, floor>>
    BY <1>3 DEF Crash
  <2>2. \A w \in Requests : givenID(w)' = givenID(w)
    BY <2>1 DEF givenID
  <2>3. AcksUnique'
    BY <2>1, <2>2 DEF Given, AcksUnique
  <2>4. ASSUME NEW w \in Requests PROVE GivenOK(w)'
    <3>1. born[w] # crashes'
      <4>1. PlaceOK(w) /\ born[w] \in 0..MaxCrashes /\ crashes \in 0..MaxCrashes
        BY DEF Shape, Types
      <4>2. born[w] <= crashes
        BY <4>1 DEF PlaceOK
      <4> QED BY <2>1, <4>1, <4>2
    <3>2. /\ pc'[w] \in {"new", "done", "dropped"}
          /\ pc'[w] # "dropped" => pc'[w] = pc[w]
      BY <2>1
    <3>3. GivenOK(w)
      BY DEF Given
    <3> QED BY <2>1, <2>2, <3>1, <3>2, <3>3
         DEF GivenOK, Active, Critical, Midway
  <2> QED BY <2>3, <2>4 DEF Given
<1>4. CASE UNCHANGED vars
  <2>1. UNCHANGED <<state, pc, kind, seen, crashes, born, floor>>
    BY <1>4 DEF vars, local, history
  <2> QED BY <2>1 DEF Given, AcksUnique, GivenOK, givenID, known, midway
<1> QED BY <1>1, <1>2, <1>3, <1>4 DEF Next, Idle

LEMMA GivenInit == Init => Given
<1> SUFFICES ASSUME Init PROVE Given
  OBVIOUS
<1>1. ASSUME NEW w \in Requests
      PROVE  pc[w] = "new" /\ kind[w] = Nothing /\ seen[w] = ZeroState /\ floor[w] = 0
  BY DEF Init
<1>2. \A w \in Requests : givenID(w) = 0
  BY <1>1, RequestAssumption DEF givenID, ZeroState
<1>3. AcksUnique
  BY <1>2 DEF AcksUnique
<1>4. ASSUME NEW w \in Requests PROVE GivenOK(w)
  <2>1. kind[w] \notin {"wake", "poll"}
    BY <1>1, RequestAssumption DEF Kinds
  <2>2. floor[w] \in 0..MaxCommands
    BY <1>1, RequestAssumption
  <2>3. ~(givenID(w) > 0)
    BY <1>2
  <2>4. pc[w] = "new" /\ pc[w] \notin Active
    BY <1>1 DEF Active, Critical, Midway
  <2> QED BY <1>1, <2>1, <2>2, <2>3, <2>4 DEF GivenOK
<1> QED BY <1>3, <1>4 DEF Given

----------------------------------------------------------------------------
\* Layer 4: Moment.

\* The wake fields of s are those of one wake of incarnation b.
oneWake(s, b) ==
    IF s.commandID = 0
      THEN s.target = Blank /\ s.lastQueued = Nothing
      ELSE /\ s.lastQueued \in Requests
           /\ givenID(s.lastQueued) = s.commandID
           /\ born[s.lastQueued] = b
           /\ s.target = Server!normalizeTarget(arg[s.lastQueued])

\* The report fields of s are those of one report.
oneReport(s) ==
    IF s.lastReportTime = Nothing
      THEN s.lastReport = NoReport
      ELSE /\ kind[s.lastReportTime] = "report"
           /\ s.lastReport = arg[s.lastReportTime]

MomentOK(r) ==
    /\ pc[r] \in Midway => state.commandID > 0
    /\ pc[r] \in {"set queued", "return"} =>
         state.target = Server!normalizeTarget(arg[r])
    /\ pc[r] = "return" => state.lastQueued = r
    /\ pc[r] = "set report time" => state.lastReport = arg[r]
    /\ kind[r] = "poll" /\ pc[r] \in {"respond", "done"} /\ seen[r].commandID > 0 =>
         isWake(seen[r].commandID, seen[r].target, born[r])
    /\ kind[r] = "index" /\ pc[r] \in {"respond", "done"} =>
         oneWake(seen[r], born[r]) /\ oneReport(seen[r])

Moment ==
    /\ ~midway => oneWake(state, crashes)
    /\ (\A r \in Requests : pc[r] # "set report time") => oneReport(state)
    /\ \A r \in Requests : MomentOK(r)

\* A request keeps what it said, and a wake the id it was given.
LEMMA Frozen ==
  ASSUME Shape, Given, [Next]_vars, NEW w \in Requests
  PROVE  /\ kind[w] # Nothing =>
              kind'[w] = kind[w] /\ arg'[w] = arg[w] /\ born'[w] = born[w]
         /\ givenID(w) > 0 => givenID(w)' = givenID(w) /\ kind[w] # Nothing
         /\ pc[w] \in {"respond", "done"} => seen'[w] = seen[w]
<1> USE DEF Shape
<1>1. PlaceOK(w) /\ GivenOK(w)
  BY DEF Given
<1>2. givenID(w) > 0 => kind[w] = "wake" /\ kind[w] # Nothing
  BY RequestAssumption DEF givenID, Kinds
<1>3. ASSUME NEW r \in Requests, NEW k \in Kinds, Arrive(r, k)
      PROVE  /\ seen' = seen /\ pc[r] = "new"
             /\ w # r => kind'[w] = kind[w] /\ arg'[w] = arg[w] /\ born'[w] = born[w]
  <2>1. PICK a : arg' = [arg EXCEPT ![r] = a]
    BY <1>3 DEF Arrive
  <2> QED BY <1>3, <2>1 DEF Arrive, Types
<1>4. ASSUME NEW r \in Requests, Handle(r)
      PROVE  /\ UNCHANGED <<kind, arg, born>>
             /\ pc[w] \in {"respond", "done"} => seen'[w] = seen[w]
             /\ givenID(w) > 0 => seen'[w] = seen[w]
  <2>1. /\ UNCHANGED <<kind, arg, born>>
        /\ w # r => seen'[w] = seen[w]
        /\ ~ReturnID(r) /\ ~CopyField(r) => seen' = seen
        /\ ReturnID(r) => pc[r] = "return" /\ kind[r] = "wake"
        /\ CopyField(r) => pc[r] = "copy" /\ kind[r] \in {"poll", "index"}
    BY <1>4, HandleFrame
  <2>2. CASE w = r /\ ReturnID(r)
    <3>1. pc[w] = "return" /\ kind[w] = "wake"
      BY <2>1, <2>2
    <3>2. seen[w].commandID = 0
      BY <1>1, <3>1 DEF GivenOK, Midway
    <3>3. ~(givenID(w) > 0)
      BY <3>1, <3>2 DEF givenID
    <3> QED BY <2>1, <3>1, <3>3
  <2>3. CASE w = r /\ CopyField(r)
    BY <2>1, <2>3 DEF givenID
  <2> QED BY <2>1, <2>2, <2>3
<1>5. CASE Crash \/ UNCHANGED vars
  BY <1>2, <1>5 DEF Crash, vars, local, history, givenID
<1>6. ASSUME NEW r \in Requests, NEW k \in Kinds, Arrive(r, k), w = r
      PROVE  kind[w] = Nothing /\ seen' = seen
  BY <1>1, <1>3, <1>6 DEF PlaceOK
<1> QED BY <1>1, <1>2, <1>3, <1>4, <1>5, <1>6 DEF Next, Idle, givenID

LEMMA WakePersists ==
  ASSUME Shape, Given, [Next]_vars, NEW s \in States, NEW b, oneWake(s, b)
  PROVE  oneWake(s, b)'
<1>1. CASE s.commandID = 0
  BY <1>1 DEF oneWake
<1>2. CASE s.commandID # 0
  <2>1. /\ s.lastQueued \in Requests /\ givenID(s.lastQueued) = s.commandID
        /\ born[s.lastQueued] = b /\ s.commandID > 0
        /\ s.target = Server!normalizeTarget(arg[s.lastQueued])
    BY <1>2 DEF oneWake, States
  <2>2. /\ givenID(s.lastQueued)' = givenID(s.lastQueued)
        /\ born'[s.lastQueued] = born[s.lastQueued]
        /\ arg'[s.lastQueued] = arg[s.lastQueued]
    BY <2>1, Frozen
  <2> QED BY <1>2, <2>1, <2>2 DEF oneWake
<1> QED BY <1>1, <1>2

LEMMA ReportPersists ==
  ASSUME Shape, Given, [Next]_vars, NEW s \in States, oneReport(s)
  PROVE  oneReport(s)'
<1>1. CASE s.lastReportTime = Nothing
  BY <1>1 DEF oneReport
<1>2. CASE s.lastReportTime # Nothing
  <2>1. /\ s.lastReportTime \in Requests /\ kind[s.lastReportTime] = "report"
        /\ s.lastReport = arg[s.lastReportTime]
    BY <1>2 DEF oneReport, States
  <2>2. kind[s.lastReportTime] # Nothing
    BY <2>1, RequestAssumption DEF Kinds
  <2>3. /\ kind'[s.lastReportTime] = kind[s.lastReportTime]
        /\ arg'[s.lastReportTime] = arg[s.lastReportTime]
    BY <2>1, <2>2, Frozen
  <2> QED BY <1>2, <2>1, <2>3 DEF oneReport
<1> QED BY <1>1, <1>2

LEMMA PairPersists ==
  ASSUME Shape, Given, [Next]_vars, NEW id \in Nat, id > 0, NEW t, NEW b,
         isWake(id, t, b)
  PROVE  isWake(id, t, b)'
<1>1. PICK w \in Requests : /\ givenID(w) = id /\ born[w] = b
                            /\ Server!normalizeTarget(arg[w]) = t
  BY DEF isWake
<1>2. givenID(w)' = id /\ born'[w] = b /\ arg'[w] = arg[w]
  BY <1>1, Frozen
<1> QED BY <1>1, <1>2 DEF isWake

\* Only a request between lock and unlock changes the shared fields.
LEMMA OutsideState ==
  ASSUME Shape, NEW r \in Requests, Handle(r), pc[r] \notin Critical
  PROVE  state' = state
BY DEF Handle, Lock, Unlock, IncrementID, SetTarget, SetLastQueued, ReturnID,
       SetLastReport, SetReportTime, CopyField, Respond, Critical, Midway

LEMMA HandleMoment ==
  ASSUME Shape, Counted, Given, Moment, NEW r \in Requests, Handle(r)
  PROVE  Moment'
<1>1. [Next]_vars /\ Shape' /\ Given'
  BY ShapeStep, GivenStep DEF Next
<1>2. /\ UNCHANGED <<kind, arg, crashes, born, floor>>
      /\ \A q \in Requests \ {r} : pc'[q] = pc[q] /\ seen'[q] = seen[q]
      /\ ~ReturnID(r) /\ ~CopyField(r) => seen' = seen
      /\ born[r] = crashes
  BY HandleFrame
<1>3. MomentOK(r) /\ CopyOK(r) /\ PlaceOK(r)
  BY DEF Moment, Shape
<1>4. state \in States /\ state' \in States /\ crashes' = crashes
  BY <1>1, <1>2 DEF Shape, Types
<1>5. ASSUME pc[r] \in Critical, NEW q \in Requests \ {r}
      PROVE  pc[q] \notin Critical /\ pc'[q] \notin Critical
  BY <1>2, <1>5 DEF Shape, Locked
<1>6. ASSUME NEW q \in Requests, q # r PROVE MomentOK(q)'
  <2>1. /\ pc'[q] = pc[q] /\ kind'[q] = kind[q] /\ arg'[q] = arg[q]
        /\ seen'[q] = seen[q] /\ born'[q] = born[q] /\ MomentOK(q)
    BY <1>2, <1>6 DEF Moment
  <2>2. pc[q] \in Critical => state' = state
    BY <1>5, <1>6, OutsideState
  <2>3. PICK s \in States : s = seen[q]
    BY DEF Shape, Types
  <2>4. PICK b : b = born[q]
    OBVIOUS
  <2>5. oneWake(s, b) => oneWake(s, b)'
    BY <1>1, WakePersists
  <2>6. oneReport(s) => oneReport(s)'
    BY <1>1, ReportPersists
  <2>7. s.commandID > 0 /\ isWake(s.commandID, s.target, b) =>
          isWake(s.commandID, s.target, b)'
    <3>1. s.commandID \in Nat
      BY DEF States
    <3> QED BY <1>1, <3>1, PairPersists
  <2>8. kind[q] = "poll" /\ pc[q] \in {"respond", "done"} /\ s.commandID > 0 =>
          isWake(seen[q].commandID, seen[q].target, born[q])'
    BY <2>1, <2>3, <2>4, <2>7 DEF MomentOK, isWake
  <2>9. kind[q] = "index" /\ pc[q] \in {"respond", "done"} =>
          oneWake(seen[q], born[q])' /\ oneReport(seen[q])'
    BY <2>1, <2>3, <2>4, <2>5, <2>6 DEF MomentOK, oneWake, oneReport
  <2> QED BY <2>1, <2>2, <2>3, <2>8, <2>9 DEF MomentOK, Critical, Midway
<1>7. ~midway /\ ~IncrementID(r) => ~midway' /\ oneWake(state, crashes)'
  <2> SUFFICES ASSUME ~midway, ~IncrementID(r)
               PROVE  ~midway' /\ oneWake(state, crashes)'
    OBVIOUS
  <2>1. pc[r] \notin Midway /\ \A q \in Requests \ {r} : pc'[q] \notin Midway
    BY <1>2 DEF midway
  <2>2. pc'[r] \notin Midway
    BY <2>1 DEF Handle, Lock, Unlock, IncrementID, SetTarget, SetLastQueued,
       ReturnID, SetLastReport, SetReportTime, CopyField, Respond, goto,
       firstStep, Midway, Shape, Types
  <2>3. /\ state'.commandID = state.commandID /\ state'.target = state.target
        /\ state'.lastQueued = state.lastQueued
    <3>1. CASE SetLastReport(r)
      BY <1>4, <3>1 DEF SetLastReport, States
    <3>2. CASE SetReportTime(r)
      BY <1>4, <3>2 DEF SetReportTime, States
    <3>3. CASE UNCHANGED state
      BY <3>3
    <3> QED BY <2>1, <3>1, <3>2, <3>3
         DEF Handle, Lock, Unlock, SetTarget, SetLastQueued, ReturnID,
             CopyField, Respond, Midway
  <2>4. PICK s \in States : s = state
    BY <1>4
  <2>5. PICK b : b = crashes
    OBVIOUS
  <2>6. oneWake(s, b)'
    BY <1>1, <2>4, <2>5, WakePersists DEF Moment
  <2>7. oneWake(state, crashes)'
    BY <1>4, <2>3, <2>4, <2>5, <2>6 DEF oneWake
  <2> QED BY <2>1, <2>2, <2>7 DEF midway
<1>8. CASE ReturnID(r)
  <2>1. /\ pc[r] = "return" /\ pc'[r] = "unlock" /\ state' = state
        /\ kind[r] = "wake" /\ seen'[r].commandID = state.commandID
        /\ kind' = kind /\ arg' = arg /\ born' = born
    <3>1. /\ pc[r] = "return" /\ pc'[r] = "unlock" /\ state' = state
          /\ seen' = [seen EXCEPT ![r].commandID = state.commandID]
      BY <1>8 DEF ReturnID, goto, Shape, Types
    <3>2. seen'[r].commandID = state.commandID
      BY <3>1 DEF Shape, Types, States
    <3>3. kind[r] = "wake"
      BY <1>3, <3>1 DEF PlaceOK, Midway
    <3> QED BY <1>2, <3>1, <3>2, <3>3
  <2>2. /\ state.commandID > 0 /\ state.lastQueued = r
        /\ state.target = Server!normalizeTarget(arg[r])
    BY <1>3, <2>1 DEF MomentOK, Midway
  <2>3. givenID(r)' = state.commandID
    BY <2>1 DEF givenID
  <2>4. oneWake(state, crashes)'
    BY <1>2, <1>4, <2>1, <2>2, <2>3 DEF oneWake, States
  <2>5. oneReport(state)' /\ \A q \in Requests : pc[q] # "set report time"
    <3>1. \A q \in Requests : pc[q] # "set report time"
      <4>1. \A q \in Requests \ {r} : pc[q] # "set report time"
        BY <1>5, <2>1 DEF Critical, Midway
      <4> QED BY <2>1, <4>1
    <3>2. PICK s \in States : s = state
      BY <1>4
    <3> QED BY <1>1, <2>1, <3>1, <3>2, ReportPersists DEF Moment, oneReport
  <2>6. MomentOK(r)'
    BY <2>1 DEF MomentOK, Midway
  <2> QED BY <1>6, <2>4, <2>5, <2>6 DEF Moment
<1>9. CASE ~ReturnID(r)
  <2>1. ~midway' => oneWake(state, crashes)'
    <3>1. IncrementID(r) => midway'
      BY DEF IncrementID, goto, midway, Midway, Shape, Types
    <3>2. midway => midway'
      <4>1. ASSUME NEW q \in Requests, q # r, pc[q] \in Midway PROVE midway'
        BY <1>2, <4>1 DEF midway
      <4>2. pc[r] \in Midway => pc'[r] \in Midway
        BY <1>9 DEF Handle, Lock, Unlock, IncrementID, SetTarget, SetLastQueued,
           SetLastReport, SetReportTime, CopyField, Respond, goto, Midway,
           Shape, Types
      <4> QED BY <4>1, <4>2 DEF midway
    <3> QED BY <1>7, <3>1, <3>2
  <2>2. (\A q \in Requests : pc'[q] # "set report time") => oneReport(state)'
    <3>1. CASE SetReportTime(r)
      <4>1. /\ pc[r] = "set report time" /\ state'.lastReportTime = r
            /\ state'.lastReport = state.lastReport
            /\ kind' = kind /\ arg' = arg
        BY <1>2, <1>4, <3>1 DEF SetReportTime, States
      <4>2. kind[r] = "report" /\ state.lastReport = arg[r]
        BY <1>3, <4>1 DEF MomentOK, PlaceOK
      <4> QED BY <4>1, <4>2, RequestAssumption DEF oneReport
    <3>2. CASE SetLastReport(r)
      <4>1. pc'[r] = "set report time"
        BY <3>2 DEF SetLastReport, goto, Shape, Types
      <4> QED BY <4>1
    <3>3. CASE ~SetReportTime(r) /\ ~SetLastReport(r)
      <4> SUFFICES ASSUME \A q \in Requests : pc'[q] # "set report time"
                   PROVE  oneReport(state)'
        OBVIOUS
      <4>1. pc[r] # "set report time"
        BY <3>3 DEF Handle, Lock, Unlock, IncrementID, SetTarget,
           SetLastQueued, ReturnID, CopyField, Respond
      <4>2. \A q \in Requests : pc[q] # "set report time"
        BY <1>2, <4>1
      <4>3. /\ state'.lastReport = state.lastReport
            /\ state'.lastReportTime = state.lastReportTime
        <5>1. CASE IncrementID(r)
          BY <1>4, <5>1 DEF IncrementID, States
        <5>2. CASE SetTarget(r)
          BY <1>4, <5>2 DEF SetTarget, States
        <5>3. CASE SetLastQueued(r)
          BY <1>4, <5>3 DEF SetLastQueued, States
        <5>4. CASE UNCHANGED state
          BY <5>4
        <5> QED BY <3>3, <5>1, <5>2, <5>3, <5>4
             DEF Handle, Lock, Unlock, ReturnID, CopyField, Respond
      <4>4. PICK s \in States : s = state
        BY <1>4
      <4>5. oneReport(s)'
        BY <1>1, <4>2, <4>4, ReportPersists DEF Moment
      <4> QED BY <4>3, <4>4, <4>5 DEF oneReport
    <3> QED BY <3>1, <3>2, <3>3
  <2>3. /\ pc'[r] \in Midway => state'.commandID > 0
        /\ pc'[r] \in {"set queued", "return"} =>
             state'.target = Server!normalizeTarget(arg[r])
        /\ pc'[r] = "return" => state'.lastQueued = r
        /\ pc'[r] = "set report time" => state'.lastReport = arg[r]
    <3>1. CASE IncrementID(r)
      <4>1. /\ pc'[r] = "set target"
            /\ state' = [state EXCEPT !.commandID = state.commandID + 1]
        BY <3>1 DEF IncrementID, goto, Shape, Types
      <4>2. state.commandID \in Nat /\ state'.commandID = state.commandID + 1
        BY <1>4, <4>1 DEF States
      <4>3. state'.commandID > 0
        BY <4>2
      <4> QED BY <4>1, <4>3
    <3>2. CASE SetTarget(r)
      <4>1. /\ pc[r] = "set target" /\ pc'[r] = "set queued"
            /\ state' = [state EXCEPT !.target = Server!normalizeTarget(arg[r])]
        BY <3>2 DEF SetTarget, stored, goto, Shape, Types
      <4> QED BY <1>3, <1>4, <4>1 DEF MomentOK, Midway, States
    <3>3. CASE SetLastQueued(r)
      <4>1. /\ pc[r] = "set queued" /\ pc'[r] = "return"
            /\ state' = [state EXCEPT !.lastQueued = r]
        BY <3>3 DEF SetLastQueued, goto, Shape, Types
      <4> QED BY <1>3, <1>4, <4>1 DEF MomentOK, Midway, States
    <3>4. CASE SetLastReport(r)
      <4>1. /\ pc'[r] = "set report time"
            /\ state' = [state EXCEPT !.lastReport = arg[r]]
        BY <3>4 DEF SetLastReport, goto, Shape, Types
      <4> QED BY <1>4, <4>1 DEF Midway, States
    <3>5. CASE ~(IncrementID(r) \/ SetTarget(r) \/ SetLastQueued(r) \/ SetLastReport(r))
      <4>1. pc'[r] \notin Midway \cup {"set report time"}
        BY <1>9, <3>5 DEF Handle, Lock, Unlock, SetReportTime, CopyField,
           Respond, goto, firstStep, Midway, Shape, Types
      <4> QED BY <4>1 DEF Midway
    <3> QED BY <3>1, <3>2, <3>3, <3>4, <3>5
  <2>4. CASE Unlock(r)
    <3>1. /\ pc[r] = "unlock" /\ pc'[r] = "respond" /\ seen' = seen /\ state' = state
          /\ kind' = kind /\ arg' = arg /\ born' = born
      BY <1>2, <2>4 DEF Unlock, goto, local, Shape, Types
    <3>2. ~midway /\ \A q \in Requests : pc[q] # "set report time"
      <4>1. \A q \in Requests \ {r} : pc[q] \notin Midway \cup {"set report time"}
        BY <1>5, <3>1 DEF Critical, Midway
      <4> QED BY <3>1, <4>1 DEF midway, Midway
    <3>3. oneWake(state, born[r]) /\ oneReport(state)
      BY <1>2, <3>2 DEF Moment
    <3>4. kind[r] = "poll" /\ seen[r].commandID > 0 =>
            isWake(seen[r].commandID, seen[r].target, born[r])
      <4> SUFFICES ASSUME kind[r] = "poll", seen[r].commandID > 0
                   PROVE  isWake(seen[r].commandID, seen[r].target, born[r])
        OBVIOUS
      <4>1. seen[r].commandID = state.commandID /\ seen[r].target = state.target
        BY <1>3, <3>1 DEF CopyOK, agree
      <4>2. /\ state.lastQueued \in Requests
            /\ givenID(state.lastQueued) = state.commandID
            /\ born[state.lastQueued] = born[r]
            /\ state.target = Server!normalizeTarget(arg[state.lastQueued])
        BY <3>3, <4>1 DEF oneWake
      <4> QED BY <4>1, <4>2 DEF isWake
    <3>5. kind[r] = "index" => seen[r] = state
      BY <1>3, <3>1 DEF CopyOK
    <3>6. \A w \in Requests : givenID(w)' = givenID(w)
      BY <3>1 DEF givenID
    <3>7. (kind[r] = "poll" /\ seen[r].commandID > 0 =>
            isWake(seen[r].commandID, seen[r].target, born[r]))'
      BY <3>1, <3>4, <3>6 DEF isWake
    <3>8. (kind[r] = "index" => oneWake(seen[r], born[r]) /\ oneReport(seen[r]))'
      BY <3>1, <3>3, <3>5, <3>6 DEF oneWake, oneReport
    <3>9. MomentOK(r)'
      BY <3>1, <3>7, <3>8 DEF MomentOK, Midway
    <3> QED BY <1>6, <2>1, <2>2, <3>9 DEF Moment
  <2>5. CASE Respond(r)
    <3>1. /\ pc[r] = "respond" /\ pc'[r] = "done" /\ seen' = seen
          /\ kind' = kind /\ arg' = arg /\ born' = born
      BY <1>2, <2>5 DEF Respond, goto, Shape, Types
    <3>2. \A w \in Requests : givenID(w)' = givenID(w)
      BY <3>1 DEF givenID
    <3>3. (kind[r] = "poll" /\ seen[r].commandID > 0 =>
            isWake(seen[r].commandID, seen[r].target, born[r]))'
      BY <1>3, <3>1, <3>2 DEF isWake, MomentOK
    <3>4. (kind[r] = "index" => oneWake(seen[r], born[r]) /\ oneReport(seen[r]))'
      BY <1>3, <3>1, <3>2 DEF oneWake, oneReport, MomentOK
    <3>5. MomentOK(r)'
      BY <3>1, <3>3, <3>4 DEF MomentOK, Midway
    <3> QED BY <1>6, <2>1, <2>2, <3>5 DEF Moment
  <2>6. CASE ~Unlock(r) /\ ~Respond(r)
    <3>1. pc'[r] \notin {"respond", "done"}
      BY <1>9, <2>6 DEF Handle, Lock, IncrementID, SetTarget, SetLastQueued,
         SetLastReport, SetReportTime, CopyField, goto, firstStep, Shape, Types
    <3>2. MomentOK(r)'
      BY <1>2, <2>3, <3>1 DEF MomentOK
    <3> QED BY <1>6, <2>1, <2>2, <3>2 DEF Moment
  <2> QED BY <2>4, <2>5, <2>6
<1> QED BY <1>8, <1>9

LEMMA ArriveMoment ==
  ASSUME Shape, Counted, Given, Moment,
         NEW r \in Requests, NEW k \in Kinds, Arrive(r, k)
  PROVE  Moment'
<1>1. [Next]_vars
  BY DEF Next
<1>2. PICK a : arg' = [arg EXCEPT ![r] = a]
  BY DEF Arrive
<1>3. /\ pc[r] = "new" /\ pc' = [pc EXCEPT ![r] = "lock"]
      /\ kind' = [kind EXCEPT ![r] = k]
      /\ born' = [born EXCEPT ![r] = crashes]
      /\ UNCHANGED <<state, seen, answer, crashes>>
  BY DEF Arrive, goto
<1>4. PICK st, c : st \in States /\ st = state /\ c = crashes
  BY DEF Shape, Types
<1>5. oneWake(st, c) => oneWake(st, c)'
  BY <1>1, <1>4, WakePersists
<1>6. oneReport(st) => oneReport(st)'
  BY <1>1, <1>4, ReportPersists
<1>7. ~midway' => oneWake(state, crashes)'
  <2>1. midway' <=> midway
    BY <1>3 DEF midway, Midway, Shape, Types
  <2> QED BY <1>3, <1>4, <1>5, <2>1 DEF Moment, oneWake
<1>8. (\A q \in Requests : pc'[q] # "set report time") => oneReport(state)'
  <2>1. (\A q \in Requests : pc'[q] # "set report time")
          => \A q \in Requests : pc[q] # "set report time"
    BY <1>3 DEF Shape, Types
  <2> QED BY <1>3, <1>4, <1>6, <2>1 DEF Moment, oneReport
<1>9. MomentOK(r)'
  <2>1. pc'[r] = "lock"
    BY <1>3 DEF Shape, Types
  <2> QED BY <2>1 DEF MomentOK, Midway
<1>10. ASSUME NEW q \in Requests, q # r PROVE MomentOK(q)'
  <2>1. /\ pc'[q] = pc[q] /\ kind'[q] = kind[q] /\ arg'[q] = arg[q]
        /\ seen'[q] = seen[q] /\ born'[q] = born[q] /\ state' = state
        /\ MomentOK(q)
    BY <1>2, <1>3, <1>10 DEF Moment, Shape, Types
  <2>2. PICK s, b : s \in States /\ s = seen[q] /\ b = born[q]
    BY DEF Shape, Types
  <2>3. oneWake(s, b) => oneWake(s, b)'
    BY <1>1, <2>2, WakePersists
  <2>4. oneReport(s) => oneReport(s)'
    BY <1>1, <2>2, ReportPersists
  <2>5. s.commandID > 0 /\ isWake(s.commandID, s.target, b) =>
          isWake(s.commandID, s.target, b)'
    <3>1. s.commandID \in Nat
      BY <2>2 DEF States
    <3> QED BY <1>1, <3>1, PairPersists
  <2>6. kind[q] = "poll" /\ pc[q] \in {"respond", "done"} /\ s.commandID > 0 =>
          isWake(seen[q].commandID, seen[q].target, born[q])'
    BY <2>1, <2>2, <2>5 DEF MomentOK, isWake
  <2>7. kind[q] = "index" /\ pc[q] \in {"respond", "done"} =>
          oneWake(seen[q], born[q])' /\ oneReport(seen[q])'
    BY <2>1, <2>2, <2>3, <2>4 DEF MomentOK, oneWake, oneReport
  <2> QED BY <2>1, <2>2, <2>6, <2>7 DEF MomentOK
<1> QED BY <1>7, <1>8, <1>9, <1>10 DEF Moment

LEMMA CrashMoment ==
  ASSUME Shape, Counted, Given, Moment, Crash
  PROVE  Moment'
<1>1. /\ state' = ZeroState
      /\ pc' = [r \in Requests |->
                  IF pc[r] \in {"new", "done"} THEN pc[r] ELSE "dropped"]
      /\ UNCHANGED <<kind, arg, seen, answer, born>>
  BY DEF Crash
<1>2. oneWake(state, crashes)' /\ oneReport(state)'
  BY <1>1 DEF oneWake, oneReport, ZeroState
<1>3. ASSUME NEW q \in Requests PROVE MomentOK(q)'
  <2>1. /\ pc'[q] \in {"new", "done", "dropped"}
        /\ pc'[q] = "done" => pc[q] = "done"
    BY <1>1
  <2>2. MomentOK(q)
    BY DEF Moment
  <2>3. \A w \in Requests : givenID(w)' = givenID(w)
    BY <1>1 DEF givenID
  <2>4. (kind[q] = "poll" /\ pc[q] = "done" /\ seen[q].commandID > 0 =>
          isWake(seen[q].commandID, seen[q].target, born[q]))'
    BY <1>1, <2>1, <2>2, <2>3 DEF MomentOK, isWake
  <2>5. (kind[q] = "index" /\ pc[q] = "done" =>
          oneWake(seen[q], born[q]) /\ oneReport(seen[q]))'
    BY <1>1, <2>1, <2>2, <2>3 DEF MomentOK, oneWake, oneReport
  <2> QED BY <2>1, <2>4, <2>5 DEF MomentOK, Midway
<1> QED BY <1>2, <1>3 DEF Moment

LEMMA MomentStep ==
  Shape /\ Counted /\ Given /\ Moment /\ [Next]_vars => Moment'
<1> SUFFICES ASSUME Shape, Counted, Given, Moment, [Next]_vars PROVE Moment'
  OBVIOUS
<1>1. CASE UNCHANGED vars
  <2>1. UNCHANGED <<state, pc, kind, arg, seen, crashes, born>>
    BY <1>1 DEF vars, local, history
  <2>2. \A w \in Requests : givenID(w)' = givenID(w)
    BY <2>1 DEF givenID
  <2>3. (~midway => oneWake(state, crashes))'
    BY <2>1, <2>2 DEF Moment, midway, oneWake
  <2>4. ((\A r \in Requests : pc[r] # "set report time") => oneReport(state))'
    BY <2>1 DEF Moment, oneReport
  <2>5. ASSUME NEW r \in Requests PROVE MomentOK(r)'
    <3>1. MomentOK(r)
      BY DEF Moment
    <3> QED BY <2>1, <2>2, <3>1 DEF MomentOK, isWake, oneWake, oneReport
  <2> QED BY <2>3, <2>4, <2>5 DEF Moment
<1> QED BY <1>1, ArriveMoment, HandleMoment, CrashMoment DEF Next, Idle

LEMMA MomentInit == Init => Moment
<1> SUFFICES ASSUME Init PROVE Moment
  OBVIOUS
<1>1. oneWake(state, crashes) /\ oneReport(state)
  BY DEF Init, ZeroState, oneWake, oneReport
<1>2. \A r \in Requests : MomentOK(r)
  BY DEF Init, MomentOK, Midway
<1> QED BY <1>1, <1>2 DEF Moment

----------------------------------------------------------------------------
\* The four layers together.
Inv == Shape /\ Counted /\ Given /\ Moment

\* What the shared fields hold outside the critical sections is one wake and
\* one report, ids are given in order, and every copy a handler answers from
\* was taken from one such moment (queueWake, handlePoll, handleReport and
\* handleIndex under serverState.mu).
THEOREM HandlersInvariant == Spec => []Inv
<1>1. Init => Inv
  BY ShapeInit, CountedInit, GivenInit, MomentInit DEF Inv
<1>2. Inv /\ [Next]_vars => Inv'
  BY ShapeStep, CountedStep, GivenStep, MomentStep DEF Inv
<1> QED BY <1>1, <1>2, PTL DEF Spec

\* Every variable keeps its type, and only a trimmed target that is not blank
\* is ever stored.
THEOREM TypeCorrect == Spec => []TypeOK
<1>1. Inv => TypeOK
  <2> SUFFICES ASSUME Inv PROVE TypeOK
    OBVIOUS
  <2>1. state \in States /\ state.commandID \in 0..MaxCommands
    BY CommandBound DEF Inv, Shape, Types
  <2>2. (\E r \in Requests : pc[r] = "set target") \/ state.commandID = 0
          \/ state.target # Blank
    <3> SUFFICES ASSUME \A r \in Requests : pc[r] # "set target",
                        state.commandID # 0
                 PROVE  state.target # Blank
      OBVIOUS
    <3>1. \E r \in Requests : state.target = Server!normalizeTarget(arg[r])
                              /\ arg[r] \in RawTargets
      <4>1. CASE midway
        <5>1. PICK r \in Requests : pc[r] \in {"set queued", "return"}
          BY <4>1 DEF midway, Midway
        <5>2. kind[r] = "wake" /\ arg[r] \in argsOf(kind[r])
          BY <5>1, RequestAssumption DEF Inv, Shape, PlaceOK, Midway, Kinds
        <5> QED BY <5>1, <5>2 DEF Inv, Moment, MomentOK, argsOf
      <4>2. CASE ~midway
        <5> DEFINE w == state.lastQueued
        <5>1. /\ w \in Requests /\ givenID(w) = state.commandID
              /\ state.target = Server!normalizeTarget(arg[w])
          BY <4>2 DEF Inv, Moment, oneWake
        <5>2. kind[w] = "wake"
          BY <5>1 DEF givenID
        <5>3. arg[w] \in argsOf(kind[w])
          BY <5>1, <5>2, RequestAssumption DEF Inv, Shape, PlaceOK, Kinds
        <5> QED BY <5>1, <5>2, <5>3 DEF argsOf
      <4> QED BY <4>1, <4>2
    <3> QED BY <3>1, NormalizeType DEF Server!Targets
  <2>3. floor \in [Requests -> 0..MaxCommands]
    BY DEF Inv, Given, GivenOK, Shape, Types
  <2> QED BY <2>1, <2>2, <2>3 DEF TypeOK, Inv, Shape, Types, States, Labels
<1> QED BY <1>1, HandlersInvariant, PTL

\* Two requests are never given the same id by one server process.
THEOREM AcksAreUnique == Spec => []AcksUnique
<1>1. Inv => AcksUnique
  BY DEF Inv, Given
<1> QED BY <1>1, HandlersInvariant, PTL

\* A poll is never answered with the id of one wake and the target of another.
THEOREM PollAnswersAreWakes == Spec => []PollAnswerIsOneWake
<1>1. Inv => PollAnswerIsOneWake
  <2> SUFFICES ASSUME Inv, NEW p \in Requests,
                      kind[p] = "poll", pc[p] = "done", answer[p] # <<>>
               PROVE  isWake(answer[p][1], answer[p][2], born[p])
    BY DEF PollAnswerIsOneWake
  <2>1. PlaceOK(p) /\ MomentOK(p) /\ seen[p] \in States
    BY DEF Inv, Shape, Types, Moment
  <2>2. arg[p] \in 0..MaxCommands
    BY <2>1, RequestAssumption DEF PlaceOK, argsOf, Kinds
  <2>3. answer[p] = pollAnswer(seen[p], arg[p])
    BY <2>1 DEF PlaceOK, response
  <2>4. /\ seen[p].commandID > arg[p]
        /\ answer[p] = <<seen[p].commandID, seen[p].target>>
    BY <2>3 DEF pollAnswer
  <2>5. seen[p].commandID > 0
    BY <2>1, <2>2, <2>4 DEF States
  <2>6. isWake(seen[p].commandID, seen[p].target, born[p])
    BY <2>1, <2>5 DEF MomentOK
  <2> QED BY <2>4, <2>6
<1> QED BY <1>1, HandlersInvariant, PTL

\* A request that arrives after a wake has been acknowledged gets a higher id,
\* or is told of that wake or a later one.
THEOREM AnswersRespectRealTime == Spec => []AckedIsSeen
<1>1. Inv => AckedIsSeen
  <2> SUFFICES ASSUME Inv, NEW r \in Requests, pc[r] = "done"
               PROVE  /\ kind[r] = "wake" => answer[r] > floor[r]
                      /\ kind[r] = "poll" /\ floor[r] > arg[r] =>
                           answer[r] # <<>> /\ answer[r][1] >= floor[r]
    BY DEF AckedIsSeen
  <2>1. PlaceOK(r) /\ GivenOK(r) /\ seen[r] \in States
    BY DEF Inv, Shape, Types, Given
  <2>2. kind[r] = "wake" => answer[r] > floor[r]
    BY <2>1 DEF PlaceOK, GivenOK, response
  <2>3. ASSUME kind[r] = "poll", floor[r] > arg[r]
        PROVE  answer[r] # <<>> /\ answer[r][1] >= floor[r]
    <3>1. seen[r].commandID >= floor[r] /\ floor[r] \in 0..MaxCommands
      BY <2>1, <2>3 DEF GivenOK
    <3>2. arg[r] \in 0..MaxCommands
      BY <2>1, <2>3, RequestAssumption DEF PlaceOK, argsOf, Kinds
    <3>3. seen[r].commandID > arg[r]
      BY <2>1, <2>3, <3>1, <3>2, RequestAssumption DEF States
    <3>4. answer[r] = <<seen[r].commandID, seen[r].target>>
      BY <2>1, <2>3, <3>3 DEF PlaceOK, response, pollAnswer
    <3> QED BY <3>1, <3>4
  <2> QED BY <2>2, <2>3
<1> QED BY <1>1, HandlersInvariant, PTL

\* The index page shows the id, target and time of one wake, and the text and
\* time of one report.
THEOREM IndexShowsOneMoment == Spec => []IndexIsOneMoment
<1>1. Inv => IndexIsOneMoment
  <2> SUFFICES ASSUME Inv, NEW p \in Requests,
                      kind[p] = "index", pc[p] = "done"
               PROVE  oneWake(answer[p], born[p]) /\ oneReport(answer[p])
    BY RequestAssumption DEF IndexIsOneMoment, oneWake, oneReport
  <2>1. answer[p] = seen[p]
    BY DEF Inv, Shape, PlaceOK, response
  <2> QED BY <2>1 DEF Inv, Moment, MomentOK
<1> QED BY <1>1, HandlersInvariant, PTL

----------------------------------------------------------------------------
\* The refinement.  A wake takes effect when it stores its target, a report
\* when it stores its text; every other step but Crash is a stuttering step.

LEMMA CommittedSame ==
  ASSUME Shape,
         state'.commandID = state.commandID,
         \A r \in Requests : pc'[r] = "set target" <=> pc[r] = "set target"
  PROVE  committedID' = committedID
BY DEF committedID

LEMMA HandleRefines ==
  ASSUME Inv, NEW r \in Requests, Handle(r)
  PROVE  [Server!ServerNext]_(Server!serverVars)
<1> USE DEF Inv
<1>1. /\ UNCHANGED <<kind, arg, crashes, born, floor>>
      /\ \A q \in Requests \ {r} : pc'[q] = pc[q]
  BY HandleFrame
<1>2. /\ state \in States /\ PlaceOK(r) /\ state.commandID \in 0..MaxCommands
      /\ MaxCommands \in Nat
  BY CommandBound, RequestAssumption DEF Shape, Types
<1>3. ASSUME pc[r] \in Critical, NEW q \in Requests \ {r}
      PROVE  pc[q] # "set target" /\ pc'[q] # "set target"
  BY <1>1, <1>3 DEF Shape, Locked, Critical, Midway
<1>4. CASE IncrementID(r)
  <2>1. /\ pc[r] = "increment" /\ pc'[r] = "set target"
        /\ state' = [state EXCEPT !.commandID = state.commandID + 1]
    BY <1>4 DEF IncrementID, goto, Shape, Types
  <2>2. /\ state'.commandID = state.commandID + 1
        /\ state'.target = state.target /\ state'.lastReport = state.lastReport
    BY <1>2, <2>1 DEF States
  <2>3. committedID = state.commandID
    BY <1>3, <2>1 DEF committedID, Critical
  <2>4. committedID' = state'.commandID - 1
    BY <2>1 DEF committedID
  <2>5. committedID' = committedID
    BY <1>2, <2>2, <2>3, <2>4
  <2> QED BY <2>2, <2>5 DEF Server!serverVars
<1>5. CASE SetTarget(r)
  <2>1. /\ pc[r] = "set target" /\ pc'[r] = "set queued"
        /\ state' = [state EXCEPT !.target = Server!normalizeTarget(arg[r])]
    BY <1>5 DEF SetTarget, stored, goto, Shape, Types
  <2>2. /\ state'.commandID = state.commandID /\ state'.lastReport = state.lastReport
        /\ state'.target = Server!normalizeTarget(arg[r])
    BY <1>2, <2>1 DEF States
  <2>3. committedID = state.commandID - 1
    BY <2>1 DEF committedID
  <2>4. committedID' = state.commandID
    BY <1>3, <2>1, <2>2 DEF committedID, Critical, Midway
  <2>5. arg[r] \in RawTargets
    BY <1>2, <2>1, RequestAssumption DEF PlaceOK, argsOf, Midway, Kinds
  <2>6. committedID' = committedID + 1 /\ committedID < MaxCommands
    BY <1>2, <2>3, <2>4
  <2>7. Server!validAdminToken(AdminToken)
    BY ActiveServer DEF Server!validAdminToken, Server!constantStringEqual
  <2>8. Server!HandleWake(AdminToken, arg[r])
    BY <2>2, <2>6, <2>7 DEF Server!HandleWake, Server!queueWake
  <2> QED BY <2>5, <2>8, ActiveServer DEF Server!ServerNext
<1>6. CASE SetLastReport(r)
  <2>1. /\ pc[r] = "set report" /\ pc'[r] = "set report time"
        /\ state' = [state EXCEPT !.lastReport = arg[r]]
    BY <1>6 DEF SetLastReport, goto, Shape, Types
  <2>2. /\ state'.commandID = state.commandID /\ state'.target = state.target
        /\ state'.lastReport = arg[r]
    BY <1>2, <2>1 DEF States
  <2>3. committedID' = committedID
    BY <1>1, <2>1, <2>2, CommittedSame
  <2>4. arg[r] \in Server!Reports
    <3>1. kind[r] = "report" /\ arg[r] \in argsOf(kind[r])
      BY <1>2, <2>1, RequestAssumption DEF PlaceOK, Kinds
    <3> QED BY <3>1, ReportAssumption DEF argsOf, Server!Reports
  <2>5. Server!validDeviceToken(DeviceToken)
    BY ActiveServer DEF Server!validDeviceToken, Server!constantStringEqual
  <2>6. Server!HandleReport(DeviceToken, arg[r])
    BY <2>2, <2>3, <2>5 DEF Server!HandleReport
  <2> QED BY <2>4, <2>6, ActiveServer DEF Server!ServerNext
<1>7. CASE ~IncrementID(r) /\ ~SetTarget(r) /\ ~SetLastReport(r)
  <2>1. pc[r] # "set target" /\ pc'[r] # "set target"
    BY <1>7 DEF Handle, Lock, Unlock, SetLastQueued, ReturnID, SetReportTime,
       CopyField, Respond, goto, firstStep, Shape, Types
  <2>2. /\ state'.commandID = state.commandID /\ state'.target = state.target
        /\ state'.lastReport = state.lastReport
    <3>1. CASE SetLastQueued(r)
      BY <1>2, <3>1 DEF SetLastQueued, States
    <3>2. CASE SetReportTime(r)
      BY <1>2, <3>2 DEF SetReportTime, States
    <3>3. CASE UNCHANGED state
      BY <3>3
    <3> QED BY <1>7, <3>1, <3>2, <3>3
         DEF Handle, Lock, Unlock, ReturnID, CopyField, Respond
  <2>3. committedID' = committedID
    BY <1>1, <2>1, <2>2, CommittedSame
  <2> QED BY <2>2, <2>3 DEF Server!serverVars
<1> QED BY <1>4, <1>5, <1>6, <1>7

\* The handlers, interleaved statement by statement under the mutex, implement
\* the server whose handlers are one step each.
THEOREM HandlersImplementServer == Spec => ImplementsServer
<1>1. Init => Server!ServerInit
  BY DEF Init, ZeroState, Server!ServerInit, committedID
<1>2. Inv /\ [Next]_vars => [Server!ServerNext]_(Server!serverVars)
  <2> SUFFICES ASSUME Inv, [Next]_vars
               PROVE  [Server!ServerNext]_(Server!serverVars)
    OBVIOUS
  <2>1. CASE UNCHANGED vars
    BY <2>1 DEF vars, Server!serverVars, committedID
  <2>2. CASE Crash
    <3>1. \A q \in Requests : pc'[q] # "set target"
      BY <2>2 DEF Crash
    <3>2. state'.commandID = 0 /\ state'.target = Blank /\ state'.lastReport = NoReport
      BY <2>2 DEF Crash, ZeroState
    <3>3. committedID' = 0
      BY <3>1, <3>2 DEF committedID
    <3> QED BY <3>2, <3>3 DEF Server!ServerNext, Server!Restart
  <2>3. ASSUME NEW r \in Requests, NEW k \in Kinds, Arrive(r, k)
        PROVE  UNCHANGED Server!serverVars
    <3>1. /\ state' = state
          /\ \A q \in Requests : pc'[q] = "set target" <=> pc[q] = "set target"
      BY <2>3 DEF Arrive, goto, Inv, Shape, Types
    <3>2. committedID' = committedID
      BY <3>1, CommittedSame DEF Inv
    <3> QED BY <3>1, <3>2 DEF Server!serverVars
  <2>4. ASSUME NEW r \in Requests, Handle(r)
        PROVE  [Server!ServerNext]_(Server!serverVars)
    BY <2>4, HandleRefines
  <2> QED BY <2>1, <2>2, <2>3, <2>4 DEF Next, Idle
<1> QED
  BY <1>1, <1>2, HandlersInvariant, PTL
     DEF Spec, ImplementsServer, Server!ServerSpec
=============================================================================
