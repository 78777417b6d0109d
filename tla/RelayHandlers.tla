--------------------------- MODULE RelayHandlers ---------------------------
(***************************************************************************)
(* The handlers of the relay server as they run: net/http serves every     *)
(* request in a goroutine of its own, and what they share is serverState   *)
(* behind its mutex (src/internal/selfhost/server.go).  A request takes    *)
(* the lock, reads or writes one field per step, unlocks, and answers from *)
(* what it has copied; the process may die in between.  Requests that fail *)
(* the checks before the lock never touch the state and are left out.      *)
(*                                                                         *)
(* The handlers implement RelayServer, where each of them is one step.     *)
(***************************************************************************)
EXTENDS Naturals, Sequences, FiniteSetsExt

CONSTANTS RawTargets, Blank, All, Trim,                 \* as in RelayServer
          Tokens, NoToken, AdminToken, DeviceToken,
          NoReport, MaxCommands,
          MaxRequests,  \* bound: the requests of one run
          ReportBodies, \* what a report may say
          Free,         \* mu is not locked
          Nothing,      \* no argument, no answer, no time yet
          MaxCrashes    \* bound: how often the process dies

\* Requests are numbered as they arrive.
Requests == 1..MaxRequests
Kinds == {"wake", "poll", "report", "index"}

ASSUME RequestAssumption ==
    /\ Free \notin Requests /\ Nothing \notin Requests /\ Nothing \notin Kinds
    /\ MaxRequests \in Nat /\ MaxCrashes \in Nat /\ MaxCommands \in Nat

\* What strings.TrimSpace does, as far as normalizeTarget needs it.
ASSUME TrimAssumption ==
    /\ {Blank, All} \subseteq RawTargets /\ Blank # All
    /\ Trim \in [RawTargets -> RawTargets] /\ Trim[All] = All
    /\ \A t \in RawTargets : Trim[Trim[t]] = Trim[t]

\* validate() refuses a server without both tokens.
ASSUME ActiveServer == {AdminToken, DeviceToken} \subseteq Tokens \ {NoToken}

ASSUME ReportAssumption ==
    ReportBodies \subseteq [command_id : 0..MaxCommands, ok : BOOLEAN]

VARIABLES
  state,   \* serverState without its mutex
  mu,      \* the request that holds the mutex, or Free
  pc,      \* per request, where its handler is
  kind,    \* which handler that is
  arg,     \* its argument: target, last_id or report
  left,    \* the fields it has still to copy
  seen,    \* the fields it has copied
  answer,  \* its answer
  \* history, which no step of the program reads
  crashes, \* how often the process has died
  born,    \* per request, crashes when it arrived
  floor    \* and the highest id acknowledged by then

local == <<kind, arg, left, seen, answer>>
history == <<crashes, born, floor>>
vars == <<state, mu, pc, local, history>>

ZeroState == [commandID |-> 0, target |-> Blank, lastReport |-> NoReport,
              lastQueued |-> Nothing, lastReportTime |-> Nothing]

\* The shared fields in the order in which the handlers read them.
PollFields == <<"commandID", "target">>
IndexFields == <<"commandID", "target", "lastReport", "lastQueued",
                 "lastReportTime">>

Init ==
    /\ state = ZeroState
    /\ mu = Free
    /\ pc = [r \in Requests |-> "new"]
    /\ kind = [r \in Requests |-> Nothing]
    /\ arg = [r \in Requests |-> Nothing]
    /\ left = [r \in Requests |-> <<>>]
    /\ seen = [r \in Requests |-> ZeroState]
    /\ answer = [r \in Requests |-> Nothing]
    /\ crashes = 0
    /\ born = [r \in Requests |-> 0]
    /\ floor = [r \in Requests |-> 0]

----------------------------------------------------------------------------
\* RelayServer, seen through the lock.  The id of a wake that has not stored
\* its target yet does not count.
committedID ==
    IF \E r \in Requests : pc[r] = "set target" THEN state.commandID - 1
                                                 ELSE state.commandID

Server == INSTANCE RelayServer WITH
    commandID <- committedID,
    target <- state.target,
    lastReport <- state.lastReport

----------------------------------------------------------------------------
goto(r, label) == pc' = [pc EXCEPT ![r] = label]

\* Where a handler goes once it has the lock.
firstStep(r) == CASE kind[r] = "wake" -> "increment"
                  [] kind[r] = "report" -> "set report"
                  [] OTHER -> "copy"

\* What a request of kind k may say, and the fields its handler copies.
argsOf(k) == CASE k = "wake" -> RawTargets
               [] k = "poll" -> 0..MaxCommands
               [] k = "report" -> ReportBodies
               [] k = "index" -> {Nothing}
fieldsOf(k) == CASE k = "poll" -> PollFields
                 [] k = "index" -> IndexFields
                 [] OTHER -> <<>>

\* The ids that requests to this process have been given so far.
ackedIDs == {answer[w] : w \in {w \in Requests :
               kind[w] = "wake" /\ pc[w] = "done" /\ born[w] = crashes}}

\* A request of kind k arrives and passes its checks.
Arrive(r, k) ==
    /\ pc[r] = "new" /\ \A q \in 1..(r - 1) : pc[q] # "new"
    /\ k = "wake" => Cardinality({w \in Requests : kind[w] = k}) < MaxCommands
    /\ kind' = [kind EXCEPT ![r] = k]
    /\ \E a \in argsOf(k) : arg' = [arg EXCEPT ![r] = a]
    /\ left' = [left EXCEPT ![r] = fieldsOf(k)]
    /\ goto(r, "lock")
    /\ born' = [born EXCEPT ![r] = crashes]
    /\ floor' = [floor EXCEPT ![r] = Max(ackedIDs \cup {0})]
    /\ UNCHANGED <<state, mu, seen, answer, crashes>>

\* Defects: a handler goes on without waiting for the lock.
available_ToWakes(r) == mu = Free \/ kind[r] = "wake"
available_ToPolls(r) == mu = Free \/ kind[r] = "poll"
available_ToIndex(r) == mu = Free \/ kind[r] = "index"

available(r) == mu = Free

Lock(r) ==
    /\ pc[r] = "lock" /\ available(r)
    /\ mu' = r
    /\ goto(r, firstStep(r))
    /\ UNCHANGED <<state, local, history>>

\* Defect: a failed report returns without unlocking.
released_NotAfterFailure(r) ==
    IF kind[r] = "report" /\ ~arg[r].ok THEN mu ELSE Free

released(r) == Free

Unlock(r) ==
    /\ pc[r] = "unlock"
    /\ mu' = released(r)
    /\ goto(r, "respond")
    /\ UNCHANGED <<state, local, history>>

----------------------------------------------------------------------------
\* queueWake, one statement per step.

IncrementID(r) ==
    /\ pc[r] = "increment"
    /\ state' = [state EXCEPT !.commandID = @ + 1]
    /\ goto(r, "set target")
    /\ UNCHANGED <<mu, local, history>>

\* Defect: stores the target as it was sent.
stored_Raw(r) == arg[r]

stored(r) == Server!normalizeTarget(arg[r])

SetTarget(r) ==
    /\ pc[r] = "set target"
    /\ state' = [state EXCEPT !.target = stored(r)]
    /\ goto(r, "set queued")
    /\ UNCHANGED <<mu, local, history>>

\* lastQueued = time.Now(); a time is named by the request that took it.
SetLastQueued(r) ==
    /\ pc[r] = "set queued"
    /\ state' = [state EXCEPT !.lastQueued = r]
    /\ goto(r, "return")
    /\ UNCHANGED <<mu, local, history>>

\* The result is evaluated before the deferred unlock.
ReturnID(r) ==
    /\ pc[r] = "return"
    /\ seen' = [seen EXCEPT ![r].commandID = state.commandID]
    /\ goto(r, "unlock")
    /\ UNCHANGED <<state, mu, kind, arg, left, answer, history>>

\* The critical section of handleReport.

SetLastReport(r) ==
    /\ pc[r] = "set report"
    /\ state' = [state EXCEPT !.lastReport = arg[r]]
    /\ goto(r, "set report time")
    /\ UNCHANGED <<mu, local, history>>

SetReportTime(r) ==
    /\ pc[r] = "set report time"
    /\ state' = [state EXCEPT !.lastReportTime = r]
    /\ goto(r, "unlock")
    /\ UNCHANGED <<mu, local, history>>

\* The critical sections of handlePoll and handleIndex: copy the next field.
CopyField(r) ==
    /\ pc[r] = "copy"
    /\ seen' = [seen EXCEPT ![r][Head(left[r])] = state[Head(left[r])]]
    /\ left' = [left EXCEPT ![r] = Tail(@)]
    /\ goto(r, IF Len(left[r]) = 1 THEN "unlock" ELSE "copy")
    /\ UNCHANGED <<state, mu, kind, arg, answer, history>>

----------------------------------------------------------------------------
\* Defect: answers a poll whose last_id is the newest command but one with
\* nothing.
pollAnswer_Late(copied, last) ==
    IF copied.commandID > last + 1
      THEN <<copied.commandID, copied.target>> ELSE <<>>

\* The pollResponse: id and target of a wake, or empty.
pollAnswer(copied, last) ==
    IF copied.commandID > last
      THEN <<copied.commandID, copied.target>> ELSE <<>>

\* The answer is written after the unlock, from the copies.
Respond(r) ==
    /\ pc[r] = "respond"
    /\ answer' = [answer EXCEPT ![r] =
         CASE kind[r] = "wake" -> seen[r].commandID
           [] kind[r] = "poll" -> pollAnswer(seen[r], arg[r])
           [] kind[r] = "report" -> "ok"
           [] kind[r] = "index" -> seen[r]]
    /\ goto(r, "done")
    /\ UNCHANGED <<state, mu, kind, arg, left, seen, history>>

\* The process dies with its goroutines and connections, and is started again.
Crash ==
    /\ crashes < MaxCrashes
    /\ crashes' = crashes + 1
    /\ state' = ZeroState
    /\ mu' = Free
    /\ pc' = [r \in Requests |->
                IF pc[r] \in {"new", "done"} THEN pc[r] ELSE "dropped"]
    /\ left' = [r \in Requests |-> <<>>]
    /\ UNCHANGED <<kind, arg, seen, answer, born, floor>>

----------------------------------------------------------------------------
Handle(r) ==
    \/ Lock(r)
    \/ Unlock(r)
    \/ IncrementID(r)
    \/ SetTarget(r)
    \/ SetLastQueued(r)
    \/ ReturnID(r)
    \/ SetLastReport(r)
    \/ SetReportTime(r)
    \/ CopyField(r)
    \/ Respond(r)

\* All requests of the run are over: the server is idle, not deadlocked.
Idle ==
    /\ \A r \in Requests : pc[r] \in {"done", "dropped"}
    /\ UNCHANGED vars

Next == Crash \/ Idle \/ \E r \in Requests : (\E k \in Kinds : Arrive(r, k)) \/ Handle(r)

Spec == Init /\ [][Next]_vars

\* Every goroutine runs on, and a free mutex is given to a waiter: each request
\* locks once, so weak fairness is enough.
FairSpec == Spec /\ \A r \in Requests : WF_vars(Handle(r))

----------------------------------------------------------------------------
\* Every variable keeps its type, and only a trimmed target that is not blank
\* is ever stored.
TypeOK ==
    /\ state.commandID \in 0..MaxCommands
    /\ state.target \in Server!Targets \cup {Blank}
    /\ (\E r \in Requests : pc[r] = "set target") \/ state.commandID = 0
         \/ state.target # Blank
    /\ state.lastReport \in ReportBodies \cup {NoReport}
    /\ {state.lastQueued, state.lastReportTime} \subseteq Requests \cup {Nothing}
    /\ mu \in Requests \cup {Free}
    /\ pc \in [Requests -> {"new", "lock", "increment", "set target",
                 "set queued", "return", "set report", "set report time",
                 "copy", "unlock", "respond", "done", "dropped"}]
    /\ crashes \in 0..MaxCrashes
    /\ born \in [Requests -> 0..MaxCrashes]
    /\ floor \in [Requests -> 0..MaxCommands]

\* The id a wake request was given, or 0.
givenID(w) == IF kind[w] = "wake" THEN seen[w].commandID ELSE 0

\* A pair of id and target belongs to one wake of incarnation b.
isWake(id, t, b) ==
    \E w \in Requests : /\ givenID(w) = id /\ born[w] = b
                        /\ Server!normalizeTarget(arg[w]) = t

\* Two requests are never given the same id by one server process: increment
\* and return are one critical section (queueWake).
AcksUnique ==
    \A v, w \in Requests :
        v # w /\ givenID(v) > 0 /\ born[v] = born[w] => givenID(v) # givenID(w)

\* A poll is never answered with the id of one wake and the target of another
\* (handlePoll copies both under the lock).
PollAnswerIsOneWake ==
    \A p \in Requests :
        kind[p] = "poll" /\ pc[p] = "done" /\ answer[p] # <<>> =>
            isWake(answer[p][1], answer[p][2], born[p])

\* Answers respect real time: a request that arrives after a wake has been
\* acknowledged gets a higher id, or is told of that wake or a later one.
AckedIsSeen ==
    \A r \in Requests : pc[r] = "done" =>
        /\ kind[r] = "wake" => answer[r] > floor[r]
        /\ kind[r] = "poll" /\ floor[r] > arg[r] =>
             answer[r] # <<>> /\ answer[r][1] >= floor[r]

\* The index page shows one moment: the id, target and time of one wake, and
\* the text and time of one report (handleIndex copies under the lock).
IndexIsOneMoment ==
    \A p \in Requests : kind[p] = "index" /\ pc[p] = "done" =>
        LET page == answer[p]
        IN  /\ IF page.commandID = 0
                 THEN page.target = Blank /\ page.lastQueued = Nothing
                 ELSE /\ page.lastQueued # Nothing
                      /\ givenID(page.lastQueued) = page.commandID
                      /\ page.target =
                           Server!normalizeTarget(arg[page.lastQueued])
            /\ IF page.lastReportTime = Nothing
                 THEN page.lastReport = NoReport
                 ELSE page.lastReport = arg[page.lastReportTime]

\* The handlers implement the atomic server.
ImplementsServer == Server!ServerSpec

\* Every request that arrives is answered, unless the process dies.
RequestIsAnswered ==
    \A r \in Requests : (pc[r] = "lock") ~> (pc[r] \in {"done", "dropped"})
=============================================================================
