---------------------------- MODULE RelayServer ----------------------------
(***************************************************************************)
(* The self-hosted relay server (src/internal/selfhost/server.go) with     *)
(* every handler as one atomic step: the state its mutex protects, and     *)
(* what each accepted request does to it.  RelayHandlers shows that the    *)
(* handlers, run concurrently, implement this; Relay composes it with the  *)
(* polling clients.                                                        *)
(*                                                                         *)
(* Requests that are refused (wrong method, bad form, bad JSON, invalid    *)
(* token) change nothing and are stuttering steps here.  The two time      *)
(* stamps are modelled in RelayHandlers.  commandID is an int64 in the     *)
(* code; 2^63 wake requests are out of reach, so it is a number up to the  *)
(* bound MaxCommands here.                                                 *)
(***************************************************************************)
EXTENDS Naturals

CONSTANTS RawTargets,    \* what a wake request may carry in its target field
          Blank,         \* the empty string
          All,           \* the string "all"
          Trim,          \* strings.TrimSpace on RawTargets
          Tokens,        \* what a request may carry as its token
          NoToken,       \* the empty token
          AdminToken,    \* server.cfg.AdminToken
          DeviceToken,   \* server.cfg.DeviceToken
          NoReport,      \* the initial, empty lastReport
          MaxCommands    \* bound: wake requests accepted in one run

ASSUME TargetAssumption ==
    /\ {Blank, All} \subseteq RawTargets
    /\ Blank # All
    /\ Trim \in [RawTargets -> RawTargets]
    /\ Trim[Blank] = Blank /\ Trim[All] = All
    /\ \A t \in RawTargets : Trim[Trim[t]] = Trim[t]

ASSUME TokenAssumption == {NoToken, AdminToken, DeviceToken} \subseteq Tokens

\* What normalizeTarget can return: a trimmed target that is not blank.
Targets == {t \in RawTargets : Trim[t] = t} \ {Blank}

ASSUME BoundAssumption == MaxCommands \in Nat

\* The part of a report that lastReport shows, its message text left out.
Reports == [command_id : 0..MaxCommands, ok : BOOLEAN]

ASSUME ReportAssumption == NoReport \notin Reports

VARIABLES commandID,    \* id of the last accepted wake, 0 at start
          target,       \* its target
          lastReport    \* the last report received, or NoReport

serverVars == <<commandID, target, lastReport>>

----------------------------------------------------------------------------
\* Pure helpers.

constantStringEqual(left, right) ==
    left # NoToken /\ right # NoToken /\ left = right

validAdminToken(token) == constantStringEqual(token, AdminToken)

validDeviceToken(token) == constantStringEqual(token, DeviceToken)

\* Defect: forgets the default, so a blank request stays blank.
normalizeTarget_NoDefault(t) == Trim[t]

normalizeTarget(t) == IF Trim[t] = Blank THEN All ELSE Trim[t]

\* Defect: only answers a command that is two ahead of the caller.
PollResponse_SkipsNext(last) ==
    IF commandID > last + 1
      THEN [command_id |-> commandID, command |-> "wake", target |-> target]
      ELSE [command_id |-> 0, command |-> "none", target |-> Blank]

\* The answer of handlePoll to ?last_id=last: the current command when its id
\* is above last, else the zero pollResponse (an empty command, "none" here).
PollResponse(last) ==
    IF commandID > last
      THEN [command_id |-> commandID, command |-> "wake", target |-> target]
      ELSE [command_id |-> 0, command |-> "none", target |-> Blank]

----------------------------------------------------------------------------
\* State changes.

ServerInit ==
    /\ commandID = 0
    /\ target = Blank
    /\ lastReport = NoReport

\* Defect: a blank target leaves the previous one in place.
queueWake_KeepsTarget(t) ==
    /\ commandID' = commandID + 1
    /\ target' = IF Trim[t] = Blank /\ target # Blank
                   THEN target ELSE normalizeTarget(t)

queueWake(t) ==
    /\ commandID' = commandID + 1
    /\ target' = normalizeTarget(t)

\* POST /wake (the form of the index page) and POST /api/wake: the same state
\* change behind the same check.
HandleWake(token, t) ==
    /\ validAdminToken(token)
    /\ commandID < MaxCommands
    /\ queueWake(t)
    /\ UNCHANGED lastReport

\* POST /api/report.
HandleReport(token, report) ==
    /\ validDeviceToken(token)
    /\ lastReport' = report
    /\ UNCHANGED <<commandID, target>>

\* The process dies and is started again: all of serverState is in memory.
Restart ==
    /\ commandID' = 0
    /\ target' = Blank
    /\ lastReport' = NoReport

ServerNext ==
    \/ \E token \in Tokens, t \in RawTargets : HandleWake(token, t)
    \/ \E token \in Tokens, report \in Reports : HandleReport(token, report)
    \/ Restart

ServerSpec == ServerInit /\ [][ServerNext]_serverVars
=============================================================================
