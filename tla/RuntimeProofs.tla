----------------------------- MODULE RuntimeProofs -----------------------------
(***************************************************************************)
(* The exit status of the process is explained, for every bound on procd's *)
(* retries.  ExitIsExplained speaks of a status that is already there; the *)
(* invariant adds what the results waiting in errCh already tell (one that *)
(* says canceled was sent after a signal, one that says error by a runner  *)
(* that failed) and that a server shuts down only after a signal.          *)
(***************************************************************************)
EXTENDS Runtime, TLAPS

Results == {"error", "canceled"}

ResultsExplained ==
    /\ errCh \in Seq(Results)
    /\ \A i \in 1..Len(errCh) : /\ errCh[i] = "canceled" => ctxDone
                                /\ errCh[i] = "error" => failed # {}

\* The server's second select case was ready.
ClosingExplained ==
    /\ runner = [r \in Runners |-> runner[r]]
    /\ runner["server"] = "closing" => ctxDone

Inv ==
    /\ main \in {"none", "loading", "selecting", "exited"}
    /\ service = "on" => main # "none"
    /\ ResultsExplained
    /\ ClosingExplained
    /\ ExitIsExplained

LEMMA AppendResult ==
  ASSUME NEW s \in Seq(Results), NEW e \in Results
  PROVE  /\ Append(s, e) \in Seq(Results)
         /\ Len(Append(s, e)) = Len(s) + 1
         /\ \A i \in 1..Len(s) : Append(s, e)[i] = s[i]
         /\ Append(s, e)[Len(s) + 1] = e
OBVIOUS

LEMMA NothingRuns ==
  /\ noRunner = [r \in Runners |-> noRunner[r]]
  /\ noRunner["server"] = "off"
BY DEF noRunner, Runners

LEMMA NoResults == <<>> \in Seq(Results) /\ 1..Len(<<>>) = {}
OBVIOUS

LEMMA SpawnStep ==
  ASSUME Spawn
  PROVE  Inv'
<1>1. /\ main' = "loading" /\ errCh' = <<>> /\ status' = "none"
      /\ runner' = noRunner
  BY DEF Spawn
<1>2. ResultsExplained' /\ ClosingExplained'
  BY <1>1, NoResults, NothingRuns DEF ResultsExplained, ClosingExplained
<1> QED BY <1>1, <1>2 DEF Inv, ExitIsExplained

\* exit(code) keeps the invariant when the status it leaves is explained.
LEMMA ExitStep ==
  ASSUME Inv, NEW code, exit(code), UNCHANGED <<config, failed>>,
         ctxDone' = ctxDone,
         code = "0" => ctxDone,
         code = "1" => config \in {Refused, {}} \/ failed # {}
  PROVE  Inv'
<1>1. /\ main' = "exited" /\ errCh' = <<>> /\ status' = code
      /\ runner' = noRunner
  BY DEF exit
<1>2. ResultsExplained' /\ ClosingExplained'
  BY <1>1, NoResults, NothingRuns DEF ResultsExplained, ClosingExplained
<1> QED BY <1>1, <1>2 DEF Inv, ExitIsExplained

LEMMA ReturnStep ==
  ASSUME Inv, NEW r \in Runners, NEW err \in Results, return(r, err),
         err = "canceled" => ctxDone
  PROVE  Inv'
<1>1. /\ errCh' = Append(errCh, err)
      /\ failed' = IF err = "error" THEN failed \cup {r} ELSE failed
      /\ UNCHANGED <<service, config, main, ctxDone, status>>
  BY DEF return
<1>2. /\ errCh \in Seq(Results) /\ Len(errCh) \in Nat
      /\ \A i \in 1..Len(errCh) : /\ errCh[i] = "canceled" => ctxDone
                                  /\ errCh[i] = "error" => failed # {}
  BY DEF Inv, ResultsExplained
<1>3. ASSUME NEW i \in 1..Len(errCh')
      PROVE  /\ errCh'[i] = "canceled" => ctxDone
             /\ errCh'[i] = "error" => failed' # {}
  <2>1. CASE i = Len(errCh) + 1
    BY <1>1, <1>2, <2>1, AppendResult
  <2>2. CASE i \in 1..Len(errCh)
    BY <1>1, <1>2, <2>2, AppendResult
  <2>3. Len(errCh') = Len(errCh) + 1
    BY <1>1, <1>2, AppendResult
  <2>4. i \in 1..(Len(errCh) + 1)
    BY <1>3, <2>3
  <2> QED BY <1>2, <2>1, <2>2, <2>4
<1>4. ResultsExplained'
  BY <1>1, <1>2, <1>3, AppendResult DEF ResultsExplained
<1>5. ClosingExplained'
  BY <1>1 DEF Inv, ClosingExplained, return
<1> QED BY <1>1, <1>4, <1>5 DEF Inv, ExitIsExplained

LEMMA InvStep == Inv /\ [Next]_vars => Inv'
<1> SUFFICES ASSUME Inv, [Next]_vars PROVE Inv'
  OBVIOUS
<1>1. ASSUME NEW r \in Runners, NEW s, become(r, s),
             r = "server" /\ s = "closing" => ctxDone
      PROVE  Inv'
  <2>1. /\ runner' = [runner EXCEPT ![r] = s]
        /\ UNCHANGED <<service, config, main, ctxDone, errCh, status, failed>>
    BY <1>1 DEF become
  <2>2. ClosingExplained'
    BY <1>1, <2>1 DEF Inv, ClosingExplained, Runners
  <2> QED BY <2>1, <2>2 DEF Inv, ResultsExplained, ExitIsExplained
<1>2. ASSUME ctxDone' = TRUE,
             main' = main, service' = service \/ service' = "off",
             UNCHANGED <<config, runner, errCh, status, failed>>
      PROVE  Inv'
  BY <1>2 DEF Inv, ResultsExplained, ClosingExplained, ExitIsExplained
<1>3. CASE StartService
  BY <1>3, SpawnStep DEF StartService
<1>4. CASE Respawn
  <2>1. CASE Spawn
    BY <2>1, SpawnStep
  <2>2. CASE service' = "given up" /\ UNCHANGED process
    BY <1>4, <2>2 DEF Respawn, process, Inv, ResultsExplained,
            ClosingExplained, ExitIsExplained
  <2> QED BY <1>4, <2>1, <2>2 DEF Respawn
<1>5. CASE StopService
  <2>1. main \in {"loading", "selecting", "exited"}
    BY <1>5 DEF Inv, StopService
  <2>2. service' = "off" /\ config' = config
    BY <1>5 DEF StopService
  <2>3. CASE main = "loading"
    <3>1. exit("killed") /\ UNCHANGED <<ctxDone, failed>>
      BY <1>5, <2>3 DEF StopService
    <3> QED BY <2>2, <3>1, ExitStep
  <2>4. CASE main = "selecting"
    <3>1. ctxDone' = TRUE /\ UNCHANGED <<main, runner, errCh, status, failed>>
      BY <1>5, <2>4 DEF StopService
    <3> QED BY <1>2, <2>2, <3>1
  <2>5. CASE main = "exited"
    <3>1. UNCHANGED process
      BY <1>5, <2>5 DEF StopService
    <3> QED BY <2>2, <3>1 DEF process, Inv, ResultsExplained,
            ClosingExplained, ExitIsExplained
  <2> QED BY <2>1, <2>3, <2>4, <2>5
<1>6. CASE Signal
  BY <1>2, <1>6 DEF Signal
<1>7. CASE Kill
  BY <1>7, ExitStep DEF Kill
<1>8. CASE Load
  <2>1. CASE config = Refused \/ config = {}
    BY <1>8, <2>1, ExitStep DEF Load
  <2>2. CASE ~(config = Refused \/ config = {})
    <3>1. /\ main' = "selecting"
          /\ runner' = [r \in Runners |-> IF r \in config THEN "starting" ELSE "off"]
          /\ UNCHANGED <<service, config, ctxDone, errCh, status, failed>>
      BY <1>8, <2>2 DEF Load
    <3>2. ClosingExplained'
      BY <3>1 DEF ClosingExplained, Runners
    <3> QED BY <3>1, <3>2 DEF Inv, ResultsExplained, ExitIsExplained
  <2> QED BY <2>1, <2>2
<1>9. CASE ExitOnSignal
  BY <1>9, ExitStep DEF ExitOnSignal, released
<1>10. CASE ExitOnResult
  <2>1. /\ errCh # <<>> /\ UNCHANGED <<config, ctxDone, failed>>
        /\ exit(IF isFailure(Head(errCh)) THEN "1" ELSE "0")
    BY <1>10 DEF ExitOnResult, endsOn
  <2>2. 1 \in 1..Len(errCh) /\ Head(errCh) = errCh[1] /\ errCh[1] \in Results
    BY <2>1 DEF Inv, ResultsExplained
  <2>3. CASE errCh[1] = "canceled"
    <3>1. ctxDone /\ ~isFailure(Head(errCh))
      BY <2>2, <2>3 DEF Inv, ResultsExplained, isFailure
    <3> QED BY <2>1, <3>1, ExitStep
  <2>4. CASE errCh[1] = "error"
    <3>1. failed # {} /\ isFailure(Head(errCh))
      BY <2>2, <2>4 DEF Inv, ResultsExplained, isFailure
    <3> QED BY <2>1, <3>1, ExitStep
  <2> QED BY <2>2, <2>3, <2>4 DEF Results
<1>11. CASE FeishuConnects \/ Break \/ Listen \/ ShutDown
            \/ \E r \in {"telegram", "client"} : PollerStarts(r)
  <2>1. \E r \in Runners, s \in {"working", "broken", "closing"} :
          become(r, s) /\ (s = "closing" => ctxDone)
    BY <1>11 DEF FeishuConnects, Break, Listen, ShutDown, PollerStarts, Runners
  <2> QED BY <1>1, <2>1
<1>12. CASE FeishuFails \/ FeishuReturns
  BY <1>12, ReturnStep DEF FeishuFails, FeishuReturns, Runners, Results
<1>13. CASE ServerFails \/ ServerReturns
  <2>1. ServerReturns => ctxDone
    BY DEF ServerReturns, Inv, ClosingExplained
  <2> QED BY <1>13, <2>1, ReturnStep
       DEF ServerFails, ServerReturns, Runners, Results
<1>14. ASSUME NEW r \in {"telegram", "client"}, PollerReturns(r) PROVE Inv'
  BY <1>14, ReturnStep DEF PollerReturns, Runners, Results
<1>15. CASE UNCHANGED vars
  BY <1>15 DEF vars, process, Inv, ResultsExplained, ClosingExplained,
               ExitIsExplained
<1> QED
  BY <1>3, <1>4, <1>5, <1>6, <1>7, <1>8, <1>9, <1>10, <1>11, <1>12, <1>13,
     <1>14, <1>15 DEF Next, Main, Poller, Server

\* Whichever case of the select is taken: status 0 only after a signal, and
\* status 1 only when the configuration is refused or empty or a runner has
\* failed (main, runnerResult).
THEOREM StatusIsExplained == Spec => []ExitIsExplained
<1>1. Init => Inv
  BY NoResults, NothingRuns
     DEF Init, Inv, ResultsExplained, ClosingExplained, ExitIsExplained
<1>2. Inv => ExitIsExplained
  BY DEF Inv
<1> QED BY <1>1, <1>2, InvStep, PTL DEF Spec
=============================================================================
