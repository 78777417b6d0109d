------------------------------- MODULE Runtime -------------------------------
(***************************************************************************)
(* The life of the process: main of src/cmd/feishu-wol/main.go with the    *)
(* goroutines of its runners, the listener and the shutdown of the relay   *)
(* server (Run of src/internal/selfhost/server.go), the loops of Telegram  *)
(* and the relay client as far as they start and end, and procd, which     *)
(* starts and stops the service as its init script asks.                   *)
(*                                                                         *)
(* procd, the Feishu SDK and the network are external.  What the runners   *)
(* do while they work is the matter of the other modules; here the process *)
(* may end at any time in the middle of it.                                *)
(***************************************************************************)
EXTENDS Naturals, Sequences

CONSTANTS Retries   \* procd gives up after as many early exits in a row

ASSUME RetryAssumption == Retries \in Nat

Runners == {"feishu", "telegram", "client", "server"}
Refused == {"refused"}   \* Load or buildRunners fails

VARIABLES
  service,  \* procd's view: off, on, or given up
  early,    \* exits in a row that procd counts as early
  config,   \* the runners the configuration asks for, or Refused
  main,     \* none, loading, selecting, or exited
  ctxDone,  \* a signal has cancelled the context
  runner,   \* per runner: off, starting, working, broken, closing or ended
  errCh,    \* the results of the runners, oldest first
  status,   \* the exit status: none, 0, 1 or killed
  failed    \* the runners that ended with an error, for the history

process == <<main, ctxDone, runner, errCh, status, failed>>
vars == <<service, early, config, process>>

noRunner == [r \in Runners |-> "off"]

Init ==
    /\ service = "off"
    /\ early = 0
    /\ config \in SUBSET Runners \cup {Refused}
    /\ main = "none"
    /\ ctxDone = FALSE
    /\ runner = noRunner
    /\ errCh = <<>>
    /\ status = "none"
    /\ failed = {}

----------------------------------------------------------------------------
\* procd.

Spawn ==
    /\ main' = "loading"
    /\ ctxDone' = FALSE
    /\ runner' = noRunner
    /\ errCh' = <<>>
    /\ status' = "none"
    /\ failed' = {}

\* The service is started, perhaps with another configuration, once an older
\* process is gone.
StartService ==
    /\ service # "on" /\ main \in {"none", "exited"}
    /\ service' = "on"
    /\ early' = 0
    /\ config' \in SUBSET Runners \cup {Refused}
    /\ Spawn

\* A process that exits is started again after 5 seconds, whatever its status,
\* unless it has not lived for an hour Retries times in a row.
Respawn ==
    /\ service = "on" /\ main = "exited"
    /\ \E lived \in {"an hour", "less"} :
         early' = IF lived = "less" THEN early + 1 ELSE 0
    /\ IF early' > Retries
         THEN service' = "given up" /\ UNCHANGED process
         ELSE Spawn /\ UNCHANGED service
    /\ UNCHANGED config

\* The process ends, and its goroutines with it.
exit(code) ==
    /\ main' = "exited"
    /\ status' = code
    /\ runner' = noRunner
    /\ errCh' = <<>>

\* The service is stopped: SIGTERM, which kills a process that has not come to
\* NotifyContext.
StopService ==
    /\ service = "on"
    /\ service' = "off"
    /\ CASE main = "loading" -> exit("killed") /\ UNCHANGED <<ctxDone, failed>>
         [] main = "selecting" -> ctxDone' = TRUE
                                  /\ UNCHANGED <<main, runner, errCh, status, failed>>
         [] main = "exited" -> UNCHANGED process
    /\ UNCHANGED <<early, config>>

\* Somebody else sends a signal, or the system is out of memory.
Signal ==
    /\ main = "selecting"
    /\ ctxDone' = TRUE
    /\ UNCHANGED <<service, early, config, main, runner, errCh, status, failed>>
Kill ==
    /\ main = "selecting"
    /\ exit("killed")
    /\ UNCHANGED <<service, early, config, ctxDone, failed>>

----------------------------------------------------------------------------
\* main.

\* Load, buildRunners, and a goroutine per runner.
Load ==
    /\ main = "loading"
    /\ IF config = Refused \/ config = {}
         THEN exit("1")
         ELSE /\ main' = "selecting"
              /\ runner' = [r \in Runners |-> IF r \in config THEN "starting" ELSE "off"]
              /\ UNCHANGED <<errCh, status>>
    /\ UNCHANGED <<service, early, config, ctxDone, failed>>

\* Defect: waits until all runners have ended.
released_AllEnded == ctxDone /\ \A r \in Runners : runner[r] \in {"off", "ended"}

\* The first case of the select is ready.
released == ctxDone

ExitOnSignal ==
    /\ main = "selecting" /\ released
    /\ exit("0")
    /\ UNCHANGED <<service, early, config, ctxDone, failed>>

\* Defect: takes the end of the context for a failure.
isFailure_Canceled(err) == err # "nil"

isFailure(err) == err \notin {"nil", "canceled"}

\* Defect: goes on with the runners that are left.
endsOn_LastResult == errCh # <<>> /\ \A r \in Runners : runner[r] \in {"off", "ended"}

\* The second case is ready: the first runner that ends ends the process.
endsOn == errCh # <<>>

ExitOnResult ==
    /\ main = "selecting" /\ endsOn
    /\ exit(IF isFailure(Head(errCh)) THEN "1" ELSE "0")
    /\ UNCHANGED <<service, early, config, ctxDone, failed>>

----------------------------------------------------------------------------
\* The runners.

become(r, s) ==
    /\ main = "selecting"
    /\ runner' = [runner EXCEPT ![r] = s]
    /\ UNCHANGED <<service, early, config, main, ctxDone, errCh, status, failed>>

\* run returns, and the goroutine sends the result; errCh has room for all.
return(r, err) ==
    /\ main = "selecting"
    /\ runner' = [runner EXCEPT ![r] = "ended"]
    /\ errCh' = Append(errCh, err)
    /\ failed' = IF err = "error" THEN failed \cup {r} ELSE failed
    /\ UNCHANGED <<service, early, config, main, ctxDone, status>>

\* wsClient.Start: connects, which may take for ever or fail, and then blocks;
\* whether it ever returns when the context is cancelled is up to the SDK.
FeishuConnects == runner["feishu"] = "starting" /\ become("feishu", "working")
FeishuFails == runner["feishu"] = "starting" /\ return("feishu", "error")
FeishuReturns ==
    runner["feishu"] \in {"starting", "working"} /\ ctxDone /\ return("feishu", "canceled")

\* The loops of Telegram and the client only end with the context; until then
\* an error makes them sleep and try again.
PollerStarts(r) == runner[r] = "starting" /\ become(r, "working")
PollerReturns(r) ==
    runner[r] \in {"starting", "working"} /\ ctxDone /\ return(r, "canceled")

\* ListenAndServe: the address may be taken, accepting may fail; its error is
\* then ready in the server's own channel.
Listen ==
    \/ runner["server"] = "starting" /\ become("server", "working")
    \/ runner["server"] = "starting" /\ become("server", "broken")
Break == runner["server"] = "working" /\ become("server", "broken")
ServerFails == runner["server"] = "broken" /\ return("server", "error")

\* When the context is done, Shutdown waits for the requests, 5 seconds at most.
ShutDown ==
    /\ runner["server"] \in {"starting", "working", "broken"} /\ ctxDone
    /\ become("server", "closing")
ServerReturns == runner["server"] = "closing" /\ return("server", "canceled")

----------------------------------------------------------------------------
Main == Load \/ ExitOnSignal \/ ExitOnResult

Poller(r) == PollerStarts(r) \/ PollerReturns(r)

Server == Listen \/ ServerFails \/ ShutDown \/ ServerReturns

Next ==
    \/ StartService \/ StopService \/ Respawn \/ Signal \/ Kill
    \/ Main
    \/ FeishuConnects \/ FeishuFails \/ FeishuReturns
    \/ \E r \in {"telegram", "client"} : Poller(r)
    \/ Server \/ Break

Spec == Init /\ [][Next]_vars

\* procd respawns, main and the runners run on.  Nobody has to start, stop,
\* signal or kill, and nothing is assumed of Feishu: it need neither connect nor
\* return.
FairSpec ==
    /\ Spec
    /\ WF_vars(Respawn)
    /\ WF_vars(Main)
    /\ \A r \in {"telegram", "client"} : WF_vars(Poller(r))
    /\ WF_vars(Server)

----------------------------------------------------------------------------
\* The status tells procd the truth, whichever case of the select is taken when
\* both are ready: 0 only after a signal, 1 only when the configuration is
\* refused or empty or a runner has failed, never for runners that the signal
\* made return (main, runnerResult).
ExitIsExplained ==
    /\ status = "0" => ctxDone
    /\ status = "1" => config \in {Refused, {}} \/ failed # {}

\* A service that is stopped stops: the process ends although the Feishu SDK
\* may never return from Start and a request may hold up Shutdown (main waits
\* for none of its runners).
StopIsObeyed == (service = "off") ~> (main \in {"none", "exited"} \/ service = "on")

\* No runner stays dead while others work on: when one ends, whatever
\* else happens, all are soon started anew, unless the service is stopped or procd gives it up.
DeadRunnerComesBack ==
    \A r \in Runners :
        (runner[r] = "ended") ~> (runner[r] = "starting" \/ service # "on")
==============================================================================
