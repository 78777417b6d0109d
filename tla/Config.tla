------------------------------- MODULE Config -------------------------------
(***************************************************************************)
(* From the files on disk to the runners of the process: start_service of  *)
(* the OpenWrt init script, which turns UCI options into environment       *)
(* variables; Load of src/internal/config/config.go, which reads the YAML  *)
(* file and lets the environment override it; and buildRunners of          *)
(* src/cmd/feishu-wol/main.go.  Every function is a step.                  *)
(*                                                                         *)
(* What matters of a setting is who has set it, so its value is "file",    *)
(* "env" or "default", or "unset" for the empty string and the number 0.   *)
(* Settings that are only handed on (log file, allowlists) are left out.   *)
(***************************************************************************)
EXTENDS Naturals, Sequences, Subsequence

CONSTANTS Files,         \* the YAML file: a record as below, Missing or Broken
          Environments,  \* the environment of a process started by hand
          Options,       \* the UCI options of the OpenWrt service
          Missing,       \* there is no file
          Broken,        \* it cannot be read or parsed
          Names, MACs,   \* the names and MACs that the inputs give to devices
          Blank          \* an empty name or MAC

Strings == {"app_id", "app_secret", "bot_token", "proxy_url", "server_url",
            "client_token", "server_token", "admin_token", "interface",
            "broadcast_ip", "log_level", "host", "poll_interval"}

Numbers == {"wol_port", "server_port"}

Settings == Strings \cup Numbers

\* The fields named enabled, and drop_pending_updates.
Flags == {"feishu", "telegram", "client", "server", "drop_pending"}

\* A device before it is completed: what it does not say itself is unset.
Device == [name : Names, mac : MACs, interface : {"own", "unset"},
           broadcast_ip : {"own", "unset"}, port : {"own", "unset"}]

Inputs(values, flags) ==
    [value : [Settings -> values], flag : [Flags -> flags],
     devices : Seq(Device), macs : Seq(MACs)]

\* A file has a value "file" or "unset" for each setting and "true", "false" or
\* "unset" for each flag.  An environment has a value "env", "bad" (no number,
\* no Boolean) or "unset" for each setting, "true", "false", "bad" or "unset"
\* for each flag, and devices and macs, <<>> if unset.
ASSUME InputAssumption ==
    /\ Files \ {Missing, Broken} \subseteq Inputs({"unset", "file"}, {"unset", "true", "false"})
    /\ Environments \subseteq Inputs({"unset", "bad", "env"},
                                    {"unset", "bad", "true", "false"})
    /\ \A e \in Environments :
         /\ \A s \in Strings : e.value[s] # "bad"
         /\ e.value["client_token"] = e.value["server_token"]
    /\ Options \subseteq [enabled : BOOLEAN, telegram : BOOLEAN, client : BOOLEAN,
                         given : SUBSET Settings, devices : Seq(Device),
                         macs : Seq(MACs)]
    /\ Blank \notin Nat

VARIABLES file, options, env,  \* the inputs
          cfg,      \* the Config under construction
          pc,       \* the function to call next, or "end"
          outcome,  \* running, or why there is no process
          runners   \* the runners that were started

vars == <<file, options, env, cfg, pc, outcome, runners>>

emptyEnv == [value |-> [s \in Settings |-> "unset"],
             flag |-> [f \in Flags |-> "unset"], devices |-> <<>>, macs |-> <<>>]

emptyConfig == [value |-> [s \in Settings |-> "unset"],
                flag |-> [f \in Flags |-> FALSE], devices |-> <<>>, macs |-> <<>>]

\* The process is started by the service, or by hand or in a container.
Init ==
    /\ file \in Files
    /\ \/ pc = "start_service" /\ options \in Options /\ env = emptyEnv
       \/ pc = "Load" /\ options = <<>> /\ env \in Environments
    /\ cfg = emptyConfig
    /\ outcome = "none"
    /\ runners = {}

goto(function) == pc' = function /\ UNCHANGED <<outcome, runners>>

fail(why) == pc' = "end" /\ outcome' = why /\ UNCHANGED runners

----------------------------------------------------------------------------
\* start_service.

\* Options for which the script has a default of its own.
Defaulted == {"interface", "broadcast_ip", "wol_port", "log_level", "poll_interval"}

\* Options that it hands on; the others are not in UCI.
HandedOn == Defaulted \cup {"app_id", "app_secret", "bot_token", "proxy_url",
                            "server_url", "client_token", "server_token"}

\* The devices that have a MAC.
withMAC(devices) ==
    subsequence(devices, {i \in DOMAIN devices : devices[i].mac # Blank})

withoutBlanks(items) ==
    subsequence(items, {i \in DOMAIN items : items[i] # Blank})

switch(on) == IF on THEN "true" ELSE "false"

\* Defect: hands on the token of a Telegram bot that is switched off.
handsOn_KeepsToken(o, s) ==
    s \in Defaulted \/ (s \in HandedOn \cap o.given /\ (s = "server_url" => o.client))

\* The token of a bot and the URL of a server that are switched off are not
\* handed on.
handsOn(o, s) ==
    \/ s \in Defaulted
    \/ /\ s \in HandedOn \cap o.given
       /\ s = "bot_token" => o.telegram
       /\ s = "server_url" => o.client

\* The environment made from options o (whose port is a number).
serviceEnv(o) ==
    [value |-> [s \in Settings |-> IF handsOn(o, s) THEN "env" ELSE "unset"],
     flag |-> [f \in Flags |-> CASE f = "telegram" -> switch(o.telegram)
                                 [] f = "client" -> switch(o.client)
                                 [] OTHER -> "unset"],
     devices |-> withMAC(o.devices), macs |-> withoutBlanks(o.macs)]

StartService ==
    /\ pc = "start_service"
    /\ IF options.enabled
         THEN env' = serviceEnv(options) /\ goto("Load")
         ELSE UNCHANGED env /\ fail("service disabled")
    /\ UNCHANGED <<file, options, cfg>>

----------------------------------------------------------------------------
\* Load.

\* A flag that the file leaves out is false.
unmarshal(f) ==
    [value |-> f.value, flag |-> [g \in Flags |-> f.flag[g] = "true"],
     devices |-> f.devices, macs |-> f.macs]

ReadFile ==
    /\ pc = "Load"
    /\ IF file = Broken
         THEN UNCHANGED cfg /\ fail("config error")
         ELSE /\ cfg' = IF file = Missing THEN emptyConfig ELSE unmarshal(file)
              /\ goto("applyDefaults")
    /\ UNCHANGED <<file, options, env>>

HasDefault == {"wol_port", "interface", "broadcast_ip", "log_level", "host",
               "server_port", "poll_interval"}

\* Defect: the defaults replace what the file says.
ApplyDefaults_Always ==
    /\ pc = "applyDefaults"
    /\ cfg' = [cfg EXCEPT
         !.value = [s \in Settings |-> IF s \in HasDefault THEN "default" ELSE @[s]],
         !.flag["drop_pending"] = TRUE]
    /\ goto("applyEnv")
    /\ UNCHANGED <<file, options, env>>

\* Pending updates are dropped whatever the file says.
ApplyDefaults ==
    /\ pc = "applyDefaults"
    /\ cfg' = [cfg EXCEPT
         !.value = [s \in Settings |->
           IF s \in HasDefault /\ @[s] = "unset" THEN "default" ELSE @[s]],
         !.flag["drop_pending"] = TRUE]
    /\ goto("applyEnv")
    /\ UNCHANGED <<file, options, env>>

\* A string that is not empty overrides; a number does if it is positive.
overrides(s) == env.value[s] = "env"

\* envBool: what strconv.ParseBool rejects is ignored.
envBool(f) == CASE env.flag[f] = "true" -> TRUE
                [] env.flag[f] = "false" -> FALSE
                [] OTHER -> cfg.flag[f]

\* parseDevices: records without a MAC are dropped.
parseDevices(records) == withMAC(records)

\* splitCSV: blank items are dropped.
splitCSV(items) == withoutBlanks(items)

ApplyEnv ==
    /\ pc = "applyEnv"
    /\ cfg' = [value |-> [s \in Settings |-> IF overrides(s) THEN "env"
                                                             ELSE cfg.value[s]],
               flag |-> [f \in Flags |-> envBool(f)],
               devices |-> IF env.devices = <<>> THEN cfg.devices
                                                 ELSE parseDevices(env.devices),
               macs |-> IF env.macs = <<>> THEN cfg.macs ELSE splitCSV(env.macs)]
    /\ goto("normalizeDevices")
    /\ UNCHANGED <<file, options, env>>

\* The devices of a configuration that has only MACs.  They are named by their
\* place in the list.
fromMACs(macs) ==
    LET places == {i \in DOMAIN macs : macs[i] # Blank}
    IN  [n \in 1..Cardinality(places) |->
           [name |-> nth(places, n), mac |-> macs[nth(places, n)],
            interface |-> "unset", broadcast_ip |-> "unset", port |-> "unset"]]

inherit(own, common) == IF own = "unset" THEN common ELSE own

\* Defect: keeps the blank name of a device.
complete_Nameless(device, i) ==
    [name |-> device.name, mac |-> device.mac,
     interface |-> inherit(device.interface, cfg.value["interface"]),
     broadcast_ip |-> inherit(device.broadcast_ip, cfg.value["broadcast_ip"]),
     port |-> inherit(device.port, cfg.value["wol_port"])]

\* A device, the i-th in the list, with what it inherits.
complete(device, i) ==
    [name |-> IF device.name = Blank THEN i ELSE device.name,
     mac |-> device.mac,
     interface |-> inherit(device.interface, cfg.value["interface"]),
     broadcast_ip |-> inherit(device.broadcast_ip, cfg.value["broadcast_ip"]),
     port |-> inherit(device.port, cfg.value["wol_port"])]

\* Defect: adds the devices of the MAC list to those of the device list.
baseDevices_Both == cfg.devices \o fromMACs(cfg.macs)

baseDevices == IF cfg.devices = <<>> THEN fromMACs(cfg.macs) ELSE cfg.devices

macsOf(devices) == [i \in DOMAIN devices |-> devices[i].mac]

NormalizeDevices ==
    /\ pc = "normalizeDevices"
    /\ LET devices == [i \in DOMAIN baseDevices |-> complete(baseDevices[i], i)]
       IN  cfg' = [cfg EXCEPT !.devices = devices, !.macs = macsOf(withMAC(devices))]
    /\ goto("validate")
    /\ UNCHANGED <<file, options, env>>

isSet(s) == cfg.value[s] # "unset"

\* FeishuConfig.Active and its namesakes.
Active(r) == CASE r = "feishu" -> cfg.flag[r] \/ isSet("app_id") \/ isSet("app_secret")
               [] r = "telegram" -> cfg.flag[r] \/ isSet("bot_token")
               [] r = "client" -> cfg.flag[r] \/ isSet("server_url")
               [] r = "server" -> cfg.flag[r]

\* The runners that send packets, and all.
Wakers == {"feishu", "telegram", "client"}

RunnerNames == Wakers \cup {"server"}

\* Defect: does not ask for the token of the relay client.
Required_NoDeviceToken(r) ==
    CASE r = "feishu" -> {"app_id", "app_secret"}
      [] r = "telegram" -> {"bot_token"}
      [] r = "client" -> {"server_url"}
      [] r = "server" -> {"admin_token", "server_token"}

Required(r) == CASE r = "feishu" -> {"app_id", "app_secret"}
                 [] r = "telegram" -> {"bot_token"}
                 [] r = "client" -> {"server_url", "client_token"}
                 [] r = "server" -> {"admin_token", "server_token"}

NeedsWoL == \E r \in Wakers : Active(r)

valid ==
    /\ \A r \in RunnerNames : Active(r) => \A s \in Required(r) : isSet(s)
    /\ NeedsWoL => cfg.devices # <<>>

Validate ==
    /\ pc = "validate"
    /\ IF valid THEN goto("buildRunners") ELSE fail("config error")
    /\ UNCHANGED <<file, options, env, cfg>>

----------------------------------------------------------------------------
\* buildRunners, and what main does with its result.

BuildRunners ==
    /\ pc = "buildRunners"
    /\ pc' = "end"
    /\ runners' = {r \in RunnerNames : Active(r)}
    /\ outcome' = IF runners' = {} THEN "no runtime enabled" ELSE "running"
    /\ UNCHANGED <<file, options, env, cfg>>

\* telegram.New cannot parse the URL of the proxy.
BuildFails ==
    /\ pc = "buildRunners" /\ Active("telegram") /\ isSet("proxy_url")
    /\ fail("build runners failed")
    /\ UNCHANGED <<file, options, env, cfg>>

End == pc = "end" /\ UNCHANGED vars

Next ==
    \/ StartService
    \/ ReadFile
    \/ ApplyDefaults
    \/ ApplyEnv
    \/ NormalizeDevices
    \/ Validate
    \/ BuildRunners
    \/ BuildFails
    \/ End

Spec == Init /\ [][Next]_vars

----------------------------------------------------------------------------
\* Every variable keeps its type, and every device has a name.
TypeOK ==
    /\ cfg.value \in [Settings -> {"unset", "default", "file", "env"}]
    /\ cfg.flag \in [Flags -> BOOLEAN]
    /\ pc \in {"validate", "buildRunners"} \/ outcome = "running" =>
         /\ \A i \in DOMAIN cfg.devices : cfg.devices[i].name # Blank
         /\ \A s \in Numbers : cfg.value[s] \in {"default", "file", "env"}
    /\ outcome \in {"none", "running", "service disabled", "config error",
                    "no runtime enabled", "build runners failed"}
    /\ runners \subseteq RunnerNames /\ (runners # {} <=> outcome = "running")

running == outcome = "running"

noFile == file \in {Missing, Broken}

inFile(s) == ~noFile /\ file.value[s] = "file"

isGiven(s) == env.value[s] = "env" \/ inFile(s)

\* What the inputs say of a flag, the environment first.
flagGiven(f) ==
    \/ env.flag[f] = "true"
    \/ env.flag[f] # "false" /\ ~noFile /\ file.flag[f] = "true"

\* A process that runs has each setting from the right place: from the
\* environment, else from the file, else from the defaults ("Environment
\* variables always win over YAML values"), and so has what each device
\* inherits, although the defaults are filled in before the environment.  The
\* same holds of the flags, with one exception, where the code departs from its
\* comment "YAML is the fallback for Docker / standalone deployments": a file
\* that says drop_pending_updates: false is not listened to, and only the
\* environment can switch it off.
Precedence ==
    running =>
        /\ \A s \in Settings :
             cfg.value[s] = IF env.value[s] = "env" THEN "env"
                            ELSE IF inFile(s) THEN "file"
                            ELSE IF s \in HasDefault THEN "default"
                            ELSE "unset"
        /\ \A f \in Flags \ {"drop_pending"} : cfg.flag[f] = flagGiven(f)
        /\ cfg.flag["drop_pending"] = (env.flag["drop_pending"] # "false")
        /\ \A i \in DOMAIN cfg.devices :
             /\ cfg.devices[i].interface \in {"own", cfg.value["interface"]}
             /\ cfg.devices[i].broadcast_ip \in {"own", cfg.value["broadcast_ip"]}
             /\ cfg.devices[i].port \in {"own", cfg.value["wol_port"]}

\* The MACs that the inputs give: those of the device list of the environment,
\* else of the file, else of the MAC list of the environment, else of the file.
macsGiven ==
    LET devices == IF env.devices # <<>> THEN parseDevices(env.devices)
                   ELSE IF noFile THEN <<>> ELSE file.devices
        macs == IF env.macs # <<>> THEN env.macs
                ELSE IF noFile THEN <<>> ELSE file.macs
    IN  IF devices # <<>> THEN macsOf(devices) ELSE splitCSV(macs)

\* The devices come from one place, in the order they have there (a number in
\* /on is a position): the device list of the environment, else that of the
\* file, else the MACs of the environment, else those of the file.
DevicesFromOnePlace == running => macsOf(cfg.devices) = macsGiven

\* The settings of which one is enough to start a runner, enabled or not, and
\* those that its code reads from its configuration when it works: the Feishu
\* SDK, the URLs of the Telegram API, the requests of the relay client and the
\* checks of the server.
activating(r) == CASE r = "feishu" -> {"app_id", "app_secret"}
                   [] r = "telegram" -> {"bot_token"}
                   [] r = "client" -> {"server_url"}
                   [] r = "server" -> {}

reads(r) == CASE r = "feishu" -> {"app_id", "app_secret"}
              [] r = "telegram" -> {"bot_token"}
              [] r = "client" -> {"server_url", "client_token"}
              [] r = "server" -> {"admin_token", "server_token"}

asked == {r \in RunnerNames : flagGiven(r) \/ \E s \in activating(r) : isGiven(s)}

lacksInput(r) == \/ \E s \in reads(r) : ~isGiven(s)
                 \/ r \in Wakers /\ macsGiven = <<>>

\* A process runs what the file and the environment ask for, all of it and
\* nothing else, and never a runner without a credential that it works with or
\* without a device to wake.  If instead it ends with an error of the
\* configuration then a runner that was asked for lacks something, and if it
\* finds nothing to run then nothing was asked for: neither a default nor the
\* order in which the places are read adds or takes away a runner (Load,
\* validate and Active against buildRunners).
RunsWhatIsAsked ==
    /\ running => runners = asked /\ \A r \in asked : ~lacksInput(r)
    /\ outcome = "config error" /\ file # Broken => \E r \in asked : lacksInput(r)
    /\ outcome = "no runtime enabled" => asked = {}

\* Without a file the service runs what its options say: the bots and clients
\* that are switched off do not run (start_service).
SwitchedOffWithoutFile ==
    running /\ options # <<>> /\ file = Missing =>
        /\ "telegram" \in runners => options.telegram
        /\ "client" \in runners => options.client

----------------------------------------------------------------------------
\* What the init script wants and the code does not do.

\* "telegram_enabled '0'" in UCI: the init script clears the token of a bot
\* that is switched off, so that it does not run.
SwitchedOff ==
    running /\ options # <<>> =>
        /\ "telegram" \in runners => options.telegram
        /\ "client" \in runners => options.client
=============================================================================
