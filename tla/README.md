# A TLA+ model of Wrt-WoL

`feishu-wol` turns chat messages and web requests into Wake-on-LAN packets. One
binary runs up to four *runners* in one process: a Feishu bot, a Telegram bot, a
self-hosted relay server (on a public host) and a relay client (on the OpenWrt
router, polling that server). This directory holds TLA+ modules of its logic,
TLC configurations that check them on small instances, and proofs that TLAPS
checks for every value of the constants. `PROJECT.json` maps every definition to
the lines it models.

## Inventory

| Component | Source | State | Operations | Module |
|---|---|---|---|---|
| Relay server | `internal/selfhost/server.go` | `serverState`: `commandID`, `target`, `lastReport` and two times, behind one mutex; memory only | `handleIndex`, `handleWakePage`, `handleWakeAPI`, `handlePoll`, `handleReport`, `queueWake`; `Run` listens and shuts down | `RelayServer`, `RelayHandlers`, `Runtime` |
| Relay client | `internal/selfhost/client.go` | the cursor `lastID`, a local of `Run` | poll, execute, report, sleep | `Relay` |
| Command handler | `internal/commands/handler.go`, with the texts made by `extractText`, `normalizeMessageCommand` and the relay client | `lastWake`, behind a mutex | `/on`, `/last`, `/list`; `/help` and `/whoami` only format | `Commands`, `Wake` |
| Sending | `cmd/feishu-wol/main.go` (`sendWoLDevices`), `internal/wol/wol.go` | none | one packet per device from the address of its interface, stop at the first error | `Wake`, `Wol` |
| Telegram bot | `internal/telegram/bot.go` | `offset`, a local of `Run` | drop pending updates, long poll, handle, reply | `TelegramBot` |
| Feishu bot | `internal/feishu/bot.go` | none: no record of messages | one callback per delivery: check, execute, reply, return | `FeishuBot` |
| Configuration | `internal/config/config.go`, `buildRunners` in `main.go`, `start_service` of the init script | `Config`, built once | environment from UCI, file, defaults, environment, devices, validation, activation | `Config` |
| Process runtime | `cmd/feishu-wol/main.go`, `Run` of each runner, the init script | the runners, `errCh`, the signal context | start, first result or signal, exit; respawn by procd | `Runtime` |
| OpenWrt service, LuCI pages, packaging | `openwrt/`, `scripts/`, `deploy/` | UCI options | build the environment, start, stop, respawn | `Config`, `Runtime` (init script); the rest left out |

How they interact: Feishu, Telegram and the relay client call
`commands.Handler.Handle` from goroutines of their own. The handler resolves the
arguments to devices and calls `sendWoLDevices`, which sends UDP packets. The
relay server shares nothing with the handler; its clients reach it over HTTP.
Nothing is persisted anywhere.

What is hard, and what makes each part correct:

* **Relay.** The server keeps *one* command with a counter, the client keeps a
  cursor, and both lose them when their process dies. Polls and reports are lost,
  late, or handled without their answer arriving. Correct means: what a client
  executes was asked for; it executes a command once and in order; nothing is
  skipped but by a newer command; reports are true.
* **Server handlers.** `net/http` runs each request in its own goroutine. Correct
  means: ids are unique, a poll or a page never mixes two wakes, answers respect
  real time, and nobody keeps the lock.
* **Command handler.** Calls overlap, sends fail half-way, and the addresses of
  the router change in between. Correct means: the answer says what was sent, ok
  means that the selected devices and no others wake up, `/last` shows a complete
  and not a stale wake, an argument list selects what the manual says or nothing,
  and a text means the same from each entry.
* **Telegram.** The offset is the only acknowledgement. Correct means: no command
  is repeated in one life of the process, none is lost in silence, dropped ones
  stay dropped.
* **Feishu.** The platform delivers an event again until it is acknowledged, and
  the bot remembers no message. Correct means: what is acknowledged was executed,
  and what is executed again was delivered again for a fault.
* **Runtime.** A signal races the results of up to four runners, one of which may
  never return. Correct means: a stop is obeyed, a dead runner brings all back,
  and the exit status is the truth.
* **Configuration.** A setting comes from the file, the environment or a default,
  a device list from four places, and a credential alone activates a runner.
  Correct means: the right source wins, what was asked for runs and nothing else,
  with all it needs, and what is switched off does not run.

## Modules

`RelayServer` has the server's state and one atomic action per state-changing
handler (`HandleWake` for both wake routes, `HandleReport`, `Restart`), plus
`PollResponse`, the answer of `handlePoll`. Refused requests change nothing and
are stuttering steps.

`RelayHandlers` is the same server as it runs. Each request, whose kind is chosen
when it arrives, is a goroutine that takes `mu`, reads or writes one field of
`serverState` per step, unlocks and answers from its copies; `Crash` kills process and goroutines. It
implements `RelayServer!ServerSpec`. The refinement mapping is the state itself
except for `commandID`: between the increment and the store of the target in
`queueWake` the old id still counts (`committedID`).

`Relay` EXTENDS `RelayServer` and adds the clients and the network. `pc` is the
place in the loop of `Run`. A poll is sent (`SendPoll`), served (`ServePoll`, by
`handlePoll`) and received (`ReceivePoll`) or fails (`FailPoll`) in separate
steps, so its answer can be older than a wake or a restart. A report stays in
`reports` after the client stopped waiting for its answer (`FinishReport`), so it
can arrive any time later (`ReceiveReport`), or never (`LoseReport`). The cursor
moves in `FinishReport`, acknowledged or not, as the code does. `ServerRestart`
and `ClientRestart` reset what is in memory. Sleeping between polls is not a
step: it only decides when the next one is taken. The history variables
(`epoch`, `queued`, `serial`, `life`, `wakes`) are read by no action's guard; they
say which wake a poll carried.

`WakeChannel` is the abstract specification of the relay: a list of wakes asked
for and a cursor per client which only moves forward, or back to zero when the
client restarts. `Relay!ImplementsChannel` maps it to the history.

`Subsequence` says what a Go loop that appends the elements it keeps makes of a
list: the elements at a set of places, in their order. `TelegramBot`, `Config` and
`Commands` use it where the code filters.

`Wol` has the magic packet (`NewMagicPacket`), the local address (`localAddr`) and,
external, what a network card wakes up on.

`Wake` EXTENDS `Wol` and models overlapping calls of `Handle`: `BeginWake` (with
what `resolveTargets` returned), `LookUp` and `Transmit` for each device, the two
halves of `sendOne` between which `Readdress` may change the addresses of an
interface, `recordLast`, `Reply`, and `ReadLast` for `/last`.

`Commands` follows one message from its entry to its answer: what the entry makes
of the text, the dispatch of `Handle`, the loop of `resolveTargets`, the loop of
`sendWoLDevices` as far as it is about which devices a packet goes to, and the
answer, from whose first characters the relay client reads whether it succeeded.
Each return of `wakeDevices` has a text of its own (`resolveFailed`,
`nothingSelected`, `sendFailed`, `allSent`), and `packets` says what was sent,
whatever the text says. A word is
a model value; `Within` says which word contains which, `Before` what is left of it
before an "@". A device name is a sequence of words because `Handle` splits its
text at blanks.

`FeishuBot` has a goroutine per delivery of an event: `Check` with the allowlists,
`Execute`, `Reply`, which may fail, and `Return`, upon which the SDK acknowledges.
The platform (`Send`, `Deliver`, `Timeout`) is external; a fault is a timeout, a
lost acknowledgement or a crash.

`Runtime` is the process: `main` with its two-way select (`ExitOnSignal`,
`ExitOnResult`), each runner as far as it starts, fails and ends, the relay
server's listener and shutdown, and procd, which starts, stops and respawns.

`TelegramBot` models `Run`, `getUpdates` and `handleUpdate` with the Bot API as an
external actor: `Serve` deletes what is below the offset and answers the first
`Limit` of the rest; the answer can be lost (`FailPoll`, `FailDrop`).

`Config` follows the inputs of one start through `start_service` (or a start by
hand), `Load` and `buildRunners`, one step per function. A setting's value is the
place it comes from (`"file"`, `"env"`, `"default"` or `"unset"`), which is all that
precedence is about; a flag is true, false or left out where it is given, and true or
false in the result. `drop_pending_updates` is the one field that the file does not
decide, which `Precedence` states as an exception.

Operators whose comment starts with *Defect* are not part of the model. Each is
the form a plausible bug would give the definition after it; put in its place,
it makes one of the properties fail. They are there to show that the properties
can see such bugs.

## Runs

| Run | Properties | Bounds and why they suffice |
|---|---|---|
| `relay_one_client` | `CursorBehindServer`, `ImplementsChannel`, `AcceptedIsReached`, `NewCommandIsReached` | two wakes (one overtakes the other), one restart of each side |
| `relay_two_clients` | `TypeOK`, `OncePerLife`, `WokenWasQueued`, `ReportIsGenuine` | two clients, two wakes, one server restart: their reports overtake each other and the restart |
| `handlers` | `TypeOK`, `AcksUnique`, `PollAnswerIsOneWake`, `AckedIsSeen`, `IndexIsOneMoment`, `ImplementsServer`, `RequestIsAnswered` | three requests of any kinds, two of them wakes at most, one crash: two writers and a reader are all a race on one lock needs |
| `commands` | `CommandIsMeant`, `SelectsDesignated`, `ListedNumberSelects`, `OkTellsWake` | all lists of up to three devices over four names (plain, containing, two words, a number); `/on` with up to two of nine arguments; nine texts behind five prefixes of mentions and blanks; from each entry |
| `wake` | `TypeOK`, `AnswerMatchesPackets`, `OkWakesSelected`, `LastIsComplete`, `LastIsNotStale` | three calls (two wakes and a reader, or three wakes), four devices, one without a MAC and one, never selected, with the MAC of another, one change of addresses between any two steps; real packets of 102 octets |
| `telegram` | `TypeOK`, `HandledOncePerLife`, `DeletedWasHandled`, `DroppedIsNotHandled`, `CommandIsHandled` | three updates, two per answer, one restart, `drop_pending_updates` on and off |
| `feishu` | `AckedIsExecuted`, `RepeatsOnlyByFault`, `MessageIsHandled` | two messages, the second of each kind, each combination of the allowlists; two faults, so a message can meet one while it is delivered again |
| `runtime` | `ExitIsExplained`, `StopIsObeyed`, `DeadRunnerComesBack` | all sets of the four runners, procd giving up after two early exits instead of five |
| `config` | `TypeOK`, `Precedence`, `RunsWhatIsAsked`, `DevicesFromOnePlace`, `SwitchedOffWithoutFile` | 722 files, among them none and a broken one, each with 90 environments and with 73 sets of UCI options: every source of a setting, a flag, a device list and a credential meets every other, with blanks, unparsable values and missing credentials |

Three more runs find disagreements between the code and what its texts say. Each
ends in a counterexample:

| Run | Property | What happens |
|---|---|---|
| `relay_issued_once` | `IssuedOnce` | a client that restarts polls from 0 and executes the last wake again |
| `relay_latest_lost` | `LatestIsReached` | a restarted server counts from 1 again, below the client's cursor; its wakes are never fetched |
| `config_off` | `SwitchedOff` | a bot or client switched off in UCI runs because the file has its token or URL, as the installed template does |

Further observations, which the models contain:

* A device whose name has a blank cannot be addressed by it, because `Handle`
  splits its text into arguments (they fail or match other devices).
* A failed wake is not recorded, so `/last` shows an older one.
* The call that drops Telegram's pending updates may fail or cover only part of
  them, and the rest is executed; what was skipped never is (`DroppedIsNotHandled`).
* Feishu takes a mention off only if it is the very first thing in the text and a
  space follows; behind a blank or before a line break it stays, and the command is
  unknown (`keepsMention`). Telegram takes it off everywhere.
* If an interface loses its address between the lookup and the bind, the send
  fails. An interface without an IPv4 address leaves the link to the routing table:
  the packet may leave elsewhere although the answer is ok. `OkWakesSelected` tells
  the two apart by the address that was looked up for a packet (`source`), so a
  packet that left anyhow after a failed bind would not pass for the second.
* A late report replaces a newer one, and of two clients the last to report is on
  show. `ReportIsGenuine` says that it is a report of a real execution, not the newest.
* The first runner that ends ends the process. One that fails at every start, for
  instance a Feishu bot with a placeholder credential, makes procd give up after
  its early exits, and the other runners stay off with it (`service = "given up"`).
* `drop_pending_updates: false` in the file has no effect (`config.go:286` overwrites
  it after the file was read), although `config.go:93` calls YAML the fallback for
  standalone deployments, and the example file and the manual list the setting; only
  the environment can switch it off. `Precedence` holds with this one exception,
  which it asserts: in the run `config` the result is true for every file, those that
  say false included, unless the environment says false.
* MACs given by the environment are ignored when the file has devices
  (`DevicesFromOnePlace` has the order), although `config.go:91` says "Environment
  variables always win over YAML values."; settings and device lists do win.
* `main` exits on a signal without waiting: the 5 seconds that the relay server's
  `Shutdown` grants to requests are never granted in full, and a send may be cut off
  between two devices. `Relay`, `RelayHandlers`, `TelegramBot` and `FeishuBot` end the
  process at every point, and what `Wake` states holds of every beginning of a run.

`MaxCommands`, `MaxServerRestarts`, `MaxClientRestarts`, `MaxCrashes`, `MaxRequests`,
`MaxChanges`, `MaxFaults`, `MaxUpdates` and `MaxRestarts` are bounds of the
model, not of the code; they appear in guards only. `commandID` is an `int64`, whose overflow is out of reach. Deadlock is
checked in all runs: `Idle`, `Quiet`, `Answered` and `End` are the stuttering steps of a
finished run; a `Relay` or `TelegramBot` never stops polling,
and a service that is off in `Runtime` can always be started. The constants of
`Runtime` and `Wol` (`Retries`, the octets) are the code's own but for the size of
`Retries`. `CallSymmetry` in `wake` is sound: calls are told apart by nothing.

## Fairness

* `Relay!Fairness`: weak for the client's own steps, because the loop of `Run`
  has no exit but the cancelled context and each HTTP request ends (15-second
  timeout). Strong for `ServePoll` and `ReceivePoll`: polls are repeated for ever, and
  the assumption is that the network and the server do not fail *every* one.
  Nothing is assumed of reports, administrators or restarts.
* `RelayHandlers!FairSpec`: weak per request; a goroutine is scheduled, and
  `sync.Mutex` (with its starvation mode) hands the lock to a waiter. Each
  handler locks once.
* `FeishuBot!FairSpec`: weak per goroutine and for the delivery of a pending event,
  which the platform repeats. `MaxFaults` makes faults end; with faults for ever
  nothing could be promised.
* `Runtime!FairSpec`: weak for `main`, the relay server, the pollers and procd's
  respawn. `Shutdown` ends within 5 seconds and each HTTP request of a poller ends
  with the context. Nothing is assumed of Feishu, which need neither connect nor
  return, nor of who starts and stops the service.
* `TelegramBot!FairSpec`: as for `Relay`; `FailDrop` counts as an end of the
  dropping call, so nothing is assumed of its success.

## Proofs

Every invariant of a passing run, and both refinements, are theorems of the
specification they belong to. TLC shows them on the instances above; the proofs
hold for every value of the constants that satisfies the named assumptions of the
module. A component's proofs are in a module of their own.

| Module | Theorem | Property |
|---|---|---|
| `RelayProofs` | `TypeCorrect` | `TypeOK` |
| | `ExecutesOncePerLife` | `OncePerLife` |
| | `ExecutesQueued` | `WokenWasQueued` |
| | `CursorNotAhead` | `CursorBehindServer` |
| | `ReportsGenuine` | `ReportIsGenuine` |
| | `Refinement` | `ImplementsChannel` |
| `RelayHandlersProofs` | `MutexProtects` | mutual exclusion (`Shape`) |
| | `TypeCorrect` | `TypeOK` |
| | `AcksAreUnique` | `AcksUnique` |
| | `PollAnswersAreWakes` | `PollAnswerIsOneWake` |
| | `AnswersRespectRealTime` | `AckedIsSeen` |
| | `IndexShowsOneMoment` | `IndexIsOneMoment` |
| | `HandlersImplementServer` | `ImplementsServer` |
| `WakeProofs` | `TypeCorrect` | `TypeOK` |
| | `AnswersMatchPackets` | `AnswerMatchesPackets` |
| | `WakesTheSelected` | `OkWakesSelected` |
| | `LastWakeIsComplete` | `LastIsComplete` |
| | `LastWakeIsNotStale` | `LastIsNotStale` |
| `CommandsProofs` | `EntriesAgree` | `CommandIsMeant` |
| | `SelectionIsDesignated` | `SelectsDesignated` |
| | `ListedNumbers` | `ListedNumberSelects` |
| | `OkIsAWake` | `OkTellsWake` |
| `TelegramBotProofs` | `TypeCorrect` | `TypeOK` |
| | `NoneHandledTwice` | `HandledOncePerLife` |
| | `NoneLostInSilence` | `DeletedWasHandled` |
| | `SkippedIsNotHandled` | `DroppedIsNotHandled` |
| `FeishuBotProofs` | `AckedWasExecuted` | `AckedIsExecuted` |
| | `RepeatsAreFaults` | `RepeatsOnlyByFault` |
| `ConfigProofs` | `TypeCorrect` | `TypeOK` |
| | `EnvironmentWins` | `Precedence` |
| | `RunnersAreThoseAsked` | `RunsWhatIsAsked` |
| | `OneListOfDevices` | `DevicesFromOnePlace` |
| | `OptionsSwitchOff` | `SwitchedOffWithoutFile` |
| `RuntimeProofs` | `StatusIsExplained` | `ExitIsExplained` |

None of these properties is inductive: each speaks of what has been answered,
executed or shown, and the step that could break it uses something that was read,
fetched or selected earlier. Each proof module therefore builds an inductive
invariant (`Inv`, in `RelayProofs` the four layers), proves it with one lemma per
action, and derives the properties from it.

**The relay** (`TargetAssumption`, `TokenAssumption`, `BoundAssumption`,
`ReportAssumption`, `ClientAssumption`, `ReplyAssumption`).

1. `Layer1`, server: the current command is the newest accepted wake, and the ids
   accepted since the last restart are at most `commandID`.
2. `Layer2`, fetch: types, and every answer in flight or in hand is the wake that
   was accepted last when the poll was served.
3. `Layer3`, log and cursor: executed wakes were accepted; within a life serials
   and ids increase; the cursor is the id of the last executed wake of this life
   and what is in hand lies beyond it.
4. `Layer4`, reports: each report in flight or on show is about an entry of a log.

`OncePerLife` across a server restart rests on a point worth knowing: ids are not
unique then, but a wake is executed only if its id is above the cursor, and an
answer served later than another has a serial at least as high. A larger id
together with a serial at least as large is then a *different*, later wake.
`Refinement` combines the step lemmas with these layers: `Wake` maps to
`Execute`, `ClientRestart` to `Forget`, `AdminWake` to `Ask`, all others stutter.

**The handlers** (`RequestAssumption`, `TrimAssumption`, `ActiveServer`,
`ReportAssumption`; the last but one is what `server.active` demands).

1. `Shape`: types, the mutex is held by the one request between lock and unlock,
   and what a reader has copied so far is what the fields still hold.
2. `Counted`: `commandID` is the number of wakes of this process that have passed
   the increment. This is why the model's bound on wakes bounds it.
3. `Given`: ids that were given lie below the ids that will be, so a request's
   floor, the highest id acknowledged when it arrived, is below what it is told.
4. `Moment`: outside a critical section the shared fields are one wake and one
   report, and so is every copy from which a handler answers after it unlocked.

In `HandlersImplementServer` a wake takes effect at its store of the target, not at
the increment; from the increment on the mutex keeps every other request from
seeing the state in between. A report takes effect at the store of its text.

**Sending** (`CallAssumption`, `AddressAssumption`, `OctetAssumption`). `CallOK`
says at every label of a call what its packets have to do with its selection;
`Order` says that no recorded wake was answered before the call of `lastWake`
began. Where a device is woken by no other's packet is a matter of octets: two
MACs with the same packet are the same MAC. `AddressAssumption` says that no two
interfaces have the same address, without which the link of a bound socket is not
determined.

**Commands** (`WordAssumption`). One part is about splitting text: it is from left
to right, it leaves words alone, and doing it again, or behind a mention that an
entry took off, finds the same words. The other is the loop of `resolveTargets`: at
argument `next` the selection is what the arguments before it designate. For
`OkTellsWake`, `Sends` says that the packets are for a beginning of a complete
selection, and `Replies` which return an answer came from: a success needs as many
packets as selected devices, which are then exactly those wanted, and any other
return leaves one of them without a packet, because a selection has no repeats.

**Telegram** (`BotAssumption`). An answer on its way or in hand has rising ids with
none that is still stored left out in between (`Answer`); whatever lies below the
offset is handled or skipped (`Confirmed`); what this life has handled or skipped
lies below the offset (`Now`), so that the next update is above it.

**Feishu** (`MessageAssumption`). `RepeatsOnlyByFault` compares two histories that
only the deliveries connect: a message is executed at most once per delivery, and
delivered again only after a fault.

**Configuration** (`InputAssumption`). `Stages` says what the configuration is after
each function, in terms of file and environment alone; the properties follow from
its last stage. For `RunsWhatIsAsked`, which is about the inputs alone, a setting
without a default is set exactly if it is given (`FinalIsGiven`), and so `Active`
and `validate`, which see only the configuration, agree with what is asked for and
what it lacks (`ValidIsNotLacking`). The proof of `SwitchedOffWithoutFile` showed that two arms of a
`CASE` in the model of `start_service` overlapped, which TLC had resolved in favour
of the first; `handsOn` now has the condition of the script.

**Runtime** (`RetryAssumption`). A result that waits in `errCh` already tells how
its runner ended, and the relay server shuts down only after a signal.

A proof module stands alone: the facts about `Subsequence` that three of them use
are proved in each.

Only model-checked:

* liveness (`AcceptedIsReached`, `NewCommandIsReached`, `RequestIsAnswered`,
  `CommandIsHandled`, `MessageIsHandled`, `StopIsObeyed`, `DeadRunnerComesBack`),
  because the prover handles neither fairness nor `ENABLED`;
* the counterexamples of the three runs that refute a text.

## Not modelled

* HTTP details: methods, forms, JSON, headers, query parsing. A request that
  fails there changes no state.
* `/help`, `/whoami`, log lines and the HTML of the index page: formatting.
* The proxy set-up of the Telegram client, the SDK of Feishu: third-party code.
* LuCI pages, build scripts, packages and containers: no state at run time.
* A Feishu text event without content, which `handleMessage` would dereference:
  whether the platform sends one, and what the SDK does then, is outside the code.
* Real time: intervals and time-outs only decide which step comes next.

## Plan

What the models cover is listed above, and every safety property that a run checks
is proved. What is left:

1. Invariants that liveness rests on, such as that a request which waits for the
   mutex waits for one that will unlock it, as theorems next to the runs.
2. Abstract specifications of `Wake` (a call as one step) and of `TelegramBot`
   (a queue that is read once per life), with refinements like that of the relay.

Modules compose downwards: `FeishuBot`, `TelegramBot` and `Relay` execute a command,
`Commands` says which devices it selects, `Wake` sends to a selection, and `Runtime`
starts and ends them all.
