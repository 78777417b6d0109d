------------------------------ MODULE Commands ------------------------------
(***************************************************************************)
(* From a message to its answer: what each entry makes of the text before  *)
(* it calls Handle (extractText of src/internal/feishu/bot.go,             *)
(* normalizeMessageCommand of src/internal/telegram/bot.go, Run of         *)
(* src/internal/selfhost/client.go), the dispatch on the command, and for  *)
(* /on the way from the arguments to the devices and the packets, and from *)
(* there to the answer: resolveTargets, matchDevice and wakeDevices of     *)
(* src/internal/commands/handler.go, and the wake function of main.        *)
(*                                                                         *)
(* A text is a sequence of words and of the blanks Space and Line.  A word *)
(* stands for all its spellings in upper and lower case; a device's name   *)
(* is the sequence of its words, so a word equals the name if it is its    *)
(* only word, and is part of it if it is within one of its words.          *)
(***************************************************************************)
EXTENDS Naturals, Sequences, SequencesExt, FiniteSetsExt, Subsequence

CONSTANTS Words,        \* what a text can be made of, besides blanks
          Empty,        \* the empty word
          Space, Line,  \* the two kinds of blanks
          Before,       \* per word, the part before its first "@"
          On, List, Help, Whoami, ShowLast,   \* the words "/on", "/list", ...
          AllWord,      \* the word "all"
          Numeral,      \* the words that strconv.Atoi accepts
          Number,       \* and their values, 0 for those below 1
          Within,       \* the pairs of words of which the first is in the second
          DeviceLists,  \* the configured devices: sequences of [name, mac]
          Texts         \* the texts that arrive

ASSUME WordAssumption ==
    /\ {Empty, On, List, Help, Whoami, ShowLast, AllWord} \cup Numeral \subseteq Words
    /\ Space \notin Words /\ Line \notin Words
    /\ Before \in [Words -> Words]
    /\ \A w \in Words : Before[Before[w]] = Before[w]
    /\ \A w \in {Empty, On, List, Help, Whoami, ShowLast} : Before[w] = w
    /\ AllWord \notin Numeral /\ Number \in [Numeral -> Nat]
    /\ Within \subseteq Words \X Words
    /\ \A w \in Words : <<w, w>> \in Within
    /\ Texts \subseteq Seq((Words \ {Empty}) \cup {Space, Line})
    /\ DeviceLists \subseteq Seq([name : Seq(Words), mac : Words])

VARIABLES devices,   \* cfg.WoL.Devices
          entry,     \* feishu, telegram or relay
          text,      \* the text of the message, or the target of the command
          args,      \* the words Handle sees
          next,      \* the argument the loop of resolveTargets is at
          selected,  \* positions of the devices selected so far, in order
          outcome,   \* received, resolving, not /on, ok, or why /on failed
          packets,   \* the positions of the devices sent to, in order
          answer     \* how the answer starts, and what it lists

message == <<devices, entry, text>>
vars == <<message, args, next, selected, outcome, packets, answer>>

None == [start |-> "none", lines |-> <<>>]

Init ==
    /\ devices \in DeviceLists
    /\ entry \in {"feishu", "telegram", "relay"}
    /\ text \in Texts
    /\ args = <<>>
    /\ next = 1
    /\ selected = <<>>
    /\ outcome = "received"
    /\ packets = <<>>
    /\ answer = None

----------------------------------------------------------------------------
\* What the entries make of a text.

\* strings.Fields
Fields(t) == subsequence(t, {i \in DOMAIN t : t[i] \notin {Space, Line}})

isMention(w) == w \in Words /\ w # Empty /\ Before[w] = Empty

spacesIn(t) == {i \in DOMAIN t : t[i] = Space}

\* Defect: cuts at the last space.
extractText_LastSpace(t) ==
    IF t # <<>> /\ isMention(Head(t)) /\ spacesIn(t) # {}
      THEN SubSeq(t, Max(spacesIn(t)) + 1, Len(t))
      ELSE t

\* A text that begins with "@" loses all up to its first space.
extractText(t) ==
    IF t # <<>> /\ isMention(Head(t)) /\ spacesIn(t) # {}
      THEN SubSeq(t, Min(spacesIn(t)) + 1, Len(t))
      ELSE t

\* The first word is cut at "@"; if nothing is left of it, it is gone when
\* Handle splits the text again.
normalizeMessageCommand(t) ==
    LET f == Fields(t)
    IN  IF f = <<>> THEN <<>>
        ELSE IF Before[Head(f)] = Empty THEN Tail(f)
        ELSE <<Before[Head(f)]>> \o Tail(f)

\* The relay client puts "/on" before the target, which is "all" by default.
wakeText(t) == <<On, Space>> \o IF Fields(t) = <<>> THEN <<AllWord>> ELSE t

textFor(e, t) == CASE e = "feishu" -> extractText(t)
                   [] e = "telegram" -> normalizeMessageCommand(t)
                   [] e = "relay" -> wakeText(t)

----------------------------------------------------------------------------
\* Handle.

\* normalizeCommand of the first word; without one, Handle shows the help.
commandIn(words) == IF words = <<>> THEN Help ELSE Before[Head(words)]
command == commandIn(args)
targets == IF args = <<>> THEN <<>> ELSE Tail(args)

\* Defect: counts from 0.
listDevices_FromZero ==
    [i \in DOMAIN devices |-> [number |-> i - 1, name |-> devices[i].name]]

listDevices == [i \in DOMAIN devices |-> [number |-> i, name |-> devices[i].name]]

Handle ==
    /\ outcome = "received"
    /\ args' = Fields(textFor(entry, text))
    /\ LET cmd == commandIn(args')
       IN  IF cmd = On
             THEN outcome' = "resolving" /\ UNCHANGED answer
             ELSE /\ outcome' = "not /on"
                  /\ answer' = CASE cmd = List -> [start |-> "text", lines |-> listDevices]
                                 [] cmd \in {Help, Whoami, ShowLast} ->
                                      [start |-> "text", lines |-> <<>>]
                                 [] OTHER -> [start |-> "unknown", lines |-> <<>>]
    /\ UNCHANGED <<message, next, selected, packets>>

----------------------------------------------------------------------------
\* matchDevice.

found(i) == [error |-> "none", index |-> i]

notFound(why) == [error |-> why, index |-> 0]

\* EqualFold with the name or the MAC.
isEqual(device, w) == device.name = <<w>> \/ device.mac = w

\* The name contains the word.
isPart(device, w) ==
    \E n \in DOMAIN device.name : <<w, device.name[n]>> \in Within

equalTo(ds, w) == {i \in DOMAIN ds : isEqual(ds[i], w)}
partOf(ds, w) == {i \in DOMAIN ds : isPart(ds[i], w)}

\* Defect: looks for parts of names before it looks for whole names.
matchName_PartsFirst(ds, w) ==
    IF Cardinality(partOf(ds, w)) = 1 THEN found(Min(partOf(ds, w)))
    ELSE IF partOf(ds, w) # {} THEN notFound("ambiguous")
    ELSE IF equalTo(ds, w) # {} THEN found(Min(equalTo(ds, w)))
    ELSE notFound("unknown")

\* The first device whose name or MAC it is, else the only one it is part of.
matchName(ds, w) ==
    IF equalTo(ds, w) # {} THEN found(Min(equalTo(ds, w)))
    ELSE IF Cardinality(partOf(ds, w)) = 1 THEN found(Min(partOf(ds, w)))
    ELSE IF partOf(ds, w) # {} THEN notFound("ambiguous")
    ELSE notFound("unknown")

\* A number is a position, whatever the devices are called.
matchDevice(ds, w) ==
    IF w \notin Numeral THEN matchName(ds, w)
    ELSE IF Number[w] \in DOMAIN ds THEN found(Number[w])
    ELSE notFound("no such number")

----------------------------------------------------------------------------
\* resolveTargets.

NoDevices ==
    /\ outcome = "resolving" /\ devices = <<>>
    /\ outcome' = "no devices"
    /\ UNCHANGED <<message, args, next, selected, packets, answer>>

\* No argument, or the single argument "all".
asksForAll == targets = <<>> \/ targets = <<AllWord>>

SelectAll ==
    /\ outcome = "resolving" /\ devices # <<>> /\ asksForAll
    /\ selected' = [i \in DOMAIN devices |-> i]
    /\ outcome' = "ok"
    /\ UNCHANGED <<message, args, next, packets, answer>>

inLoop == outcome = "resolving" /\ devices # <<>> /\ ~asksForAll

\* One round of the loop.  The first error gives up everything.
ResolveTarget ==
    /\ inLoop /\ next <= Len(targets)
    /\ LET m == matchDevice(devices, targets[next])
       IN  IF m.error # "none"
             THEN selected' = <<>> /\ outcome' = m.error
             ELSE /\ selected' = IF Contains(selected, m.index) THEN selected
                                   ELSE Append(selected, m.index)
                  /\ UNCHANGED outcome
    /\ next' = next + 1
    /\ UNCHANGED <<message, args, packets, answer>>

Finish ==
    /\ inLoop /\ next > Len(targets)
    /\ outcome' = "ok"
    /\ UNCHANGED <<message, args, next, selected, packets, answer>>

----------------------------------------------------------------------------
failed == outcome \in {"no devices", "no such number", "ambiguous", "unknown"}

\* The four returns of wakeDevices, by the first characters of their texts: for
\* arguments that cannot be resolved, an empty selection, a packet that could
\* not be sent, and the success text that main's wake function makes.
resolveFailed == [start |-> "cross", lines |-> <<>>]

nothingSelected == [start |-> "cross", lines |-> <<>>]

\* Defect: an error text that begins like any other.
sendFailed_Bare == [start |-> "text", lines |-> <<>>]

sendFailed == [start |-> "cross", lines |-> <<>>]

allSent == [start |-> "tick", lines |-> <<>>]

Refuse ==
    /\ failed /\ answer = None
    /\ answer' = resolveFailed
    /\ UNCHANGED <<message, args, next, selected, outcome, packets>>

\* sendWoLDevices has not sent to all devices yet.
sending == outcome = "ok" /\ answer = None /\ Len(packets) < Len(selected)

\* One round of its loop (module Wake has what happens in it).
SendNext ==
    /\ sending
    /\ packets' = Append(packets, selected[Len(packets) + 1])
    /\ UNCHANGED <<message, args, next, selected, outcome, answer>>

\* The first packet that cannot be sent ends the loop.
SendFails ==
    /\ sending
    /\ answer' = sendFailed
    /\ UNCHANGED <<message, args, next, selected, outcome, packets>>

FinishSending ==
    /\ outcome = "ok" /\ answer = None /\ Len(packets) = Len(selected)
    /\ answer' = IF selected = <<>> THEN nothingSelected ELSE allSent
    /\ UNCHANGED <<message, args, next, selected, outcome, packets>>

Answered == answer # None /\ UNCHANGED vars

\* How the relay client tells a success from the text of the answer.
reportsOk(a) == a.start \notin {"cross", "unknown"}

Next == Handle \/ NoDevices \/ SelectAll \/ ResolveTarget \/ Finish
          \/ Refuse \/ SendNext \/ SendFails \/ FinishSending \/ Answered

Spec == Init /\ [][Next]_vars

----------------------------------------------------------------------------
\* The words a text means: without a mention before the command or in it.
meant(t) ==
    LET f == Fields(t)
        g == IF f # <<>> /\ isMention(Head(f)) THEN Tail(f) ELSE f
    IN  IF g = <<>> THEN <<Help>> ELSE <<Before[Head(g)]>> \o Tail(g)

\* The first word is a mention that Feishu does not take off: a blank stands
\* before it, or no space follows.
keepsMention(t) ==
    LET f == Fields(t)
    IN  f # <<>> /\ isMention(Head(f)) /\ ~IsPrefix(<<Head(f), Space>>, t)

\* A message means the same from Feishu as from Telegram, in a group as in a
\* chat: "/on nas", "/on@bot nas" and "@bot /on nas", the mention followed by a
\* space, give Handle the same command and arguments.  A relay command always
\* wakes, and names no fewer and no more devices than its target
\* (extractText, normalizeMessageCommand, Client.Run, normalizeCommand).
CommandIsMeant ==
    outcome # "received" =>
        IF entry = "relay"
          THEN /\ command = On
               /\ IF Fields(text) = <<>> THEN asksForAll ELSE targets = Fields(text)
          ELSE \/ <<command>> \o targets = meant(text)
               \/ entry = "feishu" /\ keepsMention(text)

\* The devices a word designates by the rules of the manual (开发文档.md,
\* 设备匹配规则): a number its position, else the devices with that name or
\* MAC, the first if several have it, else all those it is part of.
designated(w) ==
    LET equal == {i \in DOMAIN devices : devices[i].name = <<w>> \/ devices[i].mac = w}
    IN  IF w \in Numeral THEN {i \in DOMAIN devices : i = Number[w]}
        ELSE IF equal # {} THEN {i \in equal : \A j \in equal : i <= j}
        ELSE {i \in DOMAIN devices :
                \E n \in DOMAIN devices[i].name :
                   <<w, devices[i].name[n]>> \in Within}

\* A command succeeds if and only if each argument designates exactly one
\* device, and then it selects these and no others, once, in the order in which
\* they are first named; one that fails sends nothing, not even to the devices
\* its first arguments designate (matchDevice, resolveTargets).
SelectsDesignated ==
    /\ failed => selected = <<>> /\ packets = <<>>
    /\ (failed \/ outcome = "ok") /\ devices # <<>> /\ ~asksForAll =>
        /\ outcome = "ok" <=> \A k \in DOMAIN targets :
                                Cardinality(designated(targets[k])) = 1
        /\ outcome = "ok" =>
             /\ ToSet(selected) = UNION {designated(targets[k]) : k \in DOMAIN targets}
             /\ \A i, j \in DOMAIN selected : i < j =>
                  \E k \in DOMAIN targets :
                    /\ selected[i] \in designated(targets[k])
                    /\ \A l \in 1..k : selected[j] \notin designated(targets[l])

\* The number that /list shows next to a device is the one that wakes it,
\* whatever other devices are called (listDevices, matchDevice).
ListedNumberSelects ==
    \A i \in DOMAIN answer.lines : \A w \in Numeral :
        Number[w] = answer.lines[i].number => matchDevice(devices, w) = found(i)

\* The devices that a wake is meant for, and whether it means any.
wanted == IF asksForAll THEN DOMAIN devices
          ELSE UNION {designated(targets[k]) : k \in DOMAIN targets}

isClear ==
    /\ devices # <<>>
    /\ ~asksForAll => \A k \in DOMAIN targets : Cardinality(designated(targets[k])) = 1

\* The relay client, which reads success off the first characters of a text,
\* reports ok exactly if the target was clear and each device that it means has
\* been sent a packet: every text that Handle returns for a failure, wherever
\* it is made, begins with one of the marks the client looks for, and no text
\* of a success does (wakeDevices, the wake function of main, Client.Run).
OkTellsWake ==
    entry = "relay" /\ answer # None =>
        (reportsOk(answer) <=> isClear /\ ToSet(packets) = wanted)
=============================================================================
