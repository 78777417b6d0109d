-------------------------------- MODULE Wake --------------------------------
(***************************************************************************)
(* The command handler shared by all entries: Handle, wakeDevices, last    *)
(* and recordLast of src/internal/commands/handler.go; the wake function   *)
(* main gives it, sendWoLDevices of src/cmd/feishu-wol/main.go; and Send   *)
(* of src/internal/wol/wol.go, which that calls for every device.          *)
(*                                                                         *)
(* Feishu, Telegram and the relay client call Handle from goroutines of    *)
(* their own, so calls overlap.  The only state they share is lastWake,    *)
(* behind a mutex; the packets of two calls may interleave, and the        *)
(* addresses of the router may change between the steps of one.  What an   *)
(* argument list resolves to is the matter of module Commands; here a call *)
(* comes with a selection.  The commands that neither wake nor read        *)
(* lastWake (/list, /help, /whoami, unknown ones) have no effect.          *)
(***************************************************************************)
EXTENDS Wol

CONSTANTS Calls,        \* the calls of Handle in one run
          Devices,
          MAC,          \* per device, its MAC address
          Interface,    \* and the name of its interface
          AddressLists, \* per interface, the addresses it may have
          Selections,   \* what resolveTargets may return, <<>> with an error
          Never,        \* lastWake before the first wake
          MaxChanges    \* bound: how often addresses change

Interfaces == DOMAIN AddressLists

ASSUME CallAssumption ==
    /\ Never \notin Calls
    /\ {"none", "ok", "failed", "refused"} \cap (Calls \cup {Never}) = {}
    /\ MAC \in [Devices -> Seq(Octets \cup {BadOctet})]
    /\ <<>> \in Selections
    /\ \A s \in Selections : s \in Seq(Devices) /\ IsInjective(s)
    /\ Interface \in [Devices -> Interfaces]
    /\ MaxChanges \in Nat

\* An address belongs to one link, whatever the interfaces have at a time.
ipsOf(i) == {a.ip : a \in UNION {ToSet(list) : list \in AddressLists[i]}}

ASSUME AddressAssumption ==
    \A i \in Interfaces :
        /\ \A list \in AddressLists[i] : list \in Seq(ToSet(list))
        /\ AnyAddress \notin ipsOf(i)
        /\ \A j \in Interfaces : i # j => ipsOf(i) \cap ipsOf(j) = {}

VARIABLES
  addresses,  \* per interface, the addresses it has now
  pc,         \* per call: idle, sending, bound, recording, replying or done
  selection,  \* the devices it is to wake
  sent,       \* how many of them it has sent to
  source,     \* the local address of the packet it is about to send
  result,     \* none, ok, failed, refused, or for /last the call it shows
  lastWake,   \* the call that lastWake describes, or Never
  \* history, which no step of the program reads
  changes,    \* how often addresses have changed
  packets,    \* per call, the packets it has sent, in order: the device, the
              \* address that was looked up for it, and the link it left on
  answered,   \* the wakes that ran to an answer
  before      \* per call, the wakes answered ok before it began

network == <<addresses, changes>>
history == <<packets, answered, before>>
vars == <<network, pc, selection, sent, source, result, lastWake, history>>

Init ==
    /\ addresses \in {a \in [Interfaces -> UNION {AddressLists[i] : i \in Interfaces}] :
                        \A i \in Interfaces : a[i] \in AddressLists[i]}
    /\ pc = [c \in Calls |-> "idle"]
    /\ selection = [c \in Calls |-> <<>>]
    /\ sent = [c \in Calls |-> 0]
    /\ source = [c \in Calls |-> AnyAddress]
    /\ result = [c \in Calls |-> "none"]
    /\ lastWake = Never
    /\ changes = 0
    /\ packets = [c \in Calls |-> <<>>]
    /\ answered = {}
    /\ before = [c \in Calls |-> {}]

answeredOk == {c \in answered : result[c] = "ok"}

goto(c, label) == pc' = [pc EXCEPT ![c] = label]

\* An interface goes up or down, or gets another address.
Readdress(i) ==
    /\ changes < MaxChanges
    /\ \E list \in AddressLists[i] \ {addresses[i]} :
         addresses' = [addresses EXCEPT ![i] = list]
    /\ changes' = changes + 1
    /\ UNCHANGED <<pc, selection, sent, source, result, lastWake, history>>

----------------------------------------------------------------------------
\* /on with arguments that resolve to s; an error is answered at once.
BeginWake(c, s) ==
    /\ pc[c] = "idle"
    /\ IF s = <<>>
         THEN /\ goto(c, "done")
              /\ result' = [result EXCEPT ![c] = "refused"]
              /\ UNCHANGED selection
         ELSE /\ goto(c, "sending")
              /\ selection' = [selection EXCEPT ![c] = s]
              /\ UNCHANGED result
    /\ before' = [before EXCEPT ![c] = answeredOk]
    /\ UNCHANGED <<network, sent, source, lastWake, packets, answered>>

\* The device whose turn it is in the loop of sendWoLDevices.
deviceOf(c) == selection[c][sent[c] + 1]

\* Defect: goes on with the next device.
giveUp_NextDevice(c) ==
    /\ goto(c, "sending")
    /\ sent' = [sent EXCEPT ![c] = @ + 1]
    /\ UNCHANGED result

\* Defect: records a wake that failed as well.
giveUp_Records(c) ==
    /\ goto(c, "recording")
    /\ result' = [result EXCEPT ![c] = "failed"]
    /\ UNCHANGED sent

\* The first packet that cannot be sent ends the loop; those before it are out.
giveUp(c) ==
    /\ goto(c, "replying")
    /\ result' = [result EXCEPT ![c] = "failed"]
    /\ UNCHANGED sent

\* sendOne up to the lookup of the interface: the packet, the broadcast address,
\* which may not resolve, and the local address.
LookUp(c) ==
    /\ pc[c] = "sending" /\ sent[c] < Len(selection[c])
    /\ \/ giveUp(c) /\ UNCHANGED source
       \/ /\ NewMagicPacket(MAC[deviceOf(c)]) # Invalid
          /\ source' = [source EXCEPT ![c] =
                          localAddr(addresses[Interface[deviceOf(c)]])]
          /\ goto(c, "bound")
          /\ UNCHANGED <<sent, result>>
    /\ UNCHANGED <<network, selection, lastWake, history>>

hasAddress(i, ip) == \E n \in DOMAIN addresses[i] : addresses[i][n].ip = ip

\* Defect: a packet whose address is gone leaves from any address.
linksOf_FallsBack(ip) ==
    IF \E i \in Interfaces : hasAddress(i, ip)
      THEN {i \in Interfaces : hasAddress(i, ip)}
      ELSE Interfaces

\* The links on which a packet from that address may leave.
linksOf(ip) ==
    {i \in Interfaces : ip = AnyAddress \/ hasAddress(i, ip)}

\* ListenUDP, which needs an address the router has, and WriteTo; either may
\* fail for other reasons.
Transmit(c) ==
    /\ pc[c] = "bound"
    /\ \/ \E i \in linksOf(source[c]) :
            /\ packets' = [packets EXCEPT ![c] =
                 Append(@, [device |-> deviceOf(c), source |-> source[c], link |-> i])]
            /\ sent' = [sent EXCEPT ![c] = @ + 1]
            /\ goto(c, "sending")
            /\ UNCHANGED result
       \/ giveUp(c) /\ UNCHANGED packets
    /\ UNCHANGED <<network, selection, source, lastWake, answered, before>>

AllSent(c) ==
    /\ pc[c] = "sending" /\ sent[c] = Len(selection[c])
    /\ goto(c, "recording")
    /\ result' = [result EXCEPT ![c] = "ok"]
    /\ UNCHANGED <<network, selection, sent, source, lastWake, history>>

\* Defect: keeps the first wake it has recorded.
recorded_First(c) == IF lastWake = Never THEN c ELSE lastWake

\* Defect: records how the wake ended instead of which it was.
recorded_Result(c) == result[c]

recorded(c) == c

\* recordLast, a critical section; only a complete wake gets here.
recordLast(c) ==
    /\ pc[c] = "recording"
    /\ lastWake' = recorded(c)
    /\ goto(c, "replying")
    /\ UNCHANGED <<network, selection, sent, source, result, history>>

Reply(c) ==
    /\ pc[c] = "replying"
    /\ goto(c, "done")
    /\ answered' = answered \cup {c}
    /\ UNCHANGED <<network, selection, sent, source, result, lastWake, packets,
                   before>>

\* /last, whose critical section is all it does.
ReadLast(c) ==
    /\ pc[c] = "idle"
    /\ result' = [result EXCEPT ![c] = lastWake]
    /\ goto(c, "done")
    /\ before' = [before EXCEPT ![c] = answeredOk]
    /\ UNCHANGED <<network, selection, sent, source, lastWake, packets, answered>>

\* All calls of the run are answered.
Quiet == (\A c \in Calls : pc[c] = "done") /\ UNCHANGED vars

Next ==
    \/ \E i \in Interfaces : Readdress(i)
    \/ \E c \in Calls : \/ \E s \in Selections : BeginWake(c, s)
                        \/ LookUp(c)
                        \/ Transmit(c)
                        \/ AllSent(c)
                        \/ recordLast(c)
                        \/ Reply(c)
                        \/ ReadLast(c)
    \/ Quiet

Spec == Init /\ [][Next]_vars

----------------------------------------------------------------------------
\* Every variable keeps its type.
TypeOK ==
    /\ \A i \in Interfaces : addresses[i] \in AddressLists[i]
    /\ pc \in [Calls -> {"idle", "sending", "bound", "recording", "replying", "done"}]
    /\ \A c \in Calls : selection[c] \in Selections
                        /\ sent[c] \in 0..Len(selection[c])
    /\ source \in [Calls -> {AnyAddress} \cup UNION {ipsOf(i) : i \in Interfaces}]
    /\ \A c \in Calls : result[c] \in {"none", "ok", "failed", "refused"}
                                      \cup Calls \cup {Never}
    /\ lastWake \in Calls \cup {Never}
    /\ changes \in 0..MaxChanges
    /\ \A c \in Calls : \A n \in DOMAIN packets[c] :
         packets[c][n].device \in Devices /\ packets[c][n].link \in Interfaces
    /\ answered \subseteq Calls
    /\ before \in [Calls -> SUBSET Calls]

\* The devices call c has sent to, in order.
sentTo(c) == [n \in DOMAIN packets[c] |-> packets[c][n].device]

\* The answer tells the truth about the packets, however calls interleave: ok
\* means one packet to each selected device, in order; failed means that a
\* proper beginning of the selection was sent to, and nothing after it;
\* refused means no packet at all (wakeDevices, sendWoLDevices).
AnswerMatchesPackets ==
    \A c \in Calls :
        /\ result[c] = "ok" => sentTo(c) = selection[c]
        /\ result[c] = "failed" => IsStrictPrefix(sentTo(c), selection[c])
        /\ result[c] = "refused" => sentTo(c) = <<>>

\* The devices that wake up on the packet for device d.
wokenBy == [d \in Devices |->
              {e \in Devices : isMAC(MAC[e]) /\ wakes(MAC[e], NewMagicPacket(MAC[d]))}]

\* A call that is answered with ok has woken each device it selected and no
\* other (but those that were given the same MAC address), and each on the link
\* of its interface, unless that had no IPv4 address when it was looked up; also
\* when addresses change between the lookup and the packet, so that nothing may
\* leave instead from whatever address is left (NewMagicPacket, sendOne).
OkWakesSelected ==
    \A c \in Calls : result[c] = "ok" =>
        /\ UNION {wokenBy[d] : d \in ToSet(sentTo(c))}
             = {e \in Devices : \E d \in ToSet(selection[c]) : MAC[e] = MAC[d]}
        /\ \A p \in ToSet(packets[c]) :
             p.link = Interface[p.device] \/ p.source = AnyAddress

\* What /last shows is a wake all of whose packets were sent, never one that
\* failed half-way or is still running (recordLast comes last).
LastIsComplete ==
    lastWake # Never =>
        result[lastWake] = "ok" /\ sentTo(lastWake) = selection[lastWake]

\* /last never shows a wake older than one that was answered with ok before it
\* was asked: calls may be recorded in another order than they are answered, but
\* not when the one began after the answer of the other.  Wakes that failed do
\* not count: they are not recorded, and /last goes on showing what it showed.
LastIsNotStale ==
    \A l \in Calls : pc[l] = "done" /\ result[l] \in Calls \cup {Never} =>
        \A b \in before[l] : result[l] # Never /\ result[l] \notin before[b]
=============================================================================
