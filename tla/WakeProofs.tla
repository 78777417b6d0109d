------------------------------ MODULE WakeProofs ------------------------------
(***************************************************************************)
(* The properties of Wake, proved for every number of overlapping calls,   *)
(* every configuration of devices and interfaces, and any changes of       *)
(* addresses.                                                              *)
(*                                                                         *)
(* The invariant has two parts.  CallOK says of one call what its packets  *)
(* have to do with its selection at each label; it carries through the     *)
(* loop of sendWoLDevices what AnswerMatchesPackets and OkWakesSelected    *)
(* claim of the answer.  Order relates the calls: what was answered before *)
(* a call began, who has recorded its wake, and what lastWake may be.      *)
(***************************************************************************)
EXTENDS Wake, SequenceTheorems, WellFoundedInduction, TLAPS

\* A set of naturals that is not empty has a least element, which Min finds.
LEMMA MinOfNaturals ==
  ASSUME NEW S \in SUBSET Nat, S # {}
  PROVE  Min(S) \in S /\ \A n \in S : Min(S) <= n
<1> DEFINE Less == {p \in Nat \X Nat : p[1] < p[2]}
<1>1. IsWellFoundedOn(Less, Nat)
  BY NatLessThanWellFounded DEF OpToRel
<1>2. PICK m \in S : \A n \in S : <<n, m>> \notin Less
  BY <1>1, WFMin
<1>3. ASSUME NEW n \in S PROVE m <= n
  <2>1. m \in Nat /\ n \in Nat /\ <<n, m>> \in Nat \X Nat
    OBVIOUS
  <2>2. ~(n < m)
    BY <1>2, <1>3, <2>1
  <2> QED BY <2>1, <2>2
<1> QED BY <1>3 DEF Min

LEMMA FunctionIsSeq ==
  ASSUME NEW S, NEW n \in Nat, NEW f \in [1..n -> S]
  PROVE  f \in Seq(S) /\ Len(f) = n
OBVIOUS

\* An address, repeated 16 times after the header, is found in the packet only
\* if it is the packet's own.
LEMMA PacketWakes ==
  ASSUME NEW d \in Seq(Octets \cup {BadOctet}), isMAC(d),
         NEW e \in Seq(Octets \cup {BadOctet}), isMAC(e)
  PROVE  wakes(e, NewMagicPacket(d)) <=> e = d
<1>1. PICK pkt : pkt = NewMagicPacket(d)
  OBVIOUS
<1>2. /\ pkt = [i \in 1..102 |-> IF i <= 6 THEN 255 ELSE d[((i - 1) % 6) + 1]]
      /\ DOMAIN d = 1..6 /\ DOMAIN e = 1..6 /\ Len(d) = 6 /\ Len(e) = 6
      /\ \A i \in 1..6 : d[i] \in Octets
  <2>1. 6 + 6 * 16 = 102
    OBVIOUS
  <2>2. pkt = [i \in 1..102 |-> IF i <= 6 THEN 255 ELSE d[((i - 1) % 6) + 1]]
    BY <1>1, <2>1 DEF NewMagicPacket, packetOf
  <2>3. Len(d) = 6 /\ Len(e) = 6 /\ \A i \in DOMAIN d : d[i] \in Octets
    BY DEF isMAC
  <2>4. DOMAIN d = 1..6 /\ DOMAIN e = 1..6
    BY <2>3, LenProperties
  <2> QED BY <2>2, <2>3, <2>4
<1>3. \A i \in 1..102 : pkt[i] = IF i <= 6 THEN 255 ELSE d[((i - 1) % 6) + 1]
  BY <1>2
<1>4. /\ \A i \in 1..102 : pkt[i] \in Octets
      /\ pkt \in Seq(Octets) /\ Len(pkt) = 102
  <2>1. ASSUME NEW i \in 1..102 PROVE pkt[i] \in Octets
    <3>1. ((i - 1) % 6) + 1 \in 1..6
      OBVIOUS
    <3>2. PICK j \in 1..6 : j = ((i - 1) % 6) + 1
      BY <3>1
    <3>3. pkt[i] = 255 \/ pkt[i] = d[j]
      BY <1>3, <3>2
    <3>4. 255 \in Octets
      BY DEF Octets
    <3> QED BY <1>2, <3>3, <3>4
  <2>2. pkt \in [1..102 -> Octets]
    BY <1>2, <2>1
  <2>3. PICK n \in Nat : n = 102
    OBVIOUS
  <2>4. pkt \in [1..n -> Octets]
    BY <2>2, <2>3
  <2>5. pkt \in Seq(Octets) /\ Len(pkt) = n
    BY <2>4, FunctionIsSeq
  <2> QED BY <2>1, <2>3, <2>5
<1>5. ASSUME NEW r \in 1..16, NEW k \in 1..6
      PROVE  pkt[6 * r + k] = d[k]
  <2>1. PICK i \in 1..102 : i = 6 * r + k
    OBVIOUS
  <2>2. ~(i <= 6) /\ (i - 1) % 6 = k - 1
    BY <2>1
  <2>3. ((i - 1) % 6) + 1 = k
    BY <2>2
  <2>4. pkt[i] = d[k]
    BY <1>3, <2>2, <2>3
  <2> QED BY <2>1, <2>4
<1>6. ASSUME NEW r \in 1..16
      PROVE  SubSeq(pkt, 6 * r + 1, 6 * r + 6) = d
  <2>1. PICK m \in Int, n \in Int : m = 6 * r + 1 /\ n = 6 * r + 6
    OBVIOUS
  <2>2. \A i \in m..n : i \in 1..102
    BY <2>1
  <2>3. \A i \in m..n : pkt[i] \in Octets
    BY <1>4, <2>2
  <2>4. /\ SubSeq(pkt, m, n) \in Seq(Octets)
        /\ Len(SubSeq(pkt, m, n)) = IF m <= n THEN n - m + 1 ELSE 0
        /\ \A i \in 1..n - m + 1 : SubSeq(pkt, m, n)[i] = pkt[m + i - 1]
    BY <2>3, SubSeqProperties
  <2>5. Len(SubSeq(pkt, m, n)) = 6
    BY <2>1, <2>4
  <2>6. ASSUME NEW i \in 1..6 PROVE SubSeq(pkt, m, n)[i] = d[i]
    <3>1. i \in 1..n - m + 1 /\ m + i - 1 = 6 * r + i
      BY <2>1
    <3> QED BY <1>5, <2>4, <3>1
  <2>7. d \in Seq(Octets)
    <3>1. d \in [1..6 -> Octets]
      BY <1>2
    <3>2. 6 \in Nat
      OBVIOUS
    <3> QED BY <3>1, <3>2, FunctionIsSeq
  <2>8. SubSeq(pkt, m, n) = d
    BY <1>2, <2>4, <2>5, <2>6, <2>7, SeqEqual
  <2> QED BY <2>1, <2>8
<1>7. ASSUME wakes(e, pkt) PROVE e = d
  <2>1. PICK s \in 0..102 : /\ s + 102 <= 102
                            /\ \A r \in 1..16 :
                                 SubSeq(pkt, s + 6 * r + 1, s + 6 * r + 6) = e
    BY <1>4, <1>7 DEF wakes
  <2>2. s = 0 /\ 1 \in 1..16
    BY <2>1
  <2>3. SubSeq(pkt, 7, 12) = e
    BY <2>1, <2>2
  <2>4. SubSeq(pkt, 7, 12) = d
    BY <1>6, <2>2
  <2> QED BY <2>3, <2>4
<1>8. ASSUME e = d PROVE wakes(e, pkt)
  <2>1. ASSUME NEW i \in 1..6 PROVE pkt[0 + i] = 255
    <3>1. PICK j \in 1..102 : j = 0 + i /\ j <= 6
      OBVIOUS
    <3>2. pkt[j] = 255
      BY <1>3, <3>1
    <3> QED BY <3>1, <3>2
  <2>2. ASSUME NEW r \in 1..16
        PROVE  SubSeq(pkt, 0 + 6 * r + 1, 0 + 6 * r + 6) = e
    <3>1. 0 + 6 * r + 1 = 6 * r + 1 /\ 0 + 6 * r + 6 = 6 * r + 6
      OBVIOUS
    <3> QED BY <1>6, <1>8, <3>1
  <2>3. 0 \in 0..102 /\ 0 + 102 <= 102
    OBVIOUS
  <2> QED BY <1>4, <2>1, <2>2, <2>3 DEF wakes
<1> QED BY <1>1, <1>7, <1>8

\* The local address is unset or one that the interface has.
LEMMA LocalAddrIsOwn ==
  ASSUME NEW i \in Interfaces, NEW list \in AddressLists[i]
  PROVE  localAddr(list) \in {AnyAddress} \cup ipsOf(i)
<1> DEFINE v4 == {n \in DOMAIN list : list[n].v4}
<1>1. list \in Seq(ToSet(list))
  BY AddressAssumption
<1>2. v4 \in SUBSET Nat
  BY <1>1
<1>3. CASE v4 = {}
  BY <1>3 DEF localAddr
<1>4. CASE v4 # {}
  <2>1. Min(v4) \in DOMAIN list
    BY <1>2, <1>4, MinOfNaturals
  <2>2. list[Min(v4)] \in ToSet(list)
    BY <2>1 DEF ToSet
  <2>3. list[Min(v4)].ip \in ipsOf(i)
    BY <2>2 DEF ipsOf
  <2>4. localAddr(list) = list[Min(v4)].ip
    BY <1>4 DEF localAddr
  <2> QED BY <2>3, <2>4
<1> QED BY <1>3, <1>4

----------------------------------------------------------------------------
Labels == {"idle", "sending", "bound", "recording", "replying", "done"}

Sources == {AnyAddress} \cup UNION {ipsOf(i) : i \in Interfaces}

Packets == [device : Devices, source : Sources, link : Interfaces]

Results == {"none", "ok", "failed", "refused"} \cup Calls \cup {Never}

Types ==
    /\ addresses = [i \in Interfaces |-> addresses[i]]
    /\ \A i \in Interfaces : addresses[i] \in AddressLists[i]
    /\ pc \in [Calls -> Labels]
    /\ selection \in [Calls -> Selections]
    /\ sent \in [Calls -> Nat]
    /\ source \in [Calls -> Sources]
    /\ result \in [Calls -> Results]
    /\ lastWake \in Calls \cup {Never}
    /\ changes \in 0..MaxChanges
    /\ packets \in [Calls -> Seq(Packets)]
    /\ answered \subseteq Calls
    /\ before \in [Calls -> SUBSET Calls]

\* The n-th packet of call c is for the n-th device, and left on its link.
PacketOK(c, n) ==
    /\ packets[c][n].device = selection[c][n]
    /\ isMAC(MAC[selection[c][n]])
    /\ \/ packets[c][n].link = Interface[selection[c][n]]
       \/ packets[c][n].source = AnyAddress

CallOK(c) ==
    /\ Len(packets[c]) = sent[c] /\ sent[c] <= Len(selection[c])
    /\ \A n \in 1..sent[c] : PacketOK(c, n)
    /\ pc[c] = "idle" => selection[c] = <<>>
    /\ pc[c] \in {"idle", "sending", "bound"} => result[c] = "none"
    /\ pc[c] = "bound" =>
         /\ sent[c] < Len(selection[c])
         /\ isMAC(MAC[deviceOf(c)])
         /\ source[c] \in {AnyAddress} \cup ipsOf(Interface[deviceOf(c)])
    /\ pc[c] = "recording" => result[c] = "ok"
    /\ pc[c] = "replying" => result[c] \in {"ok", "failed"}
    /\ result[c] = "ok" => sent[c] = Len(selection[c])
    /\ result[c] = "failed" => sent[c] < Len(selection[c])
    /\ result[c] = "refused" => selection[c] = <<>>

\* The calls that have recorded a wake.
Recorded == {c \in Calls : pc[c] \in {"replying", "done"} /\ result[c] = "ok"}

\* No recorded wake was answered before the last one recorded began.
Order ==
    /\ \A c \in answered : pc[c] = "done" /\ result[c] \in {"ok", "failed"}
    /\ \A c \in Calls : before[c] \subseteq answeredOk
    /\ lastWake # Never => lastWake \in Recorded
    /\ \A b \in Recorded : lastWake # Never /\ lastWake \notin before[b]
    /\ LastIsNotStale

Inv == Types /\ (\A c \in Calls : CallOK(c)) /\ Order

\* A step of call c leaves the other calls as they are.
onlyCall(c) ==
    \A d \in Calls \ {c} :
        /\ pc'[d] = pc[d] /\ selection'[d] = selection[d] /\ sent'[d] = sent[d]
        /\ source'[d] = source[d] /\ result'[d] = result[d]
        /\ packets'[d] = packets[d] /\ before'[d] = before[d]

LEMMA OthersStay ==
  ASSUME Inv, NEW c \in Calls, onlyCall(c), NEW d \in Calls, d # c
  PROVE  CallOK(d)'
<1>1. /\ pc'[d] = pc[d] /\ selection'[d] = selection[d] /\ sent'[d] = sent[d]
      /\ source'[d] = source[d] /\ result'[d] = result[d]
      /\ packets'[d] = packets[d]
  BY DEF onlyCall
<1>2. deviceOf(d)' = deviceOf(d)
  BY <1>1 DEF deviceOf
<1>3. CallOK(d)
  BY DEF Inv
<1> QED BY <1>1, <1>2, <1>3 DEF CallOK, PacketOK

\* A call that neither records nor answers a wake, nor shows one, keeps the
\* order.
LEMMA OrderKept ==
  ASSUME Inv, NEW c \in Calls, onlyCall(c), pc[c] # "done",
         UNCHANGED <<lastWake, answered>>,
         before'[c] = before[c] \/ (pc[c] = "idle" /\ before'[c] = answeredOk),
         c \in Recorded' <=> c \in Recorded,
         pc'[c] = "done" => result'[c] = "refused"
  PROVE  Order'
<1>1. c \notin answered
  BY DEF Inv, Order
<1>2. /\ \A d \in answered : pc'[d] = pc[d] /\ result'[d] = result[d] /\ d \in Calls
      /\ answeredOk' = answeredOk
  BY <1>1 DEF onlyCall, answeredOk, Inv, Types
<1>3. \A d \in Calls : d \in Recorded' <=> d \in Recorded
  BY DEF onlyCall, Recorded
<1>4. \A d \in Calls : before'[d] \subseteq answeredOk
  BY DEF onlyCall, Inv, Order
<1>5. ASSUME lastWake # Never, NEW d \in Calls PROVE lastWake \notin before'[d] \/ d \notin Recorded
  <2>1. CASE d # c
    BY <2>1, <1>5 DEF onlyCall, Inv, Order
  <2>2. CASE d = c /\ before'[c] = before[c]
    BY <2>2, <1>5 DEF Inv, Order
  <2>3. CASE d = c /\ c \notin Recorded
    BY <2>3
  <2>4. pc[c] = "idle" => c \notin Recorded
    BY DEF Recorded
  <2> QED BY <2>1, <2>2, <2>3, <2>4
<1>6. ASSUME NEW l \in Calls, pc'[l] = "done", result'[l] \in Calls \cup {Never},
             NEW b \in before'[l]
      PROVE  result'[l] # Never /\ result'[l] \notin before'[b]
  <2>1. l # c
    BY <1>6, CallAssumption
  <2>2. pc[l] = "done" /\ result'[l] = result[l] /\ b \in before[l]
    BY <1>6, <2>1 DEF onlyCall
  <2>3. b \in answered /\ b \in Calls /\ b # c
    BY <1>1, <2>2 DEF Inv, Order, answeredOk, Types
  <2>4. before'[b] = before[b]
    BY <2>3 DEF onlyCall
  <2> QED BY <1>6, <2>2, <2>4 DEF Inv, Order, LastIsNotStale
<1>7. \A d \in answered' : pc'[d] = "done" /\ result'[d] \in {"ok", "failed"}
  BY <1>2 DEF Inv, Order
<1>8. lastWake' # Never => lastWake' \in Recorded'
  BY <1>3 DEF Inv, Order, Types, Recorded
<1>9. \A b \in Recorded' : lastWake' # Never /\ lastWake' \notin before'[b]
  <2>1. \A b \in Recorded' : b \in Calls /\ b \in Recorded
    BY <1>3 DEF Recorded
  <2> QED BY <1>5, <2>1 DEF Inv, Order
<1> QED BY <1>2, <1>4, <1>6, <1>7, <1>8, <1>9 DEF Order, LastIsNotStale

LEMMA InvInit == Init => Inv
<1> SUFFICES ASSUME Init PROVE Inv
  OBVIOUS
<1>1. <<>> \in Seq(Packets) /\ Len(<<>>) = 0
  OBVIOUS
<1>2. addresses \in [Interfaces -> UNION {AddressLists[i] : i \in Interfaces}]
      /\ \A i \in Interfaces : addresses[i] \in AddressLists[i]
  BY DEF Init
<1>3. Types
  BY <1>1, <1>2, CallAssumption DEF Init, Types, Labels, Sources, Results
<1>4. ASSUME NEW c \in Calls PROVE CallOK(c)
  BY <1>1 DEF Init, CallOK
<1>5. Order
  BY DEF Init, Order, Recorded, answeredOk, LastIsNotStale
<1> QED BY <1>3, <1>4, <1>5 DEF Inv

LEMMA ReaddressStep ==
  ASSUME Inv, NEW i \in Interfaces, Readdress(i)
  PROVE  Inv'
<1>1. PICK list \in AddressLists[i] : addresses' = [addresses EXCEPT ![i] = list]
  BY DEF Readdress
<1>2. /\ changes < MaxChanges /\ changes' = changes + 1
      /\ UNCHANGED <<pc, selection, sent, source, result, lastWake, packets,
                     answered, before>>
  BY DEF Readdress, history
<1>3. Types'
  <2>1. addresses' = [j \in Interfaces |-> IF j = i THEN list ELSE addresses[j]]
    BY <1>1 DEF Inv, Types
  <2>2. addresses' = [j \in Interfaces |-> addresses'[j]]
        /\ \A j \in Interfaces : addresses'[j] \in AddressLists[j]
    BY <2>1 DEF Inv, Types
  <2>3. changes' \in 0..MaxChanges
    BY <1>2, CallAssumption DEF Inv, Types
  <2> QED BY <1>2, <2>2, <2>3 DEF Inv, Types
<1>4. ASSUME NEW c \in Calls PROVE CallOK(c)'
  <2>1. deviceOf(c)' = deviceOf(c) /\ CallOK(c)
    BY <1>2 DEF deviceOf, Inv
  <2> QED BY <1>2, <2>1 DEF CallOK, PacketOK
<1>5. Recorded' = Recorded /\ answeredOk' = answeredOk /\ (LastIsNotStale => LastIsNotStale')
  BY <1>2 DEF Recorded, answeredOk, LastIsNotStale
<1>6. Order'
  BY <1>2, <1>5 DEF Order, Inv
<1> QED BY <1>3, <1>4, <1>6 DEF Inv

LEMMA BeginWakeStep ==
  ASSUME Inv, NEW c \in Calls, NEW s \in Selections, BeginWake(c, s)
  PROVE  Inv'
<1>1. /\ pc[c] = "idle"
      /\ before' = [before EXCEPT ![c] = answeredOk]
      /\ UNCHANGED <<addresses, changes, sent, source, lastWake, packets, answered>>
  BY DEF BeginWake, network
<1>2. PICK l \in Labels, r \in Results, t \in Selections :
        /\ pc' = [pc EXCEPT ![c] = l]
        /\ result' = [result EXCEPT ![c] = r]
        /\ selection' = [selection EXCEPT ![c] = t]
        /\ \/ l = "done" /\ r = "refused" /\ t = <<>>
           \/ l = "sending" /\ r = "none"
  <2>1. CallOK(c) /\ result[c] = "none" /\ selection[c] = <<>>
    BY <1>1 DEF Inv, CallOK
  <2>2. CASE s = <<>>
    <3>1. /\ pc' = [pc EXCEPT ![c] = "done"]
          /\ result' = [result EXCEPT ![c] = "refused"]
          /\ selection' = [selection EXCEPT ![c] = selection[c]]
      BY <2>2 DEF BeginWake, goto, Inv, Types
    <3> QED BY <2>1, <3>1, CallAssumption DEF Labels, Results
  <2>3. CASE s # <<>>
    <3>1. /\ pc' = [pc EXCEPT ![c] = "sending"]
          /\ result' = [result EXCEPT ![c] = result[c]]
          /\ selection' = [selection EXCEPT ![c] = s]
      BY <2>3 DEF BeginWake, goto, Inv, Types
    <3> QED BY <2>1, <3>1 DEF Labels, Results
  <2> QED BY <2>2, <2>3
<1>3. answeredOk \in SUBSET Calls
  BY DEF answeredOk, Inv, Types
<1>4. Types'
  BY <1>1, <1>2, <1>3 DEF Inv, Types
<1>5. /\ pc'[c] = l /\ result'[c] = r /\ selection'[c] = t /\ before'[c] = answeredOk
      /\ onlyCall(c)
  BY <1>1, <1>2 DEF Inv, Types, onlyCall
<1>6. CallOK(c)'
  <2>1. sent[c] = 0 /\ packets[c] = <<>> /\ Len(<<>>) = 0
    BY <1>1 DEF Inv, CallOK, Types
  <2>2. Len(t) \in Nat
    BY CallAssumption
  <2> QED BY <1>1, <1>2, <1>5, <2>1, <2>2 DEF CallOK
<1>7. Order'
  BY <1>1, <1>2, <1>5, OrderKept DEF Recorded
<1> QED BY <1>4, <1>5, <1>6, <1>7, OthersStay DEF Inv

\* A call that gives up: only its label and its result change.
LEMMA GiveUpStep ==
  ASSUME Inv, NEW c \in Calls, giveUp(c), pc[c] \in {"sending", "bound"},
         sent[c] < Len(selection[c]),
         UNCHANGED <<network, selection, source, lastWake, history>>
  PROVE  Inv'
<1>1. /\ pc' = [pc EXCEPT ![c] = "replying"]
      /\ result' = [result EXCEPT ![c] = "failed"]
      /\ UNCHANGED <<addresses, changes, selection, sent, source, lastWake,
                     packets, answered, before>>
  BY DEF giveUp, goto, network, history
<1>2. Types'
  <2>1. pc' \in [Calls -> Labels]
    BY <1>1 DEF Inv, Types, Labels
  <2>2. result' \in [Calls -> Results]
    BY <1>1 DEF Inv, Types, Results
  <2> QED BY <1>1, <2>1, <2>2 DEF Inv, Types
<1>3. pc'[c] = "replying" /\ result'[c] = "failed" /\ onlyCall(c)
  BY <1>1 DEF Inv, Types, onlyCall
<1>4. CallOK(c)'
  BY <1>1, <1>3 DEF Inv, CallOK, PacketOK
<1>5. Order'
  BY <1>1, <1>3, OrderKept DEF Recorded
<1> QED BY <1>2, <1>3, <1>4, <1>5, OthersStay DEF Inv

LEMMA LookUpStep ==
  ASSUME Inv, NEW c \in Calls, LookUp(c)
  PROVE  Inv'
<1>1. pc[c] = "sending" /\ sent[c] < Len(selection[c])
  BY DEF LookUp
<1>2. CASE giveUp(c) /\ UNCHANGED source
  BY <1>1, <1>2, GiveUpStep DEF LookUp
<1>3. CASE ~(giveUp(c) /\ UNCHANGED source)
  <2> DEFINE i == Interface[deviceOf(c)]
  <2>1. /\ NewMagicPacket(MAC[deviceOf(c)]) # Invalid
        /\ source' = [source EXCEPT ![c] = localAddr(addresses[i])]
        /\ pc' = [pc EXCEPT ![c] = "bound"]
        /\ UNCHANGED <<addresses, changes, selection, sent, result, lastWake,
                       packets, answered, before>>
    BY <1>3 DEF LookUp, goto, network, history
  <2>2. deviceOf(c) \in Devices
    <3>1. selection[c] \in Seq(Devices) /\ sent[c] \in Nat
      BY CallAssumption DEF Inv, Types
    <3> QED BY <1>1, <3>1 DEF deviceOf
  <2>3. i \in Interfaces /\ addresses[i] \in AddressLists[i]
    BY <2>2, CallAssumption DEF Inv, Types
  <2>4. PICK ip \in Sources : ip = localAddr(addresses[i]) /\ ip \in {AnyAddress} \cup ipsOf(i)
    BY <2>3, LocalAddrIsOwn DEF Sources
  <2>5. source' = [source EXCEPT ![c] = ip]
    BY <2>1, <2>4
  <2>6. Types'
    <3>1. pc' \in [Calls -> Labels]
      BY <2>1 DEF Inv, Types, Labels
    <3>2. source' \in [Calls -> Sources]
      BY <2>5 DEF Inv, Types
    <3> QED BY <2>1, <3>1, <3>2 DEF Inv, Types
  <2>7. pc'[c] = "bound" /\ source'[c] = ip /\ onlyCall(c)
    BY <2>1, <2>5 DEF Inv, Types, onlyCall
  <2>8. isMAC(MAC[deviceOf(c)])
    BY <2>1 DEF NewMagicPacket
  <2>9. CallOK(c)'
    <3>1. deviceOf(c)' = deviceOf(c)
      BY <2>1 DEF deviceOf
    <3>2. CallOK(c)
      BY DEF Inv
    <3> QED BY <1>1, <2>1, <2>4, <2>7, <2>8, <3>1, <3>2 DEF CallOK, PacketOK
  <2>10. Order'
    BY <1>1, <2>1, <2>7, OrderKept DEF Recorded
  <2> QED BY <2>6, <2>7, <2>9, <2>10, OthersStay DEF Inv
<1> QED BY <1>2, <1>3

\* A packet from an address of an interface leaves on the link of that one.
LEMMA LinkOfSource ==
  ASSUME Inv, NEW i \in Interfaces, NEW ip \in {AnyAddress} \cup ipsOf(i),
         NEW j \in linksOf(ip)
  PROVE  j \in Interfaces /\ (j = i \/ ip = AnyAddress)
<1>1. j \in Interfaces /\ (ip = AnyAddress \/ hasAddress(j, ip))
  BY DEF linksOf
<1>2. hasAddress(j, ip) => ip \in ipsOf(j)
  <2> SUFFICES ASSUME NEW n \in DOMAIN addresses[j], addresses[j][n].ip = ip
               PROVE  ip \in ipsOf(j)
    BY DEF hasAddress
  <2>1. addresses[j] \in AddressLists[j]
    BY <1>1 DEF Inv, Types
  <2>2. addresses[j][n] \in ToSet(addresses[j])
    BY DEF ToSet
  <2> QED BY <2>1, <2>2 DEF ipsOf
<1> QED BY <1>1, <1>2, AddressAssumption

LEMMA TransmitStep ==
  ASSUME Inv, NEW c \in Calls, Transmit(c)
  PROVE  Inv'
<1>1. pc[c] = "bound" /\ CallOK(c)
  BY DEF Transmit, Inv
<1>2. /\ sent[c] < Len(selection[c]) /\ isMAC(MAC[deviceOf(c)])
      /\ source[c] \in {AnyAddress} \cup ipsOf(Interface[deviceOf(c)])
  BY <1>1 DEF CallOK
<1>3. CASE giveUp(c) /\ UNCHANGED packets
  BY <1>1, <1>2, <1>3, GiveUpStep DEF Transmit, history
<1>4. CASE ~(giveUp(c) /\ UNCHANGED packets)
  <2>1. PICK j \in linksOf(source[c]) :
          /\ packets' = [packets EXCEPT ![c] = Append(packets[c],
               [device |-> deviceOf(c), source |-> source[c], link |-> j])]
          /\ sent' = [sent EXCEPT ![c] = sent[c] + 1]
          /\ pc' = [pc EXCEPT ![c] = "sending"]
          /\ UNCHANGED <<addresses, changes, selection, source, result, lastWake,
                         answered, before>>
    BY <1>4 DEF Transmit, goto, network
  <2>2. deviceOf(c) \in Devices /\ deviceOf(c) = selection[c][sent[c] + 1]
    <3>1. selection[c] \in Seq(Devices) /\ sent[c] \in Nat
      BY CallAssumption DEF Inv, Types
    <3> QED BY <1>2, <3>1 DEF deviceOf
  <2>3. j \in Interfaces /\ (j = Interface[deviceOf(c)] \/ source[c] = AnyAddress)
    <3>1. Interface[deviceOf(c)] \in Interfaces
      BY <2>2, CallAssumption
    <3> QED BY <1>2, <3>1, LinkOfSource
  <2>4. PICK p \in Packets :
          /\ p = [device |-> deviceOf(c), source |-> source[c], link |-> j]
          /\ p.device = deviceOf(c) /\ p.source = source[c] /\ p.link = j
    <3>1. source[c] \in Sources
      BY DEF Inv, Types
    <3>2. [device |-> deviceOf(c), source |-> source[c], link |-> j] \in Packets
      BY <2>2, <2>3, <3>1 DEF Packets
    <3> QED BY <3>2
  <2>5. PICK q \in Seq(Packets) :
          /\ q = Append(packets[c], p) /\ Len(q) = Len(packets[c]) + 1
          /\ \A n \in 1..Len(packets[c]) : q[n] = packets[c][n]
          /\ q[Len(packets[c]) + 1] = p
    <3>1. packets[c] \in Seq(Packets)
      BY DEF Inv, Types
    <3> QED BY <3>1, AppendProperties
  <2>6. packets' = [packets EXCEPT ![c] = q]
    BY <2>1, <2>4, <2>5
  <2>7. sent[c] \in Nat /\ Len(selection[c]) \in Nat /\ Len(packets[c]) = sent[c]
    BY <1>1, CallAssumption DEF CallOK, Inv, Types
  <2>8. Types'
    <3>1. pc' \in [Calls -> Labels]
      BY <2>1 DEF Inv, Types, Labels
    <3>2. sent' \in [Calls -> Nat] /\ packets' \in [Calls -> Seq(Packets)]
      BY <2>1, <2>6 DEF Inv, Types
    <3> QED BY <2>1, <3>1, <3>2 DEF Inv, Types
  <2>9. /\ pc'[c] = "sending" /\ sent'[c] = sent[c] + 1 /\ packets'[c] = q
        /\ onlyCall(c)
    BY <2>1, <2>6 DEF Inv, Types, onlyCall
  <2>10. ASSUME NEW n \in 1..sent'[c] PROVE PacketOK(c, n)'
    <3>1. n \in 1..sent[c] \/ n = sent[c] + 1
      BY <2>7, <2>9
    <3>2. CASE n \in 1..sent[c]
      <4>1. PacketOK(c, n) /\ packets'[c][n] = packets[c][n]
        BY <1>1, <2>5, <2>7, <2>9, <3>2 DEF CallOK
      <4> QED BY <2>1, <4>1 DEF PacketOK
    <3>3. CASE n = sent[c] + 1
      <4>1. packets'[c][n] = p /\ selection'[c][n] = deviceOf(c)
        BY <2>1, <2>2, <2>5, <2>7, <2>9, <3>3
      <4> QED BY <1>2, <2>3, <2>4, <4>1 DEF PacketOK
    <3> QED BY <3>1, <3>2, <3>3
  <2>11. CallOK(c)'
    <3>1. result[c] = "none"
      BY <1>1 DEF CallOK
    <3> QED BY <1>2, <2>1, <2>5, <2>7, <2>9, <2>10, <3>1 DEF CallOK
  <2>12. Order'
    BY <1>1, <2>1, <2>9, OrderKept DEF Recorded
  <2> QED BY <2>8, <2>9, <2>11, <2>12, OthersStay DEF Inv
<1> QED BY <1>3, <1>4

LEMMA AllSentStep ==
  ASSUME Inv, NEW c \in Calls, AllSent(c)
  PROVE  Inv'
<1>1. /\ pc[c] = "sending" /\ sent[c] = Len(selection[c])
      /\ pc' = [pc EXCEPT ![c] = "recording"]
      /\ result' = [result EXCEPT ![c] = "ok"]
      /\ UNCHANGED <<addresses, changes, selection, sent, source, lastWake,
                     packets, answered, before>>
  BY DEF AllSent, goto, network, history
<1>2. Types'
  <2>1. pc' \in [Calls -> Labels]
    BY <1>1 DEF Inv, Types, Labels
  <2>2. result' \in [Calls -> Results]
    BY <1>1 DEF Inv, Types, Results
  <2> QED BY <1>1, <2>1, <2>2 DEF Inv, Types
<1>3. pc'[c] = "recording" /\ result'[c] = "ok" /\ onlyCall(c)
  BY <1>1 DEF Inv, Types, onlyCall
<1>4. CallOK(c)'
  BY <1>1, <1>3 DEF Inv, CallOK, PacketOK
<1>5. Order'
  BY <1>1, <1>3, OrderKept DEF Recorded
<1> QED BY <1>2, <1>3, <1>4, <1>5, OthersStay DEF Inv

LEMMA RecordLastStep ==
  ASSUME Inv, NEW c \in Calls, recordLast(c)
  PROVE  Inv'
<1>1. /\ pc[c] = "recording" /\ lastWake' = c
      /\ pc' = [pc EXCEPT ![c] = "replying"]
      /\ UNCHANGED <<addresses, changes, selection, sent, source, result,
                     packets, answered, before>>
  BY DEF recordLast, recorded, goto, network, history
<1>2. Types'
  <2>1. pc' \in [Calls -> Labels]
    BY <1>1 DEF Inv, Types, Labels
  <2> QED BY <1>1, <2>1 DEF Inv, Types
<1>3. pc'[c] = "replying" /\ onlyCall(c)
  BY <1>1 DEF Inv, Types, onlyCall
<1>4. CallOK(c) /\ CallOK(c)'
  BY <1>1, <1>3 DEF Inv, CallOK, PacketOK
<1>5. result[c] = "ok"
  BY <1>1, <1>4 DEF CallOK
<1>6. Order'
  <2>1. c \notin answered /\ answeredOk' = answeredOk
    BY <1>1 DEF Inv, Order, answeredOk
  <2>2. \A d \in answered : pc'[d] = pc[d]
    BY <1>3, <2>1 DEF onlyCall, Inv, Types
  <2>3. \A d \in Calls : d \in Recorded' <=> d \in Recorded \/ d = c
    BY <1>1, <1>3, <1>5 DEF onlyCall, Recorded
  <2>4. \A d \in Calls : c \notin before[d]
    BY <2>1 DEF Inv, Order, answeredOk
  <2>5. c # Never /\ Recorded' \subseteq Calls
    BY CallAssumption DEF Recorded
  <2>6. LastIsNotStale'
    BY <1>1, <1>3 DEF LastIsNotStale, Inv, Order, onlyCall
  <2>7. \A d \in answered' : pc'[d] = "done" /\ result'[d] \in {"ok", "failed"}
    BY <1>1, <2>2 DEF Inv, Order
  <2>8. \A d \in Calls : before'[d] \subseteq answeredOk'
    BY <1>1, <2>1 DEF Inv, Order
  <2>9. lastWake' # Never => lastWake' \in Recorded'
    BY <1>1, <2>3
  <2>10. \A b \in Recorded' : lastWake' # Never /\ lastWake' \notin before'[b]
    BY <1>1, <2>4, <2>5
  <2> QED BY <2>6, <2>7, <2>8, <2>9, <2>10 DEF Order
<1> QED BY <1>2, <1>3, <1>4, <1>6, OthersStay DEF Inv

LEMMA ReplyStep ==
  ASSUME Inv, NEW c \in Calls, Reply(c)
  PROVE  Inv'
<1>1. /\ pc[c] = "replying" /\ answered' = answered \cup {c}
      /\ pc' = [pc EXCEPT ![c] = "done"]
      /\ UNCHANGED <<addresses, changes, selection, sent, source, result,
                     lastWake, packets, before>>
  BY DEF Reply, goto, network
<1>2. Types'
  <2>1. pc' \in [Calls -> Labels]
    BY <1>1 DEF Inv, Types, Labels
  <2> QED BY <1>1, <2>1 DEF Inv, Types
<1>3. pc'[c] = "done" /\ onlyCall(c)
  BY <1>1 DEF Inv, Types, onlyCall
<1>4. CallOK(c) /\ CallOK(c)'
  BY <1>1, <1>3 DEF Inv, CallOK, PacketOK
<1>5. result[c] \in {"ok", "failed"}
  BY <1>1, <1>4 DEF CallOK
<1>6. Order'
  <2>1. answeredOk \subseteq answeredOk'
    BY <1>1 DEF answeredOk
  <2>2. \A d \in Calls : d \in Recorded' <=> d \in Recorded
    BY <1>1, <1>3 DEF onlyCall, Recorded
  <2>3. LastIsNotStale'
    BY <1>1, <1>3, <1>5, CallAssumption DEF LastIsNotStale, Inv, Order, onlyCall
  <2>4. \A d \in answered' : pc'[d] = "done" /\ result'[d] \in {"ok", "failed"}
    BY <1>1, <1>3, <1>5 DEF Inv, Order, Types, onlyCall
  <2>5. \A d \in Calls : before'[d] \subseteq answeredOk'
    BY <1>1, <2>1 DEF Inv, Order
  <2>6. lastWake' # Never => lastWake' \in Recorded'
    BY <1>1, <2>2 DEF Inv, Order, Types
  <2>7. \A b \in Recorded' : lastWake' # Never /\ lastWake' \notin before'[b]
    <3>1. \A b \in Recorded' : b \in Recorded
      BY <2>2 DEF Recorded
    <3> QED BY <1>1, <3>1 DEF Inv, Order
  <2> QED BY <2>3, <2>4, <2>5, <2>6, <2>7 DEF Order
<1> QED BY <1>2, <1>3, <1>4, <1>6, OthersStay DEF Inv

LEMMA ReadLastStep ==
  ASSUME Inv, NEW c \in Calls, ReadLast(c)
  PROVE  Inv'
<1>1. /\ pc[c] = "idle"
      /\ result' = [result EXCEPT ![c] = lastWake]
      /\ pc' = [pc EXCEPT ![c] = "done"]
      /\ before' = [before EXCEPT ![c] = answeredOk]
      /\ UNCHANGED <<addresses, changes, selection, sent, source, lastWake,
                     packets, answered>>
  BY DEF ReadLast, goto, network
<1>2. Types'
  <2>1. pc' \in [Calls -> Labels]
    BY <1>1 DEF Inv, Types, Labels
  <2>2. answeredOk \in SUBSET Calls
    BY DEF answeredOk, Inv, Types
  <2>3. before' \in [Calls -> SUBSET Calls]
    BY <1>1, <2>2 DEF Inv, Types
  <2>4. result' \in [Calls -> Results]
    BY <1>1 DEF Inv, Types, Results
  <2> QED BY <1>1, <2>1, <2>3, <2>4 DEF Inv, Types
<1>3. /\ pc'[c] = "done" /\ result'[c] = lastWake /\ before'[c] = answeredOk
      /\ onlyCall(c)
  BY <1>1 DEF Inv, Types, onlyCall
<1>4. lastWake \notin {"none", "ok", "failed", "refused"}
  BY CallAssumption DEF Inv, Types
<1>5. CallOK(c)'
  BY <1>1, <1>3, <1>4 DEF Inv, CallOK, PacketOK
<1>6. Order'
  <2>1. c \notin answered /\ c \notin Recorded
    BY <1>1 DEF Inv, Order, Recorded
  <2>2. \A d \in answered : pc'[d] = pc[d] /\ result'[d] = result[d] /\ d \in Calls
    BY <1>3, <2>1 DEF onlyCall, Inv, Types
  <2>3. answeredOk' = answeredOk
    BY <1>1, <2>2 DEF answeredOk
  <2>4. \A d \in Calls : d \in Recorded' <=> d \in Recorded
    BY <1>3, <1>4, <2>1 DEF onlyCall, Recorded
  <2>5. \A b \in answeredOk : b \in Recorded /\ b # c
    BY <2>1 DEF answeredOk, Inv, Order, Recorded, Types
  <2>6. ASSUME NEW l \in Calls, pc'[l] = "done", result'[l] \in Calls \cup {Never},
               NEW b \in before'[l]
        PROVE  result'[l] # Never /\ result'[l] \notin before'[b]
    <3>1. b \in answeredOk
      BY <1>3 DEF onlyCall, Inv, Order
    <3>2. b # c /\ b \in Recorded /\ b \in Calls /\ before'[b] = before[b]
      BY <1>3, <2>5, <3>1 DEF onlyCall, Recorded
    <3>3. CASE l = c
      BY <1>3, <3>2, <3>3 DEF Inv, Order
    <3>4. CASE l # c
      BY <1>3, <2>6, <3>2, <3>4 DEF onlyCall, Inv, Order, LastIsNotStale
    <3> QED BY <3>3, <3>4
  <2>7. \A d \in answered' : pc'[d] = "done" /\ result'[d] \in {"ok", "failed"}
    BY <1>1, <2>2 DEF Inv, Order
  <2>8. \A d \in Calls : before'[d] \subseteq answeredOk'
    BY <1>3, <2>3 DEF onlyCall, Inv, Order
  <2>9. lastWake' # Never => lastWake' \in Recorded'
    BY <1>1, <2>4 DEF Inv, Order, Types
  <2>10. \A b \in Recorded' : lastWake' # Never /\ lastWake' \notin before'[b]
    <3>1. \A b \in Recorded' : b \in Recorded /\ b # c /\ b \in Calls
      BY <2>1, <2>4 DEF Recorded
    <3> QED BY <1>1, <1>3, <3>1 DEF onlyCall, Inv, Order
  <2> QED BY <2>6, <2>7, <2>8, <2>9, <2>10 DEF Order, LastIsNotStale
<1> QED BY <1>2, <1>3, <1>5, <1>6, OthersStay DEF Inv

LEMMA InvStep == Inv /\ [Next]_vars => Inv'
<1> SUFFICES ASSUME Inv, [Next]_vars PROVE Inv'
  OBVIOUS
<1>1. CASE UNCHANGED vars
  <2>1. UNCHANGED <<addresses, changes, pc, selection, sent, source, result,
                    lastWake, packets, answered, before>>
    BY <1>1 DEF vars, network, history
  <2>2. Types' /\ Recorded' = Recorded /\ answeredOk' = answeredOk
    BY <2>1 DEF Inv, Types, Recorded, answeredOk
  <2>3. \A c \in Calls : CallOK(c)'
    BY <2>1 DEF Inv, CallOK, PacketOK, deviceOf
  <2>4. Order'
    BY <2>1, <2>2 DEF Inv, Order, LastIsNotStale
  <2> QED BY <2>2, <2>3, <2>4 DEF Inv
<1> QED
  BY <1>1, ReaddressStep, BeginWakeStep, LookUpStep, TransmitStep, AllSentStep,
     RecordLastStep, ReplyStep, ReadLastStep DEF Next, Quiet

\* What holds of the packets of a call at every label, and how the calls are
\* ordered.
THEOREM WakeInvariant == Spec => []Inv
BY InvInit, InvStep, PTL DEF Spec

\* Every variable keeps its type.
THEOREM TypeCorrect == Spec => []TypeOK
<1>1. Inv => TypeOK
  <2> SUFFICES ASSUME Inv PROVE TypeOK
    OBVIOUS
  <2>1. ASSUME NEW c \in Calls
        PROVE  selection[c] \in Selections /\ sent[c] \in 0..Len(selection[c])
    BY CallAssumption DEF Inv, Types, CallOK
  <2>2. ASSUME NEW c \in Calls, NEW n \in DOMAIN packets[c]
        PROVE  packets[c][n].device \in Devices /\ packets[c][n].link \in Interfaces
    <3>1. packets[c] \in Seq(Packets)
      BY DEF Inv, Types
    <3>2. packets[c][n] \in Packets
      BY <3>1
    <3> QED BY <3>2 DEF Packets
  <2> QED BY <2>1, <2>2 DEF TypeOK, Inv, Types, Labels, Results, Sources
<1> QED BY <1>1, WakeInvariant, PTL

\* The packets of a call go to a beginning of its selection.
LEMMA SentToSelection ==
  ASSUME Inv, NEW c \in Calls
  PROVE  /\ sentTo(c) \in Seq(Devices) /\ selection[c] \in Seq(Devices)
         /\ Len(sentTo(c)) = sent[c] /\ sent[c] \in Nat
         /\ \A n \in 1..sent[c] : sentTo(c)[n] = selection[c][n]
<1>1. /\ packets[c] \in Seq(Packets) /\ sent[c] \in Nat /\ CallOK(c)
      /\ selection[c] \in Seq(Devices)
  BY CallAssumption DEF Inv, Types
<1>2. DOMAIN packets[c] = 1..sent[c]
  BY <1>1, LenProperties DEF CallOK
<1>3. \A n \in 1..sent[c] : packets[c][n].device \in Devices
  <2>1. \A n \in 1..sent[c] : packets[c][n] \in Packets
    BY <1>1, <1>2
  <2> QED BY <2>1 DEF Packets
<1>4. sentTo(c) = [n \in 1..sent[c] |-> packets[c][n].device]
  BY <1>2 DEF sentTo
<1>5. sentTo(c) \in [1..sent[c] -> Devices]
  BY <1>3, <1>4
<1>6. sentTo(c) \in Seq(Devices) /\ Len(sentTo(c)) = sent[c]
  BY <1>1, <1>5, FunctionIsSeq
<1> QED BY <1>1, <1>4, <1>6 DEF CallOK, PacketOK

\* Whatever the order in which calls interleave: ok means a packet for every
\* selected device, failed for a beginning of them, refused for none.
THEOREM AnswersMatchPackets == Spec => []AnswerMatchesPackets
<1>1. Inv => AnswerMatchesPackets
  <2> SUFFICES ASSUME Inv, NEW c \in Calls
               PROVE  /\ result[c] = "ok" => sentTo(c) = selection[c]
                      /\ result[c] = "failed" => IsStrictPrefix(sentTo(c), selection[c])
                      /\ result[c] = "refused" => sentTo(c) = <<>>
    BY DEF AnswerMatchesPackets
  <2>1. CallOK(c)
    BY DEF Inv
  <2>2. ASSUME result[c] = "ok" PROVE sentTo(c) = selection[c]
    BY <2>1, <2>2, SentToSelection, SeqEqual DEF CallOK
  <2>3. ASSUME result[c] = "failed" PROVE IsStrictPrefix(sentTo(c), selection[c])
    <3>1. sent[c] < Len(selection[c])
      BY <2>1, <2>3 DEF CallOK
    <3>2. /\ SubSeq(sentTo(c), 1, sent[c]) \in Seq(Devices)
          /\ Len(SubSeq(sentTo(c), 1, sent[c])) = sent[c]
          /\ \A n \in 1..sent[c] : SubSeq(sentTo(c), 1, sent[c])[n] = sentTo(c)[n]
      BY SentToSelection
    <3>3. /\ SubSeq(selection[c], 1, sent[c]) \in Seq(Devices)
          /\ Len(SubSeq(selection[c], 1, sent[c])) = sent[c]
          /\ \A n \in 1..sent[c] : SubSeq(selection[c], 1, sent[c])[n] = selection[c][n]
      BY <3>1, SentToSelection
    <3>4. SubSeq(sentTo(c), 1, sent[c]) = SubSeq(selection[c], 1, sent[c])
      BY <3>2, <3>3, SentToSelection, SeqEqual
    <3> QED BY <3>1, <3>4, SentToSelection DEF IsStrictPrefix, IsPrefix
  <2>4. ASSUME result[c] = "refused" PROVE sentTo(c) = <<>>
    <3>1. sent[c] <= 0
      BY <2>1, <2>4 DEF CallOK
    <3>2. Len(sentTo(c)) = 0
      BY <3>1, SentToSelection
    <3> QED BY <3>2, SentToSelection, EmptySeq
  <2> QED BY <2>2, <2>3, <2>4
<1> QED BY <1>1, WakeInvariant, PTL

\* A call that is answered with ok wakes the devices it selected, and no other,
\* on the links of their interfaces.
THEOREM WakesTheSelected == Spec => []OkWakesSelected
<1>1. Inv => OkWakesSelected
  <2> SUFFICES ASSUME Inv, NEW c \in Calls, result[c] = "ok"
               PROVE  /\ UNION {wokenBy[d] : d \in ToSet(sentTo(c))}
                           = {e \in Devices : \E d \in ToSet(selection[c]) : MAC[e] = MAC[d]}
                      /\ \A p \in ToSet(packets[c]) :
                           p.link = Interface[p.device] \/ p.source = AnyAddress
    BY DEF OkWakesSelected
  <2>1. /\ CallOK(c) /\ sentTo(c) = selection[c] /\ sent[c] = Len(selection[c])
        /\ selection[c] \in Seq(Devices)
    <3>1. CallOK(c) /\ sent[c] = Len(selection[c])
      BY DEF Inv, CallOK
    <3> QED BY <3>1, SentToSelection, SeqEqual
  <2>2. ASSUME NEW d \in ToSet(selection[c])
        PROVE  d \in Devices /\ wokenBy[d] = {e \in Devices : MAC[e] = MAC[d]}
    <3>1. PICK n \in 1..sent[c] : d = selection[c][n]
      BY <2>1, LenProperties DEF ToSet
    <3>2. d \in Devices /\ isMAC(MAC[d])
      BY <2>1, <3>1 DEF CallOK, PacketOK
    <3>3. wokenBy[d] = {e \in Devices : isMAC(MAC[e]) /\ wakes(MAC[e], NewMagicPacket(MAC[d]))}
      BY <3>2 DEF wokenBy
    <3>4. ASSUME NEW e \in Devices
          PROVE  isMAC(MAC[e]) /\ wakes(MAC[e], NewMagicPacket(MAC[d])) <=> MAC[e] = MAC[d]
      <4>1. /\ MAC[e] \in Seq(Octets \cup {BadOctet})
            /\ MAC[d] \in Seq(Octets \cup {BadOctet})
        BY <3>2, CallAssumption
      <4> QED BY <3>2, <4>1, PacketWakes
    <3> QED BY <3>2, <3>3, <3>4
  <2>3. ASSUME NEW p \in ToSet(packets[c])
        PROVE  p.link = Interface[p.device] \/ p.source = AnyAddress
    <3>1. packets[c] \in Seq(Packets) /\ Len(packets[c]) = sent[c]
      BY <2>1 DEF Inv, Types, CallOK
    <3>2. PICK n \in 1..sent[c] : p = packets[c][n]
      BY <3>1, LenProperties DEF ToSet
    <3> QED BY <2>1, <3>2 DEF CallOK, PacketOK
  <2>4. UNION {wokenBy[d] : d \in ToSet(sentTo(c))}
          = {e \in Devices : \E d \in ToSet(selection[c]) : MAC[e] = MAC[d]}
    BY <2>1, <2>2
  <2> QED BY <2>3, <2>4
<1> QED BY <1>1, WakeInvariant, PTL

\* /last shows a wake all of whose packets were sent.
THEOREM LastWakeIsComplete == Spec => []LastIsComplete
<1>1. Inv => LastIsComplete
  <2> SUFFICES ASSUME Inv, lastWake # Never
               PROVE  result[lastWake] = "ok" /\ sentTo(lastWake) = selection[lastWake]
    BY DEF LastIsComplete
  <2>1. lastWake \in Calls /\ result[lastWake] = "ok"
    BY DEF Inv, Order, Recorded
  <2>2. sent[lastWake] = Len(selection[lastWake])
    BY <2>1 DEF Inv, CallOK
  <2> QED BY <2>1, <2>2, SentToSelection, SeqEqual
<1> QED BY <1>1, WakeInvariant, PTL

\* /last shows no wake that was older than one answered with ok before it was asked.
THEOREM LastWakeIsNotStale == Spec => []LastIsNotStale
<1>1. Inv => LastIsNotStale
  BY DEF Inv, Order
<1> QED BY <1>1, WakeInvariant, PTL
=============================================================================
