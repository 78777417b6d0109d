--------------------------------- MODULE Wol ---------------------------------
(***************************************************************************)
(* Magic packets and the address they are sent from:                       *)
(* src/internal/wol/wol.go.  A MAC address is the sequence of the parts    *)
(* that its text has between separators; a part is an octet or BadOctet.   *)
(***************************************************************************)
EXTENDS Naturals, Sequences, SequencesExt, FiniteSetsExt

CONSTANTS BadOctet,    \* a part that is not two hexadecimal digits
          AnyAddress   \* the unset local address: the system chooses

Octets == 0..255

ASSUME OctetAssumption == BadOctet \notin Octets

isMAC(mac) == Len(mac) = 6 /\ \A i \in DOMAIN mac : mac[i] \in Octets

Invalid == <<>>

\* The header, followed by repetitions of the address.
packetOf(mac, repetitions) ==
    [i \in 1..(6 + 6 * repetitions) |-> IF i <= 6 THEN 255 ELSE mac[((i - 1) % 6) + 1]]

\* Defect: one repetition too few.
NewMagicPacket_Fifteen(mac) == IF isMAC(mac) THEN packetOf(mac, 15) ELSE Invalid

NewMagicPacket(mac) == IF isMAC(mac) THEN packetOf(mac, 16) ELSE Invalid

\* The first IPv4 address of an interface, from a sequence of [v4, ip]; if it
\* has none or does not exist, the packet is left to the routing table.
localAddr(addresses) ==
    LET v4 == {n \in DOMAIN addresses : addresses[n].v4}
    IN  IF v4 = {} THEN AnyAddress ELSE addresses[Min(v4)].ip

----------------------------------------------------------------------------
\* What a network card does, from which Wake takes its properties: it wakes up
\* if somewhere in the packet its address is repeated 16 times after six 255s.
wakes(mac, pkt) ==
    \E s \in 0..Len(pkt) :
        /\ s + 102 <= Len(pkt)
        /\ \A i \in 1..6 : pkt[s + i] = 255
        /\ \A r \in 1..16 : SubSeq(pkt, s + 6 * r + 1, s + 6 * r + 6) = mac
=============================================================================
