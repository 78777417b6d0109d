------------------------------- MODULE MCWake -------------------------------
(* Values for the constants of Wake that a .cfg cannot write.              *)
EXTENDS Wake

CONSTANTS d1, d2, d3, d4, lan, wan, ip1, ip2, ip3, ip6, a, b, c

\* Addresses that share octets, one with octets of the header; d3 has none,
\* and d4 the one of d1.
MCMAC == [d \in Devices |-> CASE d = d1 -> <<255, 255, 255, 255, 255, 1>>
                              [] d = d2 -> <<1, 255, 255, 255, 255, 255>>
                              [] d = d3 -> <<BadOctet>>
                              [] d = d4 -> <<255, 255, 255, 255, 255, 1>>]
MCInterface == [d \in Devices |-> lan]

v4(ip) == [v4 |-> TRUE, ip |-> ip]
v6(ip) == [v4 |-> FALSE, ip |-> ip]

\* The LAN has no address, one, or another behind one that is not IPv4.
MCAddressLists == (lan :> {<<>>, <<v4(ip1)>>, <<v6(ip6), v4(ip2)>>})
                  @@ (wan :> {<<v4(ip3)>>})

MCSelections == {<<>>, <<d2, d1>>, <<d1, d3, d2>>}

CallSymmetry == Permutations(Calls)
=============================================================================
