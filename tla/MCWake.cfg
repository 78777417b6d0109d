SPECIFICATION Spec
CONSTANTS
    a = a
    b = b
    c = c
    d1 = d1
    d2 = d2
    d3 = d3
    d4 = d4
    lan = lan
    wan = wan
    ip1 = ip1
    ip2 = ip2
    ip3 = ip3
    ip6 = ip6
    BadOctet = BadOctet
    AnyAddress = AnyAddress
    Calls = {a, b, c}
    Devices = {d1, d2, d3, d4}
    MAC <- MCMAC
    Interface <- MCInterface
    AddressLists <- MCAddressLists
    Selections <- MCSelections
    Never = Never
    MaxChanges = 1
SYMMETRY CallSymmetry
INVARIANTS
    TypeOK
    AnswerMatchesPackets
    OkWakesSelected
    LastIsComplete
    LastIsNotStale
