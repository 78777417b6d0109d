------------------------------ MODULE MCRelay ------------------------------
(* Values for the constants of Relay that a .cfg cannot write.             *)
EXTENDS Relay, TLC

CONSTANTS nas, padded, c1, c2

\* The target field of a request: blank, "all", a device name, and the same
\* name with blanks around it.
MCTargets == {Blank, All, nas, padded}
MCTrim == [t \in MCTargets |-> IF t = padded THEN nas ELSE t]
MCTokens == {NoToken, AdminToken, DeviceToken}
MCClientToken == [c \in Clients |-> DeviceToken]

\* Clients are interchangeable.
ClientSymmetry == Permutations(Clients)
=============================================================================
