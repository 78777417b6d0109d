-------------------------- MODULE MCRelayHandlers --------------------------
(* Values for the constants of RelayHandlers that a .cfg cannot write.     *)
EXTENDS RelayHandlers

CONSTANTS nas

MCTargets == {Blank, All, nas}
MCTrim == [t \in MCTargets |-> t]
MCTokens == {NoToken, AdminToken, DeviceToken}
MCReports == {[command_id |-> 1, ok |-> b] : b \in BOOLEAN}
=============================================================================
