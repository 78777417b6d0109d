SPECIFICATION FairSpec
CONSTANTS
    m1 = m1
    m2 = m2
    ann = ann
    bob = bob
    group = group
    chat = chat
    Messages = {m1, m2}
    Inboxes <- MCInboxes
    AllowedOpenIDs <- MCAllowedOpenIDs
    AllowedChatIDs <- MCAllowedChatIDs
    MaxFaults = 2
INVARIANTS
    AckedIsExecuted
    RepeatsOnlyByFault
PROPERTY
    MessageIsHandled
