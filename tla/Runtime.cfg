SPECIFICATION FairSpec
CONSTANTS
    Retries = 2
INVARIANTS
    ExitIsExplained
PROPERTIES
    StopIsObeyed
    DeadRunnerComesBack
