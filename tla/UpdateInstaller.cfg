SPECIFICATION FairSpec
CONSTANTS
    MaxRequests = 3
    Chunks = 1
    MaxSessions = 2
    MaxChecks = 1
    TaskSteps = 1
    MaxAsk = 2
INVARIANTS
    InstallerTypeOK
    AbortIsAwaited
    TaskOwnsSession
    QuitBlockedWhileInstalling
    StageIsDriven
    
    CheckIsUnderway
    ShutdownQuiesces
PROPERTIES
    InstallationEnds
