SPECIFICATION FairSpec
CONSTANTS
    MaxRequests = 2
    Chunks = 1
    MaxSessions = 2
    MaxChecks = 0
    TaskSteps = 1
    MaxAsk = 1
PROPERTIES
    CancelledDownloadIsInert
