SPECIFICATION FairSpec
CONSTANTS
    MaxRequests = 1
    Chunks = 1
    MaxSessions = 1
    MaxChecks = 0
    TaskSteps = 1
    MaxAsk = 1
PROPERTIES
    CancelReturns
