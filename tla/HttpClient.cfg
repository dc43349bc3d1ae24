SPECIFICATION FairHttpSpec
CONSTANTS
    MaxRequests = 3
    Chunks = 1
INVARIANTS
    HttpTypeOK
    PipelineOrder
    NoLostWakeup
    AbortHitsRunningTransfer
    AbortedTransferFails
PROPERTIES
    ImplementsService
    ShutdownJoins
    RequestsAnswered
