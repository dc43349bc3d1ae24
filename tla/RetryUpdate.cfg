SPECIFICATION FilesSpec
CONSTANTS
    NumFiles = 2
    MaxAttempts = 2
    MaxEdits = 0
INVARIANTS
    RetryCompletesUpdate
