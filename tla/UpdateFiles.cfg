SPECIFICATION FilesSpec
CONSTANTS
    NumFiles = 2
    MaxAttempts = 2
    MaxEdits = 1
INVARIANTS
    FilesTypeOK
    EveryQuestionSettled
    SuccessIsComplete
PROPERTIES
    OnlyVerifiedFilesInstalled
    EditsOverwrittenOnConsent
    UserModifiableKept
