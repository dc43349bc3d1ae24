SPECIFICATION SensesSpec
CONSTANTS
    MaxWorldSounds = 4
    MaxClients = 2
    Kinds = {"combat"}
INVARIANTS
    AudibleListEnds
