SPECIFICATION SoundSpec
CONSTANTS
    MaxWorldSounds = 5
    MaxClients = 2
    Kinds = {"combat"}
INVARIANTS
    ListsPartition
    AbsentPlayersSilent
PROPERTIES
    ImplementsBoard
    SoundsLeave
