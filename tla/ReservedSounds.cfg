SPECIFICATION SoundSpec
CONSTANTS
    MaxWorldSounds = 4
    MaxClients = 2
    Kinds = {"combat"}
INVARIANT
    ReservedStayActive
