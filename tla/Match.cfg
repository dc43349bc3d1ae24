SPECIFICATION MatchSpec
CONSTANTS
    MaxClients = 3
    MaySpectate = {1, 2}
    WelcomeCam = TRUE
    AskedModes = {3, 4, 9}
    Spot = Spot
    NULL = NULL
INVARIANTS
    MatchTypeOK
    PhysicsFollowsTarget
    SpectatorsOutOfPlay
PROPERTIES
    ObserverTracksPlayer
