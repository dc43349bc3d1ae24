SPECIFICATION MoversSpec
CONSTANTS
    Doors = {1, 2, 3, 4}
    Buttons = {5, 6}
    Team = {1, 2, 3}
    Firing = {4, 5, 6}
    CloseFiring = {3}
    Toggle = {3, 5}
    NeverReturn = {2}
    StartOpen = {3}
    Touchable = {1, 4, 5}
    DontMove = {6}
    Shootable = {6}
    Mastered = {1, 5}
    Parallel = FALSE
    MaxBlocked = 2
INVARIANTS MoversConsistent TouchMatchesRest
PROPERTIES OpenStaysOpen DoorsReturn
