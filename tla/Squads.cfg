SPECIFICATION SquadSpec
CONSTANTS
    Monsters = {m1, m2, m3, m4}
    Enemies = {e1}
    MaxSquadMembers = 3
    NULL = NULL
    SlotGroups = {{0, 1}}
SYMMETRY MonsterSymmetry
INVARIANTS SquadTypeOK MembersListed SlotsExclusive
PROPERTY NoSlotLeaks
