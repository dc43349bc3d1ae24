------------------------------ MODULE MCSquads ------------------------------
EXTENDS Squads, TLC
MonsterSymmetry == Permutations(Monsters)
=============================================================================
