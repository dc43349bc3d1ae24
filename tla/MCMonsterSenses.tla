--------------------------- MODULE MCMonsterSenses --------------------------
(* Two clients' slots and two for other sounds; any number of monsters.    *)
EXTENDS MonsterSenses
=============================================================================
