-------------------------------- MODULE Squads ------------------------------
(***************************************************************************)
(* Monsters that fight in squads (src/game/server/squadmonster.cpp).  A    *)
(* monster forms a squad when it starts and leads it until it dies.  The   *)
(* leader keeps the list of the members and the set of attack slots that   *)
(* are taken; each monster keeps its leader and the slot it holds.  The    *)
(* two sides are written by different monsters, at their own thinks.       *)
(*                                                                         *)
(* EHANDLEs read NULL once their entity is freed, so Removed clears them   *)
(* all.  The array m_hSquadMember is only ever searched as a whole: it is  *)
(* a set here, of at most MaxSquadMembers - 1.  Positions, conditions and  *)
(* schedules decide who is recruited, who sees an enemy and which slots a  *)
(* monster asks for: any choice of them.                                   *)
(***************************************************************************)
EXTENDS Integers, FiniteSets, FiniteSetsExt

CONSTANTS
    Monsters,
    Enemies,
    SlotGroups,         \* the sets of slots asked for: bits_SLOTS_* (squadmonster.h)
    MaxSquadMembers,    \* MAX_SQUAD_MEMBERS (squadmonster.h:53)
    NULL

ASSUME SquadsAssumption ==
    /\ MaxSquadMembers \in Nat \ {0, 1}
    /\ NULL \notin Monsters \cup Enemies
    /\ IsFiniteSet(Monsters)
    /\ SlotGroups \subseteq SUBSET Nat

Slots == UNION SlotGroups
NO_SLOT == -1           \* bits_NO_SLOT
SQUAD_SPLIT == -2       \* bits_SLOT_SQUAD_SPLIT, never recorded as taken

VARIABLES
    life,           \* of each monster's entity; "waiting" until StartMonster
    hSquadLeader,
    hSquadMember,   \* who is listed, "valid only for leader"
    afSquadSlots,   \* m_afSquadSlots, of the leader
    iMySlot,
    hEnemy,
    staleSlots      \* history: a slot held outlived the record of it in the squad

squad == <<hSquadLeader, hSquadMember, staleSlots>>
slots == <<afSquadSlots, iMySlot>>
squadVars == <<life, squad, slots, hEnemy>>

SquadInit ==
    /\ life = [m \in Monsters |-> "unborn"]
    /\ hSquadLeader = [m \in Monsters |-> NULL]
    /\ hSquadMember = [m \in Monsters |-> {}]
    /\ afSquadSlots = [m \in Monsters |-> {}]
    /\ iMySlot = [m \in Monsters |-> NO_SLOT]
    /\ hEnemy = [m \in Monsters |-> NULL]
    /\ staleSlots = FALSE

Exists(m) == life[m] \notin {"unborn", "gone"}
InSquad(m) == hSquadLeader[m] # NULL
IsLeader(m) == hSquadLeader[m] = m

\* Everyone the loops over MySquadMember reach for a leader: those listed and,
\* for the last index, the leader itself.
MySquad(L) == hSquadMember[L] \cup {L}
-----------------------------------------------------------------------------
(* Slots *)

\* SquadEnemySplit, with the enemies of the members as they are in enemy.
SquadEnemySplit(m, enemy) ==
    LET L == hSquadLeader[m]
    IN  \E n \in MySquad(L) : enemy[n] \notin {NULL, enemy[L]}

\* VacateSlot as a value: the slots recorded with each leader when it returns.
Vacated(m) ==
    IF InSquad(m)
    THEN [afSquadSlots EXCEPT ![hSquadLeader[m]] = @ \ {iMySlot[m]}]
    ELSE afSquadSlots

SlotAfterVacate(m) == IF InSquad(m) THEN NO_SLOT ELSE iMySlot[m]

\* Mutant: the slots already taken are not looked at.
OccupySlot_Any(m, desired, taken, enemy) ==
    LET L == hSquadLeader[m]
    IN  IF SquadEnemySplit(m, enemy)
        THEN iMySlot' = [iMySlot EXCEPT ![m] = SQUAD_SPLIT] /\ afSquadSlots' = taken
        ELSE /\ iMySlot' = [iMySlot EXCEPT ![m] = Min(desired)]
             /\ afSquadSlots' = [taken EXCEPT ![L] = @ \cup {Min(desired)}]

\* OccupySlot of a member that has just vacated its slot: the lowest of the
\* slots it desires that is free, with those taken recorded in taken.
OccupySlot(m, desired, taken, enemy) ==
    LET L == hSquadLeader[m]
        free == desired \ taken[L]
    IN  IF SquadEnemySplit(m, enemy)
        THEN iMySlot' = [iMySlot EXCEPT ![m] = SQUAD_SPLIT] /\ afSquadSlots' = taken
        ELSE /\ free # {}
             /\ iMySlot' = [iMySlot EXCEPT ![m] = Min(free)]
             /\ afSquadSlots' = [taken EXCEPT ![L] = @ \cup {Min(free)}]

\* SquadMakeEnemy of m's enemy, when the members in blind do not see one.
SquadMakeEnemy(m, blind) ==
    IF InSquad(m) /\ hEnemy[m] # NULL
    THEN [n \in Monsters |-> IF n \in MySquad(hSquadLeader[m]) \cap blind
                             THEN hEnemy[m] ELSE hEnemy[n]]
    ELSE hEnemy

\* MaintainSchedule finds m's schedule no longer valid.  ScheduleChange vacates
\* the slot, GetIdealState may turn the squad against m's enemy, SetState drops
\* the enemy of a monster that goes idle, and GetSchedule asks for slots, one
\* group after the other until it has one.  A monster outside a squad is told
\* that it may attack, without a slot.
ChangeSchedule(m) ==
    /\ life[m] = "alive"
    /\ \E blind \in IF InSquad(m) THEN SUBSET MySquad(hSquadLeader[m]) ELSE {{}} :
        LET enemy == SquadMakeEnemy(m, blind)
        IN  \/ /\ InSquad(m)
               /\ \E desired \in SlotGroups : OccupySlot(m, desired, Vacated(m), enemy)
               /\ hEnemy' = enemy
            \/ /\ afSquadSlots' = Vacated(m)
               /\ iMySlot' = [iMySlot EXCEPT ![m] = SlotAfterVacate(m)]
               /\ hEnemy' \in {enemy, [enemy EXCEPT ![m] = NULL]}
    /\ UNCHANGED <<life, squad>>

\* GetEnemy: the best enemy m sees, or one it remembers.
GetEnemy(m) ==
    /\ life[m] = "alive"
    /\ \E e \in Enemies : hEnemy' = [hEnemy EXCEPT ![m] = e]
    /\ UNCHANGED <<life, squad, slots>>

\* The entity of an enemy is freed; another one may take its place.
EnemyFreed(e) ==
    /\ \E m \in Monsters : hEnemy[m] = e
    /\ hEnemy' = [m \in Monsters |-> IF hEnemy[m] = e THEN NULL ELSE hEnemy[m]]
    /\ UNCHANGED <<life, squad, slots>>
-----------------------------------------------------------------------------
(* Joining and leaving *)

Spawn(m) ==
    /\ life[m] = "unborn"
    /\ life' = [life EXCEPT ![m] = "waiting"]
    /\ UNCHANGED <<squad, slots, hEnemy>>

\* Mutant: as many as are found are taken.
Recruitable_NoLimit(m, R) ==
    \A r \in R : r # m /\ Exists(r) /\ ~InSquad(r)

\* Whom SquadRecruit may link to m: those around it that live or, by their
\* netname, also the dead.  SquadAdd finds no place for more than the array
\* holds.  The limit that StartMonster passes is not looked at.
Recruitable(m, R) ==
    /\ \A r \in R : r # m /\ Exists(r) /\ ~InSquad(r)
    /\ Cardinality(R) <= MaxSquadMembers - 1

\* SquadRecruit: there are no squads of one.
SquadRecruit(m) ==
    \E R \in (SUBSET Monsters) \ {{}} :
        /\ Recruitable(m, R)
        /\ hSquadLeader' = [n \in Monsters |-> IF n \in R \cup {m} THEN m
                                               ELSE hSquadLeader[n]]
        /\ hSquadMember' = [hSquadMember EXCEPT ![m] = R]
        /\ staleSlots' = (staleSlots \/ \E r \in R : iMySlot[r] \in Slots)

\* The first think.  A monster that another one recruited forms no squad, nor
\* does one that finds nobody or may not lead.
StartMonster(m) ==
    /\ life[m] = "waiting"
    /\ life' = [life EXCEPT ![m] = "alive"]
    /\ \/ ~InSquad(m) /\ SquadRecruit(m)
       \/ UNCHANGED squad
    /\ UNCHANGED <<slots, hEnemy>>

\* Mutant: the leader keeps its list and its members their leader.
LeaderAfterRemove_LeaderOnly(m) == [hSquadLeader EXCEPT ![m] = NULL]

\* SquadRemove.  With its leader a squad ends, for all who are still listed.  A
\* member stays listed: the loop looks for the leader, not for pRemove.
LeaderAfterRemove(m) ==
    [n \in Monsters |-> IF n = m \/ (IsLeader(m) /\ n \in hSquadMember[m])
                        THEN NULL ELSE hSquadLeader[n]]

\* Mutant: the slot dies with its holder.
KilledSlots_Kept(m) == UNCHANGED slots

KilledSlots(m) ==
    /\ afSquadSlots' = Vacated(m)
    /\ iMySlot' = [iMySlot EXCEPT ![m] = SlotAfterVacate(m)]

\* Killed: the corpse stays, and may be killed again to gib it.
Killed(m) ==
    /\ Exists(m)
    /\ life' = [life EXCEPT ![m] = "dead"]
    /\ KilledSlots(m)
    /\ hSquadLeader' = LeaderAfterRemove(m)
    /\ hSquadMember' = [hSquadMember EXCEPT ![m] = IF IsLeader(m) THEN {} ELSE @]
    /\ UNCHANGED <<hEnemy, staleSlots>>

\* The entity is freed: a corpse that faded out, or a monster that is removed
\* without being killed or stays behind at a change of level.
Removed(m) ==
    /\ Exists(m)
    /\ life' = [life EXCEPT ![m] = "gone"]
    /\ hSquadLeader' = [n \in Monsters |-> IF n = m \/ hSquadLeader[n] = m THEN NULL
                                           ELSE hSquadLeader[n]]
    /\ hSquadMember' = [n \in Monsters |-> IF n = m THEN {} ELSE hSquadMember[n] \ {m}]
    /\ iMySlot' = [iMySlot EXCEPT ![m] = NO_SLOT]
    /\ afSquadSlots' = [afSquadSlots EXCEPT ![m] = {}]
    /\ hEnemy' = [hEnemy EXCEPT ![m] = NULL]
    /\ UNCHANGED staleSlots

\* A saved game is loaded: m_afSquadSlots is not in the save data, m_iMySlot is.
Restore ==
    /\ afSquadSlots' = [m \in Monsters |-> {}]
    /\ staleSlots' = (staleSlots \/ \E m \in Monsters : iMySlot[m] \in Slots)
    /\ UNCHANGED <<life, hSquadLeader, hSquadMember, iMySlot, hEnemy>>

SquadNext ==
    \/ \E m \in Monsters : \/ Spawn(m) \/ StartMonster(m) \/ Killed(m) \/ Removed(m)
                           \/ GetEnemy(m) \/ ChangeSchedule(m)
    \/ \E e \in Enemies : EnemyFreed(e)
    \/ Restore

SquadSpec == SquadInit /\ [][SquadNext]_squadVars
-----------------------------------------------------------------------------
\* Every handle refers to an entity that exists, and no squad is larger than
\* the list of its leader (m_hSquadMember).
SquadTypeOK ==
    /\ life \in [Monsters -> {"unborn", "waiting", "alive", "dead", "gone"}]
    /\ hSquadLeader \in [Monsters -> {m \in Monsters : Exists(m)} \cup {NULL}]
    /\ hSquadMember \in [Monsters -> SUBSET {m \in Monsters : Exists(m)}]
    /\ \A m \in Monsters : Cardinality(hSquadMember[m]) <= MaxSquadMembers - 1
    /\ afSquadSlots \in [Monsters -> SUBSET Slots]
    /\ iMySlot \in [Monsters -> Slots \cup {NO_SLOT, SQUAD_SPLIT}]
    /\ hEnemy \in [Monsters -> Enemies \cup {NULL}]
    /\ staleSlots \in BOOLEAN

\* A monster in a squad follows a monster that leads itself and reaches this
\* one through its list, whoever died, was freed or was recruited again: the
\* loops of SquadMakeEnemy and SquadCount miss nobody.
MembersListed ==
    \A m \in Monsters : InSquad(m) =>
        LET L == hSquadLeader[m] IN IsLeader(L) /\ m \in MySquad(L)

\* A slot is one member's, and the leader knows it is taken, as long as nobody
\* entered a squad, or a game that was loaded, with a slot from before: what
\* OccupySlot and VacateSlot are for.
SlotsExclusive ==
    ~staleSlots => \A m \in Monsters : InSquad(m) /\ iMySlot[m] \in Slots =>
        /\ iMySlot[m] \in afSquadSlots[hSquadLeader[m]]
        /\ \A n \in Monsters \ {m} :
               hSquadLeader[n] = hSquadLeader[m] => iMySlot[n] # iMySlot[m]

Unheld(L, s) ==
    /\ IsLeader(L)
    /\ s \in afSquadSlots[L]
    /\ \A n \in Monsters : ~(hSquadLeader[n] = L /\ iMySlot[n] = s)

\* Killing a monster and changing its schedule give its slot back: only the
\* removal of one that was not killed can leave a slot taken that nobody holds.
NoSlotLeaks ==
    [][\A L \in Monsters : \A s \in Slots :
          (Unheld(L, s))' /\ ~Unheld(L, s) => \E m \in Monsters : Removed(m)]_squadVars
=============================================================================
