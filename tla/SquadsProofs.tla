----------------------------- MODULE SquadsProofs ---------------------------
(***************************************************************************)
(* What holds of squads of any monsters.                                   *)
(***************************************************************************)
EXTENDS Squads, NatLemmas, TLAPS

\* A monster that has not started holds nothing, and only the living lead.
Fresh ==
    \A m \in Monsters :
        /\ life[m] \in {"unborn", "waiting"} => iMySlot[m] = NO_SLOT /\ afSquadSlots[m] = {}
        /\ IsLeader(m) => life[m] = "alive"

\* A list may hold a monster that follows another leader or none: it died as a
\* member, gave its slot back then, and gets none any more.
Strays ==
    \A L \in Monsters : \A n \in hSquadMember[L] :
        hSquadLeader[n] # L => life[n] = "dead" /\ iMySlot[n] = NO_SLOT

SquadInv == SquadTypeOK /\ MembersListed /\ SlotsExclusive /\ Fresh /\ Strays

\* What NoSlotLeaks says of a step that removes nobody.
NoLeak == \A L \in Monsters : \A s \in Slots : (Unheld(L, s))' => Unheld(L, s)

\* No slot is one of the two marks of a monster without one.
LEMMA SlotsAreNat == Slots \subseteq Nat /\ NO_SLOT \notin Slots /\ SQUAD_SPLIT \notin Slots
BY SquadsAssumption DEF Slots, NO_SLOT, SQUAD_SPLIT

-----------------------------------------------------------------------------
(* Types *)

\* The map without monsters satisfies the invariant.
LEMMA SquadInit_Inv == SquadInit => SquadInv
<1> SUFFICES ASSUME SquadInit PROVE SquadInv
  OBVIOUS
<1>1. SquadTypeOK
  <2>1. Cardinality({}) = 0 /\ 0 <= MaxSquadMembers - 1
    BY FS_EmptySet, SquadsAssumption
  <2>2. QED
    BY <2>1 DEF SquadInit, SquadTypeOK
<1>2. MembersListed /\ SlotsExclusive /\ Fresh /\ Strays
  BY SlotsAreNat, SquadsAssumption
     DEF SquadInit, MembersListed, SlotsExclusive, Fresh, Strays, InSquad, IsLeader
<1>3. QED
  BY <1>1, <1>2 DEF SquadInv

\* The leader of a monster in a squad leads itself, and lives.
LEMMA LeaderFacts ==
    ASSUME SquadInv, NEW m \in Monsters, InSquad(m)
    PROVE  /\ hSquadLeader[m] \in Monsters
           /\ IsLeader(hSquadLeader[m])
           /\ m \in MySquad(hSquadLeader[m])
           /\ life[hSquadLeader[m]] = "alive"
BY DEF SquadInv, SquadTypeOK, MembersListed, Fresh, InSquad

\* A leader is in a squad, its own.
LEMMA LeaderInSquad ==
    ASSUME NEW m \in Monsters, IsLeader(m)
    PROVE  InSquad(m)
BY SquadsAssumption DEF IsLeader, InSquad

\* Vacating a slot takes one slot from one squad's record.
LEMMA VacatedFacts ==
    ASSUME SquadInv, NEW m \in Monsters
    PROVE  /\ Vacated(m) \in [Monsters -> SUBSET Slots]
           /\ \A L \in Monsters :
                  /\ InSquad(m) /\ L = hSquadLeader[m] =>
                         Vacated(m)[L] = afSquadSlots[L] \ {iMySlot[m]}
                  /\ ~InSquad(m) \/ L # hSquadLeader[m] => Vacated(m)[L] = afSquadSlots[L]
           /\ SlotAfterVacate(m) \in Slots \cup {NO_SLOT, SQUAD_SPLIT}
<1>1. /\ afSquadSlots \in [Monsters -> SUBSET Slots]
      /\ iMySlot[m] \in Slots \cup {NO_SLOT, SQUAD_SPLIT}
  BY DEF SquadInv, SquadTypeOK
<1>2. CASE InSquad(m)
  BY <1>1, <1>2, LeaderFacts DEF Vacated, SlotAfterVacate
<1>3. CASE ~InSquad(m)
  BY <1>1, <1>3 DEF Vacated, SlotAfterVacate
<1>4. QED
  BY <1>2, <1>3

\* The enemies after SquadMakeEnemy.
LEMMA MakeEnemyType ==
    ASSUME SquadInv, NEW m \in Monsters, NEW blind
    PROVE  SquadMakeEnemy(m, blind) \in [Monsters -> Enemies \cup {NULL}]
BY DEF SquadInv, SquadTypeOK, SquadMakeEnemy

-----------------------------------------------------------------------------
(* Changing a schedule *)

\* The two ends of ChangeSchedule: the slots recorded with the leaders are
\* those of Vacated(m), and maybe the one that m takes now.
ScheduleSlots(m) ==
    \/ /\ InSquad(m)
       /\ \E s \in Slots :
              /\ s \notin Vacated(m)[hSquadLeader[m]]
              /\ iMySlot' = [iMySlot EXCEPT ![m] = s]
              /\ afSquadSlots' = [Vacated(m) EXCEPT ![hSquadLeader[m]] = @ \cup {s}]
    \/ /\ iMySlot' = [iMySlot EXCEPT ![m] = SlotAfterVacate(m)]
       /\ afSquadSlots' = Vacated(m)
    \/ /\ InSquad(m)
       /\ iMySlot' = [iMySlot EXCEPT ![m] = SQUAD_SPLIT]
       /\ afSquadSlots' = Vacated(m)

\* A change of schedule gives the slots back and may drop the enemy, and that is all.
LEMMA ChangeScheduleSlots ==
    ASSUME SquadInv, NEW m \in Monsters, ChangeSchedule(m)
    PROVE  /\ ScheduleSlots(m)
           /\ hEnemy' \in [Monsters -> Enemies \cup {NULL}]
           /\ UNCHANGED <<life, hSquadLeader, hSquadMember, staleSlots>>
           /\ life[m] = "alive"
<1>1. life[m] = "alive" /\ UNCHANGED <<life, hSquadLeader, hSquadMember, staleSlots>>
  BY DEF ChangeSchedule, squad
<1>2. PICK enemy \in [Monsters -> Enemies \cup {NULL}] :
         \/ /\ InSquad(m)
            /\ \E desired \in SlotGroups : OccupySlot(m, desired, Vacated(m), enemy)
            /\ hEnemy' = enemy
         \/ /\ afSquadSlots' = Vacated(m)
            /\ iMySlot' = [iMySlot EXCEPT ![m] = SlotAfterVacate(m)]
            /\ hEnemy' \in {enemy, [enemy EXCEPT ![m] = NULL]}
  BY MakeEnemyType DEF ChangeSchedule
<1>3. hEnemy' \in [Monsters -> Enemies \cup {NULL}]
  BY <1>2
<1>4. ASSUME InSquad(m), NEW desired \in SlotGroups, OccupySlot(m, desired, Vacated(m), enemy)
      PROVE  ScheduleSlots(m)
  <2> DEFINE free == desired \ Vacated(m)[hSquadLeader[m]]
  <2>1. CASE SquadEnemySplit(m, enemy)
    BY <1>4, <2>1 DEF OccupySlot, ScheduleSlots
  <2>2. CASE ~SquadEnemySplit(m, enemy)
    <3>1. /\ free # {}
          /\ iMySlot' = [iMySlot EXCEPT ![m] = Min(free)]
          /\ afSquadSlots' = [Vacated(m) EXCEPT ![hSquadLeader[m]] = @ \cup {Min(free)}]
      BY <1>4, <2>2 DEF OccupySlot
    <3>2. free \subseteq Nat /\ free \subseteq Slots
      BY SlotsAreNat DEF Slots
    <3>3. Min(free) \in free
      <4> HIDE DEF free
      <4> QED BY <3>1, <3>2, MinIsLeast
    <3>4. Min(free) \in Slots /\ Min(free) \notin Vacated(m)[hSquadLeader[m]]
      BY <3>2, <3>3
    <3> HIDE DEF free
    <3>5. QED
      BY <1>4, <3>1, <3>4 DEF ScheduleSlots
  <2>3. QED
    BY <2>1, <2>2
<1>5. QED
  BY <1>1, <1>2, <1>3, <1>4 DEF ScheduleSlots

\* A monster in a squad gives its slot back and takes one that is free, or none.
LEMMA ChangeScheduleStep ==
    ASSUME SquadInv, NEW m \in Monsters, ChangeSchedule(m)
    PROVE  SquadInv' /\ NoLeak
<1> DEFINE L0 == hSquadLeader[m]
<1>1. /\ ScheduleSlots(m)
      /\ hEnemy' \in [Monsters -> Enemies \cup {NULL}]
      /\ UNCHANGED <<life, hSquadLeader, hSquadMember, staleSlots>>
      /\ life[m] = "alive"
  BY ChangeScheduleSlots
<1>2. /\ afSquadSlots \in [Monsters -> SUBSET Slots]
      /\ iMySlot \in [Monsters -> Slots \cup {NO_SLOT, SQUAD_SPLIT}]
  BY DEF SquadInv, SquadTypeOK
<1>3. /\ \A n \in Monsters : /\ InSquad(n)' <=> InSquad(n)
                             /\ IsLeader(n)' <=> IsLeader(n)
                             /\ Exists(n)' <=> Exists(n)
  BY <1>1 DEF InSquad, IsLeader, Exists
<1>4. InSquad(m) => L0 \in Monsters /\ IsLeader(L0) /\ life[L0] = "alive"
  BY LeaderFacts
<1> DEFINE Outcome ==
      /\ iMySlot' \in [Monsters -> Slots \cup {NO_SLOT, SQUAD_SPLIT}]
      /\ afSquadSlots' \in [Monsters -> SUBSET Slots]
      /\ \A n \in Monsters \ {m} : iMySlot'[n] = iMySlot[n]
      /\ \A L \in Monsters : ~InSquad(m) \/ L # L0 => afSquadSlots'[L] = afSquadSlots[L]
      /\ ~InSquad(m) => iMySlot'[m] = iMySlot[m]
      /\ InSquad(m) =>
             \/ /\ iMySlot'[m] \in Slots
                /\ iMySlot'[m] \notin afSquadSlots[L0] \ {iMySlot[m]}
                /\ afSquadSlots'[L0] = (afSquadSlots[L0] \ {iMySlot[m]}) \cup {iMySlot'[m]}
             \/ /\ iMySlot'[m] \notin Slots
                /\ afSquadSlots'[L0] = afSquadSlots[L0] \ {iMySlot[m]}
<1>5. Outcome
  <2>1. /\ Vacated(m) \in [Monsters -> SUBSET Slots]
        /\ \A L \in Monsters :
               /\ InSquad(m) /\ L = L0 => Vacated(m)[L] = afSquadSlots[L] \ {iMySlot[m]}
               /\ ~InSquad(m) \/ L # L0 => Vacated(m)[L] = afSquadSlots[L]
        /\ SlotAfterVacate(m) \in Slots \cup {NO_SLOT, SQUAD_SPLIT}
    BY VacatedFacts
  <2>2. ASSUME InSquad(m), NEW slot \in Slots, slot \notin Vacated(m)[L0],
               iMySlot' = [iMySlot EXCEPT ![m] = slot],
               afSquadSlots' = [Vacated(m) EXCEPT ![L0] = @ \cup {slot}]
        PROVE  Outcome
    BY <1>2, <1>4, <2>1, <2>2
  <2>3. CASE /\ iMySlot' = [iMySlot EXCEPT ![m] = SlotAfterVacate(m)]
             /\ afSquadSlots' = Vacated(m)
    <3>1. SlotAfterVacate(m) = IF InSquad(m) THEN NO_SLOT ELSE iMySlot[m]
      BY DEF SlotAfterVacate
    <3>2. QED
      BY <1>2, <1>4, <2>1, <2>3, <3>1, SlotsAreNat
  <2>4. CASE /\ InSquad(m)
             /\ iMySlot' = [iMySlot EXCEPT ![m] = SQUAD_SPLIT]
             /\ afSquadSlots' = Vacated(m)
    BY <1>2, <1>4, <2>1, <2>4, SlotsAreNat
  <2>5. QED
    BY <1>1, <2>2, <2>3, <2>4 DEF ScheduleSlots
<1>6. SquadTypeOK'
  BY <1>1, <1>3, <1>5 DEF SquadInv, SquadTypeOK
<1>7. MembersListed'
  BY <1>1, <1>3 DEF SquadInv, MembersListed, IsLeader, MySquad
<1>8. SlotsExclusive'
  <2> SUFFICES ASSUME ~staleSlots, NEW n \in Monsters, InSquad(n), iMySlot'[n] \in Slots
               PROVE  /\ iMySlot'[n] \in afSquadSlots'[hSquadLeader[n]]
                      /\ \A k \in Monsters \ {n} :
                             hSquadLeader[k] = hSquadLeader[n] => iMySlot'[k] # iMySlot'[n]
    BY <1>1, <1>3 DEF SlotsExclusive
  <2>1. hSquadLeader[n] \in Monsters
    BY LeaderFacts
  <2>2. \A i \in Monsters : InSquad(i) /\ iMySlot[i] \in Slots =>
            /\ iMySlot[i] \in afSquadSlots[hSquadLeader[i]]
            /\ \A k \in Monsters \ {i} :
                   hSquadLeader[k] = hSquadLeader[i] => iMySlot[k] # iMySlot[i]
    BY DEF SquadInv, SlotsExclusive
  <2>3. CASE n = m
    <3>1. ASSUME NEW k \in Monsters \ {n}, hSquadLeader[k] = hSquadLeader[n]
          PROVE  iMySlot'[k] # iMySlot'[n]
      <4>1. InSquad(k) /\ iMySlot'[k] = iMySlot[k]
        BY <1>5, <2>3, <3>1 DEF InSquad
      <4>2. iMySlot[k] \in Slots => iMySlot[k] \in afSquadSlots[L0] \ {iMySlot[m]}
        BY <2>2, <2>3, <3>1, <4>1
      <4>3. QED
        BY <1>5, <2>3, <4>1, <4>2
    <3>2. QED
      BY <1>5, <2>3, <3>1
  <2>4. CASE n # m
    <3>1. iMySlot'[n] = iMySlot[n] /\ iMySlot[n] \in afSquadSlots[hSquadLeader[n]]
      BY <1>5, <2>2, <2>4
    <3>2. iMySlot[n] \in afSquadSlots'[hSquadLeader[n]]
      <4>1. CASE ~InSquad(m) \/ hSquadLeader[n] # L0
        BY <1>5, <2>1, <3>1, <4>1
      <4>2. CASE InSquad(m) /\ hSquadLeader[n] = L0
        <5>1. iMySlot[n] # iMySlot[m]
          BY <2>2, <2>4, <3>1, <4>2
        <5>2. QED
          BY <1>5, <3>1, <4>2, <5>1
      <4>3. QED
        BY <4>1, <4>2
    <3>3. ASSUME NEW k \in Monsters \ {n}, hSquadLeader[k] = hSquadLeader[n]
          PROVE  iMySlot'[k] # iMySlot'[n]
      <4>1. CASE k # m
        BY <1>5, <2>2, <2>4, <3>1, <3>3, <4>1
      <4>2. CASE k = m
        <5>1. InSquad(m) /\ hSquadLeader[n] = L0 /\ iMySlot[n] # iMySlot[m]
          BY <2>2, <2>4, <3>1, <3>3, <4>2 DEF InSquad
        <5>2. iMySlot[n] \in afSquadSlots[L0] \ {iMySlot[m]}
          BY <3>1, <5>1
        <5>3. QED
          BY <1>5, <3>1, <4>2, <5>1, <5>2
      <4>3. QED
        BY <4>1, <4>2
    <3>4. QED
      BY <3>1, <3>2, <3>3
  <2>5. QED
    BY <2>3, <2>4
<1>9. Fresh'
  BY <1>1, <1>3, <1>4, <1>5 DEF SquadInv, Fresh
<1>10. NoLeak
  <2> SUFFICES ASSUME NEW L \in Monsters, NEW s \in Slots,
                      IsLeader(L), s \in afSquadSlots'[L],
                      \A n \in Monsters : ~(hSquadLeader[n] = L /\ iMySlot'[n] = s)
               PROVE  /\ s \in afSquadSlots[L]
                      /\ \A n \in Monsters : ~(hSquadLeader[n] = L /\ iMySlot[n] = s)
    BY <1>1, <1>3 DEF NoLeak, Unheld
  <2>1. CASE ~InSquad(m) \/ L # L0
    <3>1. hSquadLeader[m] # L \/ iMySlot'[m] = iMySlot[m]
      BY <1>5, <2>1
    <3>2. QED
      BY <1>5, <2>1, <3>1
  <2>2. CASE InSquad(m) /\ L = L0
    BY <1>5, <2>2
  <2>3. QED
    BY <2>1, <2>2
<1>11. Strays'
  BY <1>1, <1>5 DEF SquadInv, Strays, SquadTypeOK
<1>12. QED
  BY <1>6, <1>7, <1>8, <1>9, <1>10, <1>11 DEF SquadInv

-----------------------------------------------------------------------------
(* Joining and leaving *)

\* A set of members within a set of members is no larger.
LEMMA FewerMembers ==
    ASSUME SquadInv, NEW m \in Monsters, NEW R \in SUBSET hSquadMember[m]
    PROVE  Cardinality(R) <= MaxSquadMembers - 1
<1>1. /\ hSquadMember[m] \subseteq Monsters /\ IsFiniteSet(Monsters)
      /\ Cardinality(hSquadMember[m]) <= MaxSquadMembers - 1
  BY SquadsAssumption DEF SquadInv, SquadTypeOK
<1>2. IsFiniteSet(hSquadMember[m])
  BY <1>1, FS_Subset
<1>3. /\ Cardinality(R) \in Nat /\ Cardinality(hSquadMember[m]) \in Nat
      /\ Cardinality(R) <= Cardinality(hSquadMember[m])
  <2>1. IsFiniteSet(R) /\ Cardinality(R) <= Cardinality(hSquadMember[m])
    BY <1>2, FS_Subset
  <2>2. QED
    BY <1>2, <2>1, FS_CardinalityType
<1>4. MaxSquadMembers - 1 \in Int
  BY SquadsAssumption
<1>5. QED
  BY <1>1, <1>3, <1>4

\* Nothing but the life of a monster changes, and it does not lead or stays as
\* it was.
LEMMA LifeStep ==
    ASSUME SquadInv, NEW m \in Monsters, NEW to \in {"waiting", "alive"},
           \/ life[m] = "unborn" /\ to = "waiting"
           \/ life[m] = "waiting" /\ to = "alive",
           life' = [life EXCEPT ![m] = to], UNCHANGED <<squad, slots, hEnemy>>
    PROVE  SquadInv' /\ NoLeak
<1>1. /\ UNCHANGED <<hSquadLeader, hSquadMember, staleSlots, afSquadSlots, iMySlot, hEnemy>>
      /\ life \in [Monsters -> {"unborn", "waiting", "alive", "dead", "gone"}]
  BY DEF squad, slots, SquadInv, SquadTypeOK
<1>2. life' \in [Monsters -> {"unborn", "waiting", "alive", "dead", "gone"}]
  BY <1>1
<1>3. \A n \in Monsters : Exists(n) => Exists(n)'
  BY <1>1 DEF Exists
<1>4. SquadTypeOK'
  BY <1>1, <1>2, <1>3 DEF SquadInv, SquadTypeOK
<1>5. MembersListed' /\ SlotsExclusive' /\ NoLeak
  BY <1>1 DEF SquadInv, MembersListed, SlotsExclusive, InSquad, IsLeader, MySquad,
     NoLeak, Unheld
<1>6. ~IsLeader(m)
  BY DEF SquadInv, Fresh
<1>7. Fresh'
  BY <1>1, <1>6 DEF SquadInv, Fresh, IsLeader
<1>8. Strays'
  BY <1>1, <1>2 DEF SquadInv, Strays, SquadTypeOK
<1>9. QED
  BY <1>4, <1>5, <1>7, <1>8 DEF SquadInv

\* A squad is formed of monsters outside any squad; the new leader has no slots.
LEMMA RecruitStep ==
    ASSUME SquadInv, NEW m \in Monsters, life[m] = "waiting",
           life' = [life EXCEPT ![m] = "alive"],
           ~InSquad(m), SquadRecruit(m), UNCHANGED <<slots, hEnemy>>
    PROVE  SquadInv' /\ NoLeak
<1>1. PICK R \in (SUBSET Monsters) \ {{}} :
          /\ Recruitable(m, R)
          /\ hSquadLeader' = [n \in Monsters |-> IF n \in R \cup {m} THEN m
                                                 ELSE hSquadLeader[n]]
          /\ hSquadMember' = [hSquadMember EXCEPT ![m] = R]
          /\ staleSlots' = (staleSlots \/ \E r \in R : iMySlot[r] \in Slots)
  BY DEF SquadRecruit
<1>2. /\ UNCHANGED <<afSquadSlots, iMySlot, hEnemy>>
      /\ life \in [Monsters -> {"unborn", "waiting", "alive", "dead", "gone"}]
      /\ hSquadLeader \in [Monsters -> {n \in Monsters : Exists(n)} \cup {NULL}]
      /\ hSquadMember \in [Monsters -> SUBSET {n \in Monsters : Exists(n)}]
  BY DEF slots, SquadInv, SquadTypeOK
<1>3. /\ \A n \in R \cup {m} : n \in Monsters /\ ~InSquad(n) /\ Exists(n)
      /\ m \notin R /\ Cardinality(R) <= MaxSquadMembers - 1
  BY <1>1 DEF Recruitable, Exists
<1>4. /\ \A n \in R \cup {m} : hSquadLeader'[n] = m
      /\ \A n \in Monsters \ (R \cup {m}) : hSquadLeader'[n] = hSquadLeader[n]
      /\ hSquadMember'[m] = R
      /\ \A n \in Monsters \ {m} : hSquadMember'[n] = hSquadMember[n]
  BY <1>1, <1>2
<1>5. \A n \in Monsters : InSquad(n) =>
          /\ hSquadLeader[n] \in Monsters \ (R \cup {m})
          /\ n \in Monsters \ (R \cup {m})
  BY <1>3, LeaderFacts, LeaderInSquad
<1>6. \A n \in Monsters : Exists(n) => Exists(n)'
  BY <1>2 DEF Exists
<1>7. SquadTypeOK'
  <2>1. life' \in [Monsters -> {"unborn", "waiting", "alive", "dead", "gone"}]
    BY <1>2
  <2>2. hSquadLeader' \in [Monsters -> {n \in Monsters : Exists(n)'} \cup {NULL}]
    BY <1>1, <1>2, <1>3, <1>6
  <2>3. hSquadMember' \in [Monsters -> SUBSET {n \in Monsters : Exists(n)'}]
    BY <1>1, <1>2, <1>3, <1>6
  <2>4. \A n \in Monsters : Cardinality(hSquadMember'[n]) <= MaxSquadMembers - 1
    BY <1>3, <1>4 DEF SquadInv, SquadTypeOK
  <2>5. staleSlots' \in BOOLEAN
    BY <1>1 DEF SquadInv, SquadTypeOK
  <2>6. QED
    BY <1>2, <2>1, <2>2, <2>3, <2>4, <2>5 DEF SquadInv, SquadTypeOK
<1>8. MembersListed'
  <2> SUFFICES ASSUME NEW n \in Monsters, hSquadLeader'[n] # NULL
               PROVE  /\ hSquadLeader'[hSquadLeader'[n]] = hSquadLeader'[n]
                      /\ n \in hSquadMember'[hSquadLeader'[n]] \cup {hSquadLeader'[n]}
    BY DEF MembersListed, InSquad, IsLeader, MySquad
  <2>1. CASE n \in R \cup {m}
    BY <1>4, <2>1
  <2>2. CASE n \notin R \cup {m}
    <3>1. InSquad(n) /\ hSquadLeader'[n] = hSquadLeader[n]
      BY <1>4, <2>2 DEF InSquad
    <3>2. /\ IsLeader(hSquadLeader[n]) /\ n \in MySquad(hSquadLeader[n])
          /\ hSquadLeader[n] \in Monsters \ (R \cup {m})
      BY <1>5, <3>1, LeaderFacts
    <3>3. QED
      BY <1>4, <3>1, <3>2 DEF IsLeader, MySquad
  <2>3. QED
    BY <2>1, <2>2
<1>9. SlotsExclusive'
  <2> SUFFICES ASSUME ~staleSlots', NEW n \in Monsters, hSquadLeader'[n] # NULL,
                      iMySlot[n] \in Slots
               PROVE  /\ iMySlot[n] \in afSquadSlots[hSquadLeader'[n]]
                      /\ \A k \in Monsters \ {n} :
                             hSquadLeader'[k] = hSquadLeader'[n] => iMySlot[k] # iMySlot[n]
    BY <1>2 DEF SlotsExclusive, InSquad
  <2>1. ~staleSlots /\ \A r \in R : iMySlot[r] \notin Slots
    BY <1>1
  <2>2. iMySlot[m] \notin Slots
    BY SlotsAreNat DEF SquadInv, Fresh
  <2>3. n \notin R \cup {m} /\ hSquadLeader'[n] = hSquadLeader[n] /\ InSquad(n)
    BY <1>4, <2>1, <2>2 DEF InSquad
  <2>4. \A k \in Monsters : hSquadLeader'[k] = hSquadLeader'[n] =>
            hSquadLeader[k] = hSquadLeader[n]
    BY <1>4, <1>5, <2>3
  <2>5. QED
    BY <2>1, <2>3, <2>4 DEF SquadInv, SlotsExclusive
<1>10. Fresh'
  <2>1. ASSUME NEW n \in Monsters, life'[n] \in {"unborn", "waiting"}
        PROVE  iMySlot'[n] = NO_SLOT /\ afSquadSlots'[n] = {}
    BY <1>2, <2>1 DEF SquadInv, Fresh
  <2>2. ASSUME NEW n \in Monsters, hSquadLeader'[n] = n
        PROVE  life'[n] = "alive"
    BY <1>2, <1>3, <1>4, <2>2 DEF SquadInv, Fresh, IsLeader
  <2>3. QED
    BY <2>1, <2>2 DEF Fresh, IsLeader
<1>11. NoLeak
  <2> SUFFICES ASSUME NEW L \in Monsters, NEW s \in Slots,
                      hSquadLeader'[L] = L, s \in afSquadSlots[L],
                      \A n \in Monsters : ~(hSquadLeader'[n] = L /\ iMySlot[n] = s)
               PROVE  /\ hSquadLeader[L] = L
                      /\ \A n \in Monsters : ~(hSquadLeader[n] = L /\ iMySlot[n] = s)
    BY <1>2 DEF NoLeak, Unheld, IsLeader
  <2>1. L # m
    BY DEF SquadInv, Fresh
  <2>2. L \notin R /\ hSquadLeader[L] = L
    BY <1>3, <1>4, <2>1
  <2>3. \A n \in Monsters : hSquadLeader[n] = L => hSquadLeader'[n] = L
    BY <1>3, <1>4, <2>2, SquadsAssumption DEF InSquad
  <2>4. QED
    BY <2>2, <2>3
<1>12. Strays'
  <2> SUFFICES ASSUME NEW L \in Monsters, NEW n \in hSquadMember'[L], hSquadLeader'[n] # L
               PROVE  life'[n] = "dead" /\ iMySlot[n] = NO_SLOT
    BY <1>2 DEF Strays
  <2>1. L # m
    BY <1>4
  <2>2. n \in hSquadMember[L] /\ n \in Monsters
    BY <1>2, <1>4, <2>1
  <2>3. hSquadLeader[n] # L
    BY <1>3, <1>4, <2>1, <2>2, SquadsAssumption DEF InSquad
  <2>4. life[n] = "dead" /\ iMySlot[n] = NO_SLOT
    BY <2>2, <2>3 DEF SquadInv, Strays
  <2>5. QED
    BY <1>2, <2>2, <2>4
<1>13. QED
  BY <1>7, <1>8, <1>9, <1>10, <1>11, <1>12 DEF SquadInv

\* Who dies leaves its squad and its slot; with the leader the squad ends.
LEMMA KilledStep ==
    ASSUME SquadInv, NEW m \in Monsters, Killed(m)
    PROVE  SquadInv' /\ NoLeak
<1>1. /\ life \in [Monsters -> {"unborn", "waiting", "alive", "dead", "gone"}]
      /\ hSquadLeader \in [Monsters -> {n \in Monsters : Exists(n)} \cup {NULL}]
      /\ hSquadMember \in [Monsters -> SUBSET {n \in Monsters : Exists(n)}]
      /\ iMySlot \in [Monsters -> Slots \cup {NO_SLOT, SQUAD_SPLIT}]
      /\ m \in Monsters /\ NULL \notin Monsters
  BY SquadsAssumption DEF SquadInv, SquadTypeOK
<1>2. /\ life' = [life EXCEPT ![m] = "dead"]
      /\ afSquadSlots' = Vacated(m)
      /\ iMySlot' = [iMySlot EXCEPT ![m] = SlotAfterVacate(m)]
      /\ hSquadLeader' = LeaderAfterRemove(m)
      /\ hSquadMember' = [hSquadMember EXCEPT ![m] = IF IsLeader(m) THEN {} ELSE @]
      /\ UNCHANGED <<hEnemy, staleSlots>>
  BY DEF Killed, KilledSlots
<1>3. \A n \in Monsters : Exists(n) => Exists(n)'
  BY <1>1, <1>2 DEF Exists
<1>4. \A n \in Monsters : hSquadLeader'[n] =
          IF n = m \/ (IsLeader(m) /\ n \in hSquadMember[m]) THEN NULL ELSE hSquadLeader[n]
  BY <1>2 DEF LeaderAfterRemove
<1>5. /\ hSquadLeader'[m] = NULL
      /\ \A n \in Monsters :
             /\ hSquadLeader'[n] \in {NULL, hSquadLeader[n]}
             /\ hSquadLeader'[n] # m
             /\ \/ hSquadLeader'[n] = hSquadLeader[n]
                \/ n = m
                \/ hSquadLeader[n] = m
                \/ life[n] = "dead" /\ iMySlot[n] = NO_SLOT
  <2>1. ASSUME NEW n \in Monsters PROVE hSquadLeader'[n] # m
    <3>1. CASE hSquadLeader[n] # m
      BY <1>1, <1>4, <3>1
    <3>2. CASE hSquadLeader[n] = m
      <4>1. InSquad(n)
        BY <1>1, <3>2 DEF InSquad
      <4>2. IsLeader(m) /\ n \in hSquadMember[m] \cup {m}
        BY <3>2, <4>1, LeaderFacts DEF MySquad
      <4>3. QED
        BY <1>1, <1>4, <4>2
    <3>3. QED
      BY <3>1, <3>2
  <2>2. \A n \in hSquadMember[m] :
            hSquadLeader[n] # m => life[n] = "dead" /\ iMySlot[n] = NO_SLOT
    BY DEF SquadInv, Strays
  <2>3. QED
    BY <1>4, <2>1, <2>2
<1>6. \A L \in Monsters : IsLeader(L) /\ L # m => hSquadLeader'[L] = L
  BY <1>5 DEF SquadInv, Fresh, IsLeader
<1>7. /\ \A n \in Monsters \ {m} : /\ hSquadMember'[n] = hSquadMember[n]
                                   /\ iMySlot'[n] = iMySlot[n]
                                   /\ life'[n] = life[n]
      /\ hSquadMember'[m] \in {{}, hSquadMember[m]}
      /\ IsLeader(m) => hSquadMember'[m] = {}
      /\ life'[m] = "dead"
      /\ InSquad(m) => iMySlot'[m] = NO_SLOT
      /\ iMySlot'[m] \in {NO_SLOT, iMySlot[m]}
  BY <1>1, <1>2 DEF SlotAfterVacate
<1>8. SquadTypeOK'
  <2>1. life' \in [Monsters -> {"unborn", "waiting", "alive", "dead", "gone"}]
    BY <1>1, <1>2
  <2>2. hSquadLeader' \in [Monsters -> {n \in Monsters : Exists(n)'} \cup {NULL}]
    BY <1>1, <1>2, <1>3 DEF LeaderAfterRemove
  <2>3. hSquadMember' \in [Monsters -> SUBSET {n \in Monsters : Exists(n)'}]
    BY <1>1, <1>2, <1>3
  <2>4. ASSUME NEW n \in Monsters PROVE Cardinality(hSquadMember'[n]) <= MaxSquadMembers - 1
    <3>1. hSquadMember'[n] \in SUBSET hSquadMember[n]
      BY <1>7
    <3>2. QED
      BY <3>1, FewerMembers
  <2>5. afSquadSlots' \in [Monsters -> SUBSET Slots]
        /\ iMySlot' \in [Monsters -> Slots \cup {NO_SLOT, SQUAD_SPLIT}]
    BY <1>1, <1>2, VacatedFacts
  <2>6. QED
    BY <1>2, <2>1, <2>2, <2>3, <2>4, <2>5 DEF SquadInv, SquadTypeOK
<1>9. MembersListed'
  <2> SUFFICES ASSUME NEW n \in Monsters, hSquadLeader'[n] # NULL
               PROVE  /\ hSquadLeader'[hSquadLeader'[n]] = hSquadLeader'[n]
                      /\ n \in hSquadMember'[hSquadLeader'[n]] \cup {hSquadLeader'[n]}
    BY DEF MembersListed, InSquad, IsLeader, MySquad
  <2>1. InSquad(n) /\ hSquadLeader'[n] = hSquadLeader[n] /\ hSquadLeader[n] # m
    BY <1>5 DEF InSquad
  <2>2. /\ hSquadLeader[n] \in Monsters /\ IsLeader(hSquadLeader[n])
        /\ n \in MySquad(hSquadLeader[n])
    BY <2>1, LeaderFacts
  <2>3. QED
    BY <1>6, <1>7, <2>1, <2>2 DEF MySquad
<1>10. SlotsExclusive'
  <2> SUFFICES ASSUME ~staleSlots, NEW n \in Monsters, hSquadLeader'[n] # NULL,
                      iMySlot'[n] \in Slots
               PROVE  /\ iMySlot'[n] \in afSquadSlots'[hSquadLeader'[n]]
                      /\ \A k \in Monsters \ {n} :
                             hSquadLeader'[k] = hSquadLeader'[n] => iMySlot'[k] # iMySlot'[n]
    BY <1>2 DEF SlotsExclusive, InSquad
  <2>1. /\ n # m /\ iMySlot'[n] = iMySlot[n]
        /\ hSquadLeader'[n] = hSquadLeader[n] /\ InSquad(n)
    BY <1>5, <1>7 DEF InSquad
  <2>2. /\ iMySlot[n] \in afSquadSlots[hSquadLeader[n]]
        /\ \A k \in Monsters \ {n} :
               hSquadLeader[k] = hSquadLeader[n] => iMySlot[k] # iMySlot[n]
        /\ hSquadLeader[n] \in Monsters
    BY <2>1, LeaderFacts DEF SquadInv, SlotsExclusive
  <2>3. iMySlot[n] \in afSquadSlots'[hSquadLeader[n]]
    <3>1. CASE InSquad(m) /\ hSquadLeader[n] = hSquadLeader[m]
      <4>1. iMySlot[n] # iMySlot[m]
        BY <2>1, <2>2, <3>1
      <4>2. QED
        BY <1>2, <2>2, <3>1, <4>1, VacatedFacts
    <3>2. CASE ~InSquad(m) \/ hSquadLeader[n] # hSquadLeader[m]
      BY <1>2, <2>2, <3>2, VacatedFacts
    <3>3. QED
      BY <3>1, <3>2
  <2>4. ASSUME NEW k \in Monsters \ {n}, hSquadLeader'[k] = hSquadLeader'[n]
        PROVE  iMySlot'[k] # iMySlot'[n]
    <3>1. hSquadLeader[k] = hSquadLeader[n] /\ k # m
      BY <1>5, <2>1, <2>4
    <3>2. QED
      BY <1>7, <2>1, <2>2, <3>1
  <2>5. QED
    BY <2>1, <2>3, <2>4
<1>11. Fresh'
  <2>1. ASSUME NEW n \in Monsters, life'[n] \in {"unborn", "waiting"}
        PROVE  iMySlot'[n] = NO_SLOT /\ afSquadSlots'[n] = {}
    <3>1. n # m /\ iMySlot[n] = NO_SLOT /\ afSquadSlots[n] = {}
      BY <1>7, <2>1 DEF SquadInv, Fresh
    <3>2. afSquadSlots'[n] \subseteq afSquadSlots[n]
      BY <1>2, VacatedFacts
    <3>3. QED
      BY <1>7, <3>1, <3>2
  <2>2. ASSUME NEW n \in Monsters, hSquadLeader'[n] = n PROVE life'[n] = "alive"
    BY <1>1, <1>5, <1>7, <2>2 DEF SquadInv, Fresh, IsLeader
  <2>3. QED
    BY <2>1, <2>2 DEF Fresh, IsLeader
<1>12. Strays'
  <2> SUFFICES ASSUME NEW L \in Monsters, NEW n \in hSquadMember'[L], hSquadLeader'[n] # L
               PROVE  life'[n] = "dead" /\ iMySlot'[n] = NO_SLOT
    BY DEF Strays
  <2>1. n \in hSquadMember[L] /\ n \in Monsters
    BY <1>1, <1>7
  <2>2. hSquadLeader[n] # L => life[n] = "dead" /\ iMySlot[n] = NO_SLOT
    BY <2>1 DEF SquadInv, Strays
  <2>3. CASE n = m
    <3>1. InSquad(m) \/ iMySlot[m] = NO_SLOT
      BY <1>1, <2>2, <2>3 DEF InSquad
    <3>2. QED
      BY <1>7, <2>3, <3>1
  <2>4. CASE n # m /\ hSquadLeader[n] # L
    BY <1>7, <2>1, <2>2, <2>4
  <2>5. CASE n # m /\ hSquadLeader[n] = L
    <3>1. CASE L = m
      <4>1. InSquad(n) /\ IsLeader(m)
        BY <1>1, <2>1, <2>5, <3>1, LeaderFacts DEF InSquad
      <4>2. QED
        BY <1>7, <3>1, <4>1
    <3>2. CASE L # m
      BY <1>5, <1>7, <2>1, <2>5, <3>2
    <3>3. QED
      BY <3>1, <3>2
  <2>6. QED
    BY <2>3, <2>4, <2>5
<1>13. NoLeak
  <2> SUFFICES ASSUME NEW L \in Monsters, NEW s \in Slots,
                      hSquadLeader'[L] = L, s \in afSquadSlots'[L],
                      \A n \in Monsters : ~(hSquadLeader'[n] = L /\ iMySlot'[n] = s)
               PROVE  /\ hSquadLeader[L] = L
                      /\ s \in afSquadSlots[L]
                      /\ \A n \in Monsters : ~(hSquadLeader[n] = L /\ iMySlot[n] = s)
    BY DEF NoLeak, Unheld, IsLeader
  <2>1. hSquadLeader[L] = L /\ L # m
    BY <1>1, <1>5
  <2>2. s \in afSquadSlots[L]
    BY <1>2, VacatedFacts
  <2>3. ASSUME NEW n \in Monsters, hSquadLeader[n] = L, iMySlot[n] = s PROVE FALSE
    <3>1. CASE n = m
      <4>1. InSquad(m)
        BY <1>1, <2>3, <3>1 DEF InSquad
      <4>2. QED
        BY <1>2, <2>3, <3>1, <4>1, VacatedFacts
    <3>2. CASE n # m
      <4>1. iMySlot'[n] = s /\ iMySlot[n] # NO_SLOT
        BY <1>7, <2>3, <3>2, SlotsAreNat
      <4>2. hSquadLeader'[n] = L
        BY <1>5, <2>1, <2>3, <3>2, <4>1
      <4>3. QED
        BY <4>1, <4>2
    <3>3. QED
      BY <3>1, <3>2
  <2>4. QED
    BY <2>1, <2>2, <2>3
<1>14. QED
  BY <1>8, <1>9, <1>10, <1>11, <1>12, <1>13 DEF SquadInv

\* With its entity everything that refers to a monster goes, at once.
LEMMA RemovedStep ==
    ASSUME SquadInv, NEW m \in Monsters, Removed(m)
    PROVE  SquadInv'
<1>1. /\ life \in [Monsters -> {"unborn", "waiting", "alive", "dead", "gone"}]
      /\ hSquadLeader \in [Monsters -> {n \in Monsters : Exists(n)} \cup {NULL}]
      /\ hSquadMember \in [Monsters -> SUBSET {n \in Monsters : Exists(n)}]
      /\ afSquadSlots \in [Monsters -> SUBSET Slots]
      /\ iMySlot \in [Monsters -> Slots \cup {NO_SLOT, SQUAD_SPLIT}]
      /\ hEnemy \in [Monsters -> Enemies \cup {NULL}]
      /\ m \in Monsters /\ NULL \notin Monsters
  BY SquadsAssumption DEF SquadInv, SquadTypeOK
<1>2. /\ life' = [life EXCEPT ![m] = "gone"]
      /\ hSquadLeader' = [n \in Monsters |-> IF n = m \/ hSquadLeader[n] = m THEN NULL
                                             ELSE hSquadLeader[n]]
      /\ hSquadMember' = [n \in Monsters |-> IF n = m THEN {} ELSE hSquadMember[n] \ {m}]
      /\ iMySlot' = [iMySlot EXCEPT ![m] = NO_SLOT]
      /\ afSquadSlots' = [afSquadSlots EXCEPT ![m] = {}]
      /\ hEnemy' = [hEnemy EXCEPT ![m] = NULL]
      /\ UNCHANGED staleSlots
  BY DEF Removed
<1>3. \A n \in Monsters \ {m} : Exists(n) => Exists(n)'
  BY <1>1, <1>2 DEF Exists
<1>4. \A n \in Monsters : /\ hSquadLeader'[n] \in {NULL, hSquadLeader[n]} \ {m}
                          /\ n # m /\ hSquadLeader[n] # m => hSquadLeader'[n] = hSquadLeader[n]
                          /\ hSquadLeader'[n] # NULL => n # m /\ hSquadLeader[n] # m
  BY <1>1, <1>2
<1>5. /\ hSquadMember'[m] = {} /\ iMySlot'[m] = NO_SLOT /\ afSquadSlots'[m] = {}
      /\ life'[m] = "gone"
      /\ \A n \in Monsters \ {m} : /\ hSquadMember'[n] = hSquadMember[n] \ {m}
                                   /\ iMySlot'[n] = iMySlot[n]
                                   /\ afSquadSlots'[n] = afSquadSlots[n]
                                   /\ life'[n] = life[n]
  BY <1>1, <1>2
<1>6. SquadTypeOK'
  <2>1. life' \in [Monsters -> {"unborn", "waiting", "alive", "dead", "gone"}]
    BY <1>1, <1>2
  <2>2. hSquadLeader' \in [Monsters -> {n \in Monsters : Exists(n)'} \cup {NULL}]
    BY <1>1, <1>2, <1>3
  <2>3. hSquadMember' \in [Monsters -> SUBSET {n \in Monsters : Exists(n)'}]
    BY <1>1, <1>2, <1>3
  <2>4. ASSUME NEW n \in Monsters PROVE Cardinality(hSquadMember'[n]) <= MaxSquadMembers - 1
    <3>1. hSquadMember'[n] \in SUBSET hSquadMember[n]
      BY <1>5
    <3>2. QED
      BY <3>1, FewerMembers
  <2>5. /\ afSquadSlots' \in [Monsters -> SUBSET Slots]
        /\ iMySlot' \in [Monsters -> Slots \cup {NO_SLOT, SQUAD_SPLIT}]
        /\ hEnemy' \in [Monsters -> Enemies \cup {NULL}]
    BY <1>1, <1>2
  <2>6. QED
    BY <1>2, <2>1, <2>2, <2>3, <2>4, <2>5 DEF SquadInv, SquadTypeOK
<1>7. MembersListed'
  <2> SUFFICES ASSUME NEW n \in Monsters, hSquadLeader'[n] # NULL
               PROVE  /\ hSquadLeader'[hSquadLeader'[n]] = hSquadLeader'[n]
                      /\ n \in hSquadMember'[hSquadLeader'[n]] \cup {hSquadLeader'[n]}
    BY DEF MembersListed, InSquad, IsLeader, MySquad
  <2>1. /\ n # m /\ hSquadLeader'[n] = hSquadLeader[n] /\ hSquadLeader[n] # m
        /\ InSquad(n)
    BY <1>4 DEF InSquad
  <2>2. /\ hSquadLeader[n] \in Monsters /\ IsLeader(hSquadLeader[n])
        /\ n \in MySquad(hSquadLeader[n])
    BY <2>1, LeaderFacts
  <2>3. QED
    BY <1>4, <1>5, <2>1, <2>2 DEF MySquad, IsLeader
<1>8. SlotsExclusive'
  <2> SUFFICES ASSUME ~staleSlots, NEW n \in Monsters, hSquadLeader'[n] # NULL,
                      iMySlot'[n] \in Slots
               PROVE  /\ iMySlot'[n] \in afSquadSlots'[hSquadLeader'[n]]
                      /\ \A k \in Monsters \ {n} :
                             hSquadLeader'[k] = hSquadLeader'[n] => iMySlot'[k] # iMySlot'[n]
    BY <1>2 DEF SlotsExclusive, InSquad
  <2>1. /\ n # m /\ iMySlot'[n] = iMySlot[n] /\ hSquadLeader[n] # m
        /\ hSquadLeader'[n] = hSquadLeader[n] /\ InSquad(n)
    BY <1>4, <1>5 DEF InSquad
  <2>2. /\ iMySlot[n] \in afSquadSlots[hSquadLeader[n]]
        /\ \A k \in Monsters \ {n} :
               hSquadLeader[k] = hSquadLeader[n] => iMySlot[k] # iMySlot[n]
        /\ hSquadLeader[n] \in Monsters
    BY <2>1, LeaderFacts DEF SquadInv, SlotsExclusive
  <2>3. ASSUME NEW k \in Monsters \ {n}, hSquadLeader'[k] = hSquadLeader'[n]
        PROVE  iMySlot'[k] # iMySlot'[n]
    <3>1. k # m /\ hSquadLeader[k] = hSquadLeader[n]
      BY <1>4, <2>1, <2>3
    <3>2. QED
      BY <1>5, <2>1, <2>2, <3>1
  <2>4. QED
    BY <1>5, <2>1, <2>2, <2>3
<1>9. Fresh'
  <2>1. ASSUME NEW n \in Monsters, life'[n] \in {"unborn", "waiting"}
        PROVE  iMySlot'[n] = NO_SLOT /\ afSquadSlots'[n] = {}
    BY <1>5, <2>1 DEF SquadInv, Fresh
  <2>2. ASSUME NEW n \in Monsters, hSquadLeader'[n] = n PROVE life'[n] = "alive"
    BY <1>1, <1>4, <1>5, <2>2 DEF SquadInv, Fresh, IsLeader
  <2>3. QED
    BY <2>1, <2>2 DEF Fresh, IsLeader
<1>10. Strays'
  <2> SUFFICES ASSUME NEW L \in Monsters, NEW n \in hSquadMember'[L], hSquadLeader'[n] # L
               PROVE  life'[n] = "dead" /\ iMySlot'[n] = NO_SLOT
    BY DEF Strays
  <2>1. L # m /\ n # m /\ n \in hSquadMember[L] /\ n \in Monsters
    BY <1>1, <1>5
  <2>2. hSquadLeader[n] # L
    BY <1>4, <2>1
  <2>3. life[n] = "dead" /\ iMySlot[n] = NO_SLOT
    BY <2>1, <2>2 DEF SquadInv, Strays
  <2>4. QED
    BY <1>5, <2>1, <2>3
<1>11. QED
  BY <1>6, <1>7, <1>8, <1>9, <1>10 DEF SquadInv

\* After a load no slot is on record; if one is held, the record is stale.
LEMMA RestoreStep ==
    ASSUME SquadInv, Restore
    PROVE  SquadInv' /\ NoLeak
<1>1. /\ afSquadSlots' = [m \in Monsters |-> {}]
      /\ staleSlots' = (staleSlots \/ \E m \in Monsters : iMySlot[m] \in Slots)
      /\ UNCHANGED <<life, hSquadLeader, hSquadMember, iMySlot, hEnemy>>
  BY DEF Restore
<1>2. \A n \in Monsters : Exists(n)' <=> Exists(n)
  BY <1>1 DEF Exists
<1>3. afSquadSlots' \in [Monsters -> SUBSET Slots] /\ staleSlots' \in BOOLEAN
  BY <1>1 DEF SquadInv, SquadTypeOK
<1>4. SquadTypeOK'
  BY <1>1, <1>2, <1>3 DEF SquadInv, SquadTypeOK
<1>5. MembersListed' /\ Strays' /\ Fresh'
  BY <1>1 DEF SquadInv, MembersListed, Strays, Fresh, InSquad, IsLeader, MySquad
<1>6. SlotsExclusive'
  BY <1>1 DEF SlotsExclusive
<1>7. NoLeak
  BY <1>1 DEF NoLeak, Unheld
<1>8. QED
  BY <1>4, <1>5, <1>6, <1>7 DEF SquadInv

\* A monster or the world changes who is an enemy of whom, and nothing else.
LEMMA EnemyStep ==
    ASSUME SquadInv, UNCHANGED <<life, squad, slots>>,
           hEnemy' \in [Monsters -> Enemies \cup {NULL}]
    PROVE  SquadInv' /\ NoLeak
<1>1. UNCHANGED <<life, hSquadLeader, hSquadMember, staleSlots, afSquadSlots, iMySlot>>
  BY DEF squad, slots
<1>2. \A n \in Monsters : Exists(n)' <=> Exists(n)
  BY <1>1 DEF Exists
<1>3. SquadTypeOK'
  BY <1>1, <1>2 DEF SquadInv, SquadTypeOK
<1>4. MembersListed' /\ Strays' /\ Fresh' /\ SlotsExclusive' /\ NoLeak
  BY <1>1 DEF SquadInv, MembersListed, Strays, Fresh, SlotsExclusive, NoLeak, Unheld,
     InSquad, IsLeader, MySquad
<1>5. QED
  BY <1>3, <1>4 DEF SquadInv

-----------------------------------------------------------------------------
(* The theorems *)

\* Every step keeps the invariant, and leaks a slot only if it removes a monster.
LEMMA SquadStep ==
    ASSUME SquadInv, [SquadNext]_squadVars
    PROVE  SquadInv' /\ (NoLeak \/ \E m \in Monsters : Removed(m))
<1>1. ASSUME NEW m \in Monsters, Spawn(m) PROVE SquadInv' /\ NoLeak
  <2>1. /\ life[m] = "unborn" /\ life' = [life EXCEPT ![m] = "waiting"]
        /\ UNCHANGED <<squad, slots, hEnemy>>
    BY <1>1 DEF Spawn
  <2>2. QED
    BY <2>1, LifeStep, Zenon
<1>2. ASSUME NEW m \in Monsters, StartMonster(m) PROVE SquadInv' /\ NoLeak
  <2>1. life[m] = "waiting" /\ life' = [life EXCEPT ![m] = "alive"]
        /\ UNCHANGED <<slots, hEnemy>>
    BY <1>2 DEF StartMonster
  <2>2. CASE ~InSquad(m) /\ SquadRecruit(m)
    BY <2>1, <2>2, RecruitStep
  <2>3. CASE UNCHANGED squad
    BY <2>1, <2>3, LifeStep
  <2>4. QED
    BY <1>2, <2>2, <2>3 DEF StartMonster
<1>3. ASSUME NEW m \in Monsters, Killed(m) PROVE SquadInv' /\ NoLeak
  BY <1>3, KilledStep
<1>4. ASSUME NEW m \in Monsters, Removed(m)
      PROVE  SquadInv' /\ \E n \in Monsters : Removed(n)
  BY <1>4, RemovedStep
<1>5. ASSUME NEW m \in Monsters, GetEnemy(m) PROVE SquadInv' /\ NoLeak
  <2>1. hEnemy' \in [Monsters -> Enemies \cup {NULL}] /\ UNCHANGED <<life, squad, slots>>
    BY <1>5 DEF GetEnemy, SquadInv, SquadTypeOK
  <2>2. QED
    BY <2>1, EnemyStep
<1>6. ASSUME NEW m \in Monsters, ChangeSchedule(m) PROVE SquadInv' /\ NoLeak
  BY <1>6, ChangeScheduleStep
<1>7. ASSUME NEW e \in Enemies, EnemyFreed(e) PROVE SquadInv' /\ NoLeak
  <2>1. hEnemy' \in [Monsters -> Enemies \cup {NULL}] /\ UNCHANGED <<life, squad, slots>>
    BY <1>7 DEF EnemyFreed, SquadInv, SquadTypeOK
  <2>2. QED
    BY <2>1, EnemyStep
<1>8. CASE Restore
  BY <1>8, RestoreStep
<1>9. CASE UNCHANGED squadVars
  <2>1. hEnemy' \in [Monsters -> Enemies \cup {NULL}] /\ UNCHANGED <<life, squad, slots>>
    BY <1>9 DEF squadVars, SquadInv, SquadTypeOK
  <2>2. QED
    BY <2>1, EnemyStep
<1>10. QED
  BY <1>1, <1>2, <1>3, <1>4, <1>5, <1>6, <1>7, <1>8, <1>9 DEF SquadNext

\* The inductive invariant holds of every state of every behaviour.
THEOREM SquadInvariant == SquadSpec => []SquadInv
<1>1. SquadInv /\ [SquadNext]_squadVars => SquadInv'
  BY SquadStep
<1>2. QED
  BY <1>1, SquadInit_Inv, PTL DEF SquadSpec

\* The handles of a squad only ever refer to entities that exist, and no list
\* holds more than m_hSquadMember has room for.
THEOREM SquadTypeCorrect == SquadSpec => []SquadTypeOK
<1>1. SquadInv => SquadTypeOK
  BY DEF SquadInv
<1>2. QED
  BY <1>1, SquadInvariant, PTL

\* The two sides of a squad agree: whoever follows a leader is on its list, or
\* is the leader.
THEOREM MembersStayListed == SquadSpec => []MembersListed
<1>1. SquadInv => MembersListed
  BY DEF SquadInv
<1>2. QED
  BY <1>1, SquadInvariant, PTL

\* No two members of a squad hold the same slot, unless a record went stale.
THEOREM SlotsStayExclusive == SquadSpec => []SlotsExclusive
<1>1. SquadInv => SlotsExclusive
  BY DEF SquadInv
<1>2. QED
  BY <1>1, SquadInvariant, PTL

\* Only the removal of a monster leaves a slot on record that nobody holds.
THEOREM SlotsGivenBack == SquadSpec => NoSlotLeaks
<1>1. SquadInv /\ [SquadNext]_squadVars =>
          [\A L \in Monsters : \A s \in Slots :
              (Unheld(L, s))' /\ ~Unheld(L, s) => \E m \in Monsters : Removed(m)]_squadVars
  BY SquadStep DEF NoLeak
<1>2. QED
  BY <1>1, SquadInvariant, PTL DEF SquadSpec, NoSlotLeaks
=============================================================================
