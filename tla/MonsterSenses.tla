---------------------------- MODULE MonsterSenses ---------------------------
(***************************************************************************)
(* How monsters collect the sounds they hear (src/game/server/monsters.cpp *)
(* 194-263): each call of Listen builds a list of its own, but every       *)
(* monster's list runs through the one field m_iNextAudible that a slot of *)
(* the pool has for it, and lives on while the pool changes.               *)
(*                                                                         *)
(* Positions, volumes and sound masks only decide which sounds a monster   *)
(* hears: any subset of those that there are.                              *)
(***************************************************************************)
EXTENDS SoundEnt

VARIABLES
    iNextAudible,   \* m_iNextAudible of each slot
    heads           \* slots that some monster's m_iAudibleList may still hold

senses == <<iNextAudible, heads>>
sensesVars == <<soundVars, senses>>

SensesInit ==
    /\ SoundInit
    /\ iNextAudible = [s \in Slots |-> 0]      \* CSound::Clear
    /\ heads = {}

\* Where the loop in Listen is: at the sound w.at, with the list of audible sounds
\* that begins at w.head.
Hearings == [link : [Slots -> Links], head : Links, at : Links]

\* Mutant: a sound is put in front of a list that there is already.
Collected_KeepsOld(w, heard) ==
    LET old == IF w.head = EMPTY /\ heads # {} THEN CHOOSE s \in heads : TRUE ELSE w.head
    IN  IF w.at \in heard
        THEN [link |-> [w.link EXCEPT ![w.at] = old], head |-> w.at, at |-> lists.next[w.at]]
        ELSE [w EXCEPT !.at = lists.next[w.at]]

\* One round of the loop: a sound that is heard is put in front of the list.
Collected(w, heard) ==
    IF w.at \in heard
    THEN [link |-> [w.link EXCEPT ![w.at] = w.head], head |-> w.at, at |-> lists.next[w.at]]
    ELSE [w EXCEPT !.at = lists.next[w.at]]

\* CBaseMonster::Listen collects the active sounds in heard, those that the
\* monster cares about and is close enough to hear, into a list of its own.
\* Other monsters keep the heads they have.
Listen(heard) ==
    LET from[n \in Nat] ==
            [w \in Hearings |->
                IF n = 0 \/ w.at = EMPTY THEN w ELSE from[n - 1][Collected(w, heard)]]
        start == [link |-> iNextAudible, head |-> EMPTY, at |-> lists.active]
        end == from[MaxWorldSounds][start]
    IN  /\ heard \subseteq {s \in Active : type[s] # "none"}
        /\ iNextAudible' = end.link
        /\ heads' = heads \cup ({end.head} \ {EMPTY})
        /\ UNCHANGED soundVars

SensesNext ==
    \/ SoundNext /\ UNCHANGED senses
    \/ \E heard \in SUBSET Slots : Listen(heard)

SensesSpec == SensesInit /\ [][SensesNext]_sensesVars
-----------------------------------------------------------------------------
\* PBestSound and PBestScent come to an end, for any number of monsters and
\* whenever they last listened.  A list that is not renewed (Listen is not
\* called while no player may see the monster, monsterstate.cpp:81) runs
\* through slots that have since been freed, used again, and linked anew by
\* other monsters.
AudibleListEnds == \A s \in heads : Ends(iNextAudible, s)
=============================================================================
