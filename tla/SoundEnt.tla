------------------------------ MODULE SoundEnt ------------------------------
(***************************************************************************)
(* The sounds and smells that monsters sense: the pool of CSoundEnt        *)
(* (src/game/server/soundent.cpp), whose slots are linked into an active   *)
(* and a free list, and the slot each client has reserved in it.  How      *)
(* monsters collect what they hear is in module MonsterSenses.             *)
(*                                                                         *)
(* The server has one thread: each action is one think function or event,  *)
(* and what matters is their order.  A sound is its type; its origin and   *)
(* volume are left out.                                                    *)
(***************************************************************************)
EXTENDS Integers, Sequences, SequencesExt

CONSTANTS
    MaxWorldSounds,     \* MAX_WORLD_SOUNDS
    MaxClients,         \* gpGlobals->maxClients
    Kinds               \* types of the sounds and smells that are inserted

\* The engine allows 32 clients at most, the pool has 64 slots.
ASSUME SoundAssumption ==
    /\ MaxWorldSounds \in Nat /\ MaxClients \in Nat
    /\ MaxClients < MaxWorldSounds
    /\ {"player", "none"} \cap Kinds = {}

EMPTY == -1             \* SOUNDLIST_EMPTY
Slots == 0..MaxWorldSounds - 1
Links == Slots \cup {EMPTY}
Clients == 1..MaxClients
ClientSoundIndex(c) == c - 1
Reserved == {ClientSoundIndex(c) : c \in Clients}


VARIABLES
    lists,          \* m_iActiveSound, m_iFreeSound and each slot's m_iNext
    type,           \* m_iType of each slot
    expire,         \* whether m_flExpireTime is reached, or SOUND_NEVER_EXPIRE
    player,         \* where each client's player is
    gameOver,       \* g_fGameOver
    diedThinking    \* history: players who died in their own PostThink

pool == <<lists, type, expire>>
players == <<player, gameOver, diedThinking>>
soundVars == <<pool, players>>
-----------------------------------------------------------------------------
(* Linked lists *)

\* The slots met when the links are followed from head.  A walk of more steps
\* than there are slots is cut off: it would never end.
Walk(link, head) ==
    LET from[n \in Nat] ==
            [s \in Links |->
                IF n = 0 \/ s = EMPTY THEN <<>> ELSE <<s>> \o from[n - 1][link[s]]]
    IN  from[MaxWorldSounds + 1][head]

Ends(link, head) == Len(Walk(link, head)) <= MaxWorldSounds

ActiveList == Walk(lists.next, lists.active)
FreeList == Walk(lists.next, lists.free)
Active == ToSet(ActiveList)
Free == ToSet(FreeList)

\* IAllocSound moves the head of the free list, if there is one, to the head of
\* the active list; its index is l.free.
IAllocSound(l) ==
    IF l.free = EMPTY THEN l
    ELSE [next |-> [l.next EXCEPT ![l.free] = l.active],
          active |-> l.free,
          free |-> l.next[l.free]]

\* Mutant: the active list is cut off behind the new sound.
FreeSound_LosesRest(l, iSound, iPrevious) ==
    [next |-> IF iPrevious = EMPTY THEN [l.next EXCEPT ![iSound] = l.free]
              ELSE [l.next EXCEPT ![iPrevious] = EMPTY, ![iSound] = l.free],
     active |-> IF iPrevious = EMPTY THEN l.next[iSound] ELSE l.active,
     free |-> iSound]

\* Unlinks iSound from the active list, where iPrevious comes before it, and
\* makes it the head of the free list.
FreeSound(l, iSound, iPrevious) ==
    [next |-> IF iPrevious = EMPTY THEN [l.next EXCEPT ![iSound] = l.free]
              ELSE [l.next EXCEPT ![iPrevious] = l.next[iSound], ![iSound] = l.free],
     active |-> IF iPrevious = EMPTY THEN l.next[iSound] ELSE l.active,
     free |-> iSound]
-----------------------------------------------------------------------------
(* CSoundEnt::Initialize *)

\* All slots are linked into the free list in order.
AllFree ==
    [next |-> [s \in Slots |-> IF s = MaxWorldSounds - 1 THEN EMPTY ELSE s + 1],
     active |-> EMPTY,
     free |-> 0]

\* The first slots are taken for the clients, one after the other.
ClientReserve ==
    LET taken[n \in Nat] == IF n = 0 THEN AllFree ELSE IAllocSound(taken[n - 1])
    IN  taken[MaxClients]

SoundInit ==
    /\ lists = ClientReserve
    /\ type = [s \in Slots |-> "none"]
    /\ expire = [s \in Slots |-> IF s \in Reserved THEN "never" ELSE "due"]
    /\ player = [c \in Clients |-> "out"]
    /\ gameOver = FALSE
    /\ diedThinking = {}

\* CSoundEnt::InsertSound.  Without a free slot the sound is dropped.
InsertSound(t) ==
    /\ lists.free # EMPTY
    /\ lists' = IAllocSound(lists)
    /\ type' = [type EXCEPT ![lists.free] = t]
    /\ expire' = [expire EXCEPT ![lists.free] = "later"]
    /\ UNCHANGED players

\* Time passes m_flExpireTime of a sound.
Elapse(s) ==
    /\ expire[s] = "later"
    /\ expire' = [expire EXCEPT ![s] = "due"]
    /\ UNCHANGED <<lists, type, players>>

\* Where the loop in CSoundEnt::Think is: at the sound w.at, the one before it
\* that stays, if any, being w.previous.
Lists == [next : [Slots -> Links], active : Links, free : Links]
Checks == [lists : Lists, previous : Links, at : Links]

\* Mutant: the sound that is skipped is not remembered as the previous one.
Checked_StalePrevious(w) ==
    IF expire[w.at] = "due"
    THEN [w EXCEPT !.lists = FreeSound(w.lists, w.at, w.previous), !.at = w.lists.next[w.at]]
    ELSE [w EXCEPT !.at = w.lists.next[w.at],
                   !.previous = IF w.previous = EMPTY THEN w.at ELSE w.previous]

\* Mutant: the sound at the head of the list is never freed.
Checked_NotHead(w) ==
    IF expire[w.at] = "due" /\ w.previous # EMPTY
    THEN [w EXCEPT !.lists = FreeSound(w.lists, w.at, w.previous), !.at = w.lists.next[w.at]]
    ELSE [w EXCEPT !.previous = w.at, !.at = w.lists.next[w.at]]

\* One round of the loop: a sound that is due is freed.
Checked(w) ==
    IF expire[w.at] = "due"
    THEN [w EXCEPT !.lists = FreeSound(w.lists, w.at, w.previous), !.at = w.lists.next[w.at]]
    ELSE [w EXCEPT !.previous = w.at, !.at = w.lists.next[w.at]]

\* CSoundEnt::Think walks the active list, which has no more sounds than there
\* are slots (ListsPartition).
Think ==
    LET from[n \in Nat] ==
            [w \in Checks |->
                IF n = 0 \/ w.at = EMPTY THEN w.lists ELSE from[n - 1][Checked(w)]]
        start == [lists |-> lists, previous |-> EMPTY, at |-> lists.active]
    IN  /\ lists' = from[MaxWorldSounds][start]
        /\ UNCHANGED <<type, expire, players>>
-----------------------------------------------------------------------------
(* Players and the slots they have reserved *)

\* CSound::Reset, of client c's slot.
Reset(c) ==
    LET s == ClientSoundIndex(c) IN
    /\ type' = [type EXCEPT ![s] = "none"]
    /\ lists' = [lists EXCEPT !.next[s] = EMPTY]
    /\ expire' = expire

PutInServer(c) ==
    /\ player[c] = "out"
    /\ player' = [player EXCEPT ![c] = "alive"]
    /\ UNCHANGED <<pool, gameOver, diedThinking>>

Respawn(c) ==
    /\ player[c] = "dead" /\ ~gameOver
    /\ player' = [player EXCEPT ![c] = "alive"]
    /\ diedThinking' = diedThinking \ {c}
    /\ UNCHANGED <<pool, gameOver>>

\* Mutant: the dead player's sound is left as it is.
Killed_NoReset(c) ==
    /\ player[c] = "alive"
    /\ player' = [player EXCEPT ![c] = "dead"]
    /\ UNCHANGED <<pool, gameOver, diedThinking>>

\* CBasePlayer::Killed, from another entity's think.
Killed(c) ==
    /\ player[c] = "alive"
    /\ Reset(c)
    /\ player' = [player EXCEPT ![c] = "dead"]
    /\ UNCHANGED <<gameOver, diedThinking>>

\* ClientDisconnect, which returns at once during the intermission.
ClientDisconnect(c) ==
    /\ player[c] # "out"
    /\ IF gameOver THEN UNCHANGED pool ELSE Reset(c)
    /\ player' = [player EXCEPT ![c] = "out"]
    /\ diedThinking' = diedThinking \ {c}
    /\ UNCHANGED gameOver

\* CBasePlayer::PostThink ends with UpdatePlayerSound.
PostThink(c) ==
    /\ player[c] = "alive" /\ ~gameOver
    /\ type' = [type EXCEPT ![ClientSoundIndex(c)] = "player"]
    /\ UNCHANGED <<lists, expire, players>>

\* PostThink in which the player dies, of a fall or of the weapon fired there:
\* Killed resets the sound, and UpdatePlayerSound sets it again.
PostThinkFatal(c) ==
    LET s == ClientSoundIndex(c) IN
    /\ player[c] = "alive" /\ ~gameOver
    /\ lists' = [lists EXCEPT !.next[s] = EMPTY]
    /\ type' = [type EXCEPT ![s] = "player"]
    /\ player' = [player EXCEPT ![c] = "dead"]
    /\ diedThinking' = diedThinking \cup {c}
    /\ UNCHANGED <<expire, gameOver>>

GoToIntermission ==
    /\ ~gameOver
    /\ gameOver' = TRUE
    /\ UNCHANGED <<pool, player, diedThinking>>
-----------------------------------------------------------------------------
SoundNext ==
    \/ \E t \in Kinds : InsertSound(t)
    \/ \E s \in Slots : Elapse(s)
    \/ Think
    \/ \E c \in Clients :
        \/ PutInServer(c)
        \/ Respawn(c)
        \/ Killed(c)
        \/ ClientDisconnect(c)
        \/ PostThink(c)
        \/ PostThinkFatal(c)
    \/ GoToIntermission

\* Time passes, and Think sets its next time whenever it runs.
SoundFairness == WF_soundVars(Think) /\ \A s \in Slots : WF_soundVars(Elapse(s))

SoundSpec == SoundInit /\ [][SoundNext]_soundVars /\ SoundFairness
-----------------------------------------------------------------------------
(* Properties *)

\* The pool's accounts: no link leads out of it (soundent.cpp:336-353 would
\* return NULL for it), both lists end, no slot is in both, only reserved slots
\* can be in neither, and no reserved slot is ever free to be given to another
\* sound.  Think, IAllocSound and Reset write the same links, and Reset does so
\* from the middle of a list it knows nothing about.
ListsPartition ==
    /\ lists \in Lists
    /\ Ends(lists.next, lists.active) /\ Ends(lists.next, lists.free)
    /\ Active \cap Free = {}
    /\ Slots \ (Active \cup Free) \subseteq Reserved
    /\ Reserved \cap Free = {}

\* A player who is dead or gone makes no sound, "since this client isn't around
\* to think anymore" (client.cpp:109, player.cpp:989).  Not so for who dies in
\* his own PostThink, which sets the sound after Killed has reset it, and for
\* who leaves during the intermission.
AbsentPlayersSilent ==
    \A c \in Clients :
        \/ player[c] = "alive"
        \/ c \in diedThinking
        \/ gameOver /\ player[c] = "out"
        \/ type[ClientSoundIndex(c)] = "none"

\* The slots that are not reserved serve as a board for everyone's sounds: one
\* put up stays, with its type, until its time is over, and is taken down by
\* the next Think, whatever happens to the players and their slots.
NoSound == [kind |-> "none", due |-> FALSE]
Posted ==
    LET up == Active
    IN  [s \in Slots \ Reserved |->
            IF s \in up THEN [kind |-> type[s], due |-> expire[s] = "due"] ELSE NoSound]

Board == INSTANCE SoundBoard WITH
    Places <- Slots \ Reserved,
    Nothing <- NoSound,
    board <- Posted

ImplementsBoard == Board!BoardSpec

\* Every sound of limited duration leaves the active list in the end, so that
\* the pool cannot stay full.
SoundsLeave ==
    \A s \in Slots \ Reserved : s \in Active ~> s \notin Active

\* Slots reserved for clients stay in the active list: Reset is said to clear a
\* sound without unlinking it (soundent.cpp:39-40).
ReservedStayActive == Reserved \subseteq Active
=============================================================================
