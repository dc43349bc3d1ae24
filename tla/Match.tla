-------------------------------- MODULE Match -------------------------------
(***************************************************************************)
(* Players of a multiplayer match: joining, the welcome camera, dying and  *)
(* spawning again, watching others as a spectator, leaving, and the        *)
(* intermission that ends a map (src/game/server/player.cpp, observer.cpp, *)
(* client.cpp, multiplay_gamerules.cpp).                                   *)
(*                                                                         *)
(* The engine calls the game once for a frame (StartFrame, here Think),    *)
(* and for every client once for each of its movement commands (PreThink)  *)
(* and each of its console commands, in any order.  It clears a player's   *)
(* entvars before ClientPutInServer and keeps the CBasePlayer itself, as   *)
(* client.cpp:485 has it, until the map changes.                           *)
(*                                                                         *)
(* A camera spot of the map stands for all of them.  Buttons, timers and   *)
(* limits are choices; the two deadlines of an intermission are the phases *)
(* of a clock.                                                             *)
(***************************************************************************)
EXTENDS Integers, FiniteSets, FiniteSetsExt

CONSTANTS
    MaxClients,
    MaySpectate,    \* FL_PROXY, or everybody with allow_spectators
    WelcomeCam,     \* mp_welcomecam
    AskedModes,     \* bound: modes that the players ask for or jump to
    Spot,           \* an info_intermission or a spawn spot
    NULL

Players == 1 .. MaxClients

ASSUME MatchAssumption ==
    /\ MaxClients \in Nat \ {0}
    /\ MaySpectate \subseteq Players
    /\ WelcomeCam \in BOOLEAN
    /\ AskedModes \subseteq Int
    /\ Spot \notin Players /\ NULL \notin Players \cup {Spot}

OBS_NONE == 0           OBS_CHASE_LOCKED == 1   OBS_CHASE_FREE == 2
OBS_ROAMING == 3        OBS_IN_EYE == 4         OBS_MAP_FREE == 5
OBS_MAP_CHASE == 6

VARIABLES
    here,       \* the clients that the engine has in the game
    pl,         \* the players' CBasePlayer and entvars
    clock,      \* "play", or how far an intermission is: "chat" until
                \* m_flIntermissionEndTime, "wait", "max" after MAX_INTERMISSION_TIME
    buttonHit   \* m_iEndIntermissionButtonHit

matchVars == <<here, pl, clock, buttonHit>>

g_fGameOver == clock # "play"

\* m_bConnected and m_bPutInServer are one: only ClientPutInServer has them differ.
NewPlayer ==
    [connected |-> FALSE, welcome |-> FALSE, deadflag |-> "no", cam |-> FALSE,
     iuser1 |-> OBS_NONE, iuser2 |-> 0, target |-> NULL, mode |-> OBS_NONE,
     hud |-> FALSE]

MatchInit ==
    /\ here = {}
    /\ pl = [p \in Players |-> NewPlayer]
    /\ clock = "play"
    /\ buttonHit = FALSE

IsObserver(r) == r.iuser1 # OBS_NONE
Tracking(r) == r.iuser1 \notin {OBS_NONE, OBS_ROAMING, OBS_MAP_FREE}
-----------------------------------------------------------------------------
(* Observers (observer.cpp).  r is the player p as the call finds it. *)

\* Mutant: other spectators are watched, too.
Watchable_Spectators(p, q) == q # p /\ pl[q].connected

\* A player whom p may watch.
Watchable(p, q) == q # p /\ pl[q].connected /\ ~IsObserver(pl[q])

\* The k-th player after start, round the table.
Around(start, k, reverse) ==
    ((start - 1 + (IF reverse THEN -k ELSE k)) % MaxClients) + 1

\* Mutant: the entity the physics code is told of stays the old one.
FindNextPlayer_NoStore(p, r, reverse) ==
    LET start == IF r.target \in Players THEN r.target ELSE p
        found == {k \in 1 .. MaxClients : Watchable(p, Around(start, k, reverse))}
    IN  IF found = {} THEN [r EXCEPT !.target = NULL, !.iuser2 = 0]
        ELSE [r EXCEPT !.target = Around(start, Min(found), reverse)]

\* Observer_FindNextPlayer: the search ends with the player it started from.
FindNextPlayer(p, r, reverse) ==
    LET start == IF r.target \in Players THEN r.target ELSE p
        found == {k \in 1 .. MaxClients : Watchable(p, Around(start, k, reverse))}
        next == Around(start, Min(found), reverse)
    IN  IF found = {} THEN [r EXCEPT !.target = NULL, !.iuser2 = 0]
        ELSE [r EXCEPT !.target = next, !.iuser2 = IF Tracking(r) THEN next ELSE 0]

\* Observer_FindNextSpot, or Observer_FindNextPlayer when the spots of the
\* target's class are exhausted and the map has no others.
FindNextSpot(p, r, reverse) ==
    {[r EXCEPT !.target = Spot], FindNextPlayer(p, r, reverse)}

\* Observer_CheckTarget.  Its call of Observer_SetMode can only lead to roaming.
CheckTarget(p, r) ==
    LET checked == IF r.target \in Players /\ Watchable(p, r.target) THEN r
                   ELSE [r EXCEPT !.target = NULL]
        found == IF checked.target = NULL THEN FindNextPlayer(p, checked, FALSE)
                 ELSE checked
    IN  IF ~Tracking(r) THEN [r EXCEPT !.iuser2 = 0]
        ELSE IF found.target = NULL
             THEN [found EXCEPT !.mode = OBS_ROAMING, !.iuser1 = OBS_ROAMING, !.iuser2 = 0]
             ELSE [found EXCEPT !.iuser2 = found.target]

\* Mutant: any number is taken for a mode.
SetMode_AnyMode(p, r, iMode) ==
    IF iMode = r.iuser1 THEN r
    ELSE CheckTarget(p, [r EXCEPT !.mode = iMode, !.iuser1 = iMode])

\* Observer_SetMode.
SetMode(p, r, iMode) ==
    LET valid == IF iMode \in OBS_CHASE_LOCKED .. OBS_MAP_CHASE THEN iMode ELSE OBS_ROAMING
    IN  IF iMode = r.iuser1 THEN r
        ELSE CheckTarget(p, [r EXCEPT !.mode = valid, !.iuser1 = valid])

\* What IN_JUMP changes to.
ModeAfter(iMode) ==
    CASE iMode = OBS_CHASE_LOCKED -> OBS_CHASE_FREE
      [] iMode = OBS_CHASE_FREE -> OBS_MAP_CHASE
      [] iMode = OBS_ROAMING -> OBS_IN_EYE
      [] iMode = OBS_IN_EYE -> OBS_CHASE_LOCKED
      [] iMode = OBS_MAP_CHASE -> OBS_MAP_FREE
      [] OTHER -> OBS_ROAMING

\* Jump, and after it attack or attack2, unless the last press was too recent.
HandleButtons(p, r) ==
    LET jumped == {r} \cup {SetMode(p, r, m) : m \in {ModeAfter(r.iuser1)} \cap AskedModes}
        moved(s) ==
            IF s.iuser1 = OBS_MAP_FREE THEN {s}
            ELSE IF s.iuser1 = OBS_ROAMING
                 THEN UNION {FindNextSpot(p, s, reverse) : reverse \in BOOLEAN}
                 ELSE {FindNextPlayer(p, s, reverse) : reverse \in BOOLEAN}
    IN  jumped \cup UNION {moved(s) : s \in jumped}
-----------------------------------------------------------------------------
(* Players (player.cpp) *)

StartWelcomeCam(r) ==
    IF r.welcome THEN r
    ELSE [r EXCEPT !.welcome = TRUE, !.cam = TRUE, !.deadflag = "respawnable"]

\* Spawn and the game rules' PlayerSpawn, of a player that is in the server or
\* is just put in it.
Spawn(r) ==
    LET spawned == [r EXCEPT !.connected = TRUE, !.deadflag = "no", !.cam = FALSE]
    IN  IF ~r.connected /\ WelcomeCam THEN StartWelcomeCam(spawned) ELSE spawned

StopWelcomeCam(r) == Spawn([r EXCEPT !.welcome = FALSE])

\* Mutant: the welcome camera goes on.
StartObserver_InWelcomeCam(p, r) ==
    SetMode(p, [r EXCEPT !.cam = TRUE, !.deadflag = "respawnable"], r.mode)

StartObserver(p, r) ==
    SetMode(p, [r EXCEPT !.cam = TRUE, !.deadflag = "respawnable", !.welcome = FALSE],
            r.mode)

StopObserver(r) == Spawn([r EXCEPT !.iuser1 = OBS_NONE, !.iuser2 = 0])

\* UpdateClientData: the mode to begin with is set with the first InitHUD.
UpdateClientData(r) == IF r.hud THEN r ELSE [r EXCEPT !.hud = TRUE, !.mode = OBS_ROAMING]

\* PlayerDeathThink: the animation ends, the buttons are released, the death
\* camera starts, and a button or mp_forcerespawn ends it.
PlayerDeathThink(r) ==
    LET dead == [r EXCEPT !.deadflag = "dead"]
        respawnable == [r EXCEPT !.deadflag = "respawnable"]
        inCam == {r, [r EXCEPT !.cam = TRUE]}
    IN  IF r.deadflag = "dying" THEN {r, dead, respawnable}
        ELSE IF r.deadflag = "dead" THEN {r, respawnable}
        ELSE inCam \cup {Spawn(s) : s \in inCam}

\* PreThink of p: what becomes of it.
Thought(p) ==
    LET r == UpdateClientData(pl[p])
    IN  IF IsObserver(r) THEN {CheckTarget(p, s) : s \in HandleButtons(p, r)}
        ELSE IF r.welcome THEN {r, StopWelcomeCam(r)}
        ELSE IF r.deadflag # "no" THEN PlayerDeathThink(r)
        ELSE {r}

PreThink(p) ==
    /\ p \in here
    /\ IF g_fGameOver
       THEN buttonHit' \in {buttonHit, TRUE} /\ UNCHANGED pl
       ELSE \E r \in Thought(p) : pl' = [pl EXCEPT ![p] = r] /\ UNCHANGED buttonHit
    /\ UNCHANGED <<here, clock>>

\* Killed, by whatever damages the entity, whether its client is still there or
\* not.  The kill command kills nobody else.
Killed(p) ==
    /\ pl[p].connected
    /\ pl[p].deadflag = "no"
    /\ pl' = [pl EXCEPT ![p].deadflag = "dying"]
    /\ UNCHANGED <<here, clock, buttonHit>>
-----------------------------------------------------------------------------
(* Clients (client.cpp) *)

ClientPutInServer(p) ==
    /\ p \notin here
    /\ here' = here \cup {p}
    /\ pl' = [pl EXCEPT ![p] = Spawn([@ EXCEPT !.iuser1 = OBS_NONE, !.iuser2 = 0])]
    /\ UNCHANGED <<clock, buttonHit>>

\* What Disconnect leaves of a player: its CBasePlayer without the flags.
Left(r) == [NewPlayer EXCEPT !.target = r.target, !.mode = r.mode, !.hud = r.hud]

\* Nothing is done for who leaves in an intermission.  Nobody reads the entvars
\* of a player that is not connected until the engine has cleared them: they are
\* cleared at once.
ClientDisconnect(p) ==
    /\ p \in here
    /\ here' = here \ {p}
    /\ pl' = IF g_fGameOver THEN pl
             ELSE [pl EXCEPT ![p] = Left(pl[p])]
    /\ UNCHANGED <<clock, buttonHit>>

\* The command spectate.
Spectate(p, r) ==
    IF ~IsObserver(r)
    THEN IF p \in MaySpectate THEN StartObserver(p, r) ELSE r
    ELSE StopObserver(r)

\* The commands specmode, follownext, spectate and fullupdate.
Commanded(p, r) ==
    {Spectate(p, r), UpdateClientData(r)} \cup
    (IF ~IsObserver(r) THEN {}
     ELSE {SetMode(p, r, m) : m \in AskedModes} \cup
          (IF r.iuser1 = OBS_MAP_FREE THEN {}
           ELSE IF r.iuser1 = OBS_ROAMING
                THEN UNION {FindNextSpot(p, r, reverse) : reverse \in BOOLEAN}
                ELSE {FindNextPlayer(p, r, reverse) : reverse \in BOOLEAN}))

ClientCommand(p) ==
    /\ p \in here
    /\ pl[p].connected
    /\ \E r \in Commanded(p, pl[p]) : pl' = [pl EXCEPT ![p] = r]
    /\ UNCHANGED <<here, clock, buttonHit>>
-----------------------------------------------------------------------------
(* Game rules (multiplay_gamerules.cpp) *)

\* The time or the frag limit is reached.
GoToIntermission ==
    /\ clock = "play"
    /\ clock' = "chat"
    /\ buttonHit' = FALSE
    /\ UNCHANGED <<here, pl>>

\* Somebody pressed a button in time, or nobody did.
IntermissionOver == (clock = "wait" /\ buttonHit) \/ clock = "max"

\* The map changes: every entity is new and every client is put in again.
ChangeLevel ==
    /\ IntermissionOver
    /\ here' = {}
    /\ pl' = [p \in Players |-> NewPlayer]
    /\ clock' = "play"
    /\ buttonHit' = FALSE

Tick ==
    /\ \/ clock = "chat" /\ clock' = "wait"
       \/ clock = "wait" /\ clock' = "max"
    /\ UNCHANGED <<here, pl, buttonHit>>

MatchNext ==
    \/ \E p \in Players : \/ ClientPutInServer(p) \/ ClientDisconnect(p)
                          \/ ClientCommand(p) \/ PreThink(p) \/ Killed(p)
    \/ GoToIntermission \/ Tick \/ ChangeLevel

MatchSpec == MatchInit /\ [][MatchNext]_matchVars
-----------------------------------------------------------------------------
PlayerState ==
    [connected : BOOLEAN, welcome : BOOLEAN, cam : BOOLEAN, hud : BOOLEAN,
     deadflag : {"no", "dying", "dead", "respawnable"},
     iuser1 : OBS_NONE .. OBS_MAP_CHASE, mode : OBS_NONE .. OBS_MAP_CHASE,
     iuser2 : {0} \cup Players, target : Players \cup {Spot, NULL}]

\* The state of the players and of the game; an observer's mode is one of the six.
MatchTypeOK ==
    /\ here \subseteq Players
    /\ pl \in [Players -> PlayerState]
    /\ clock \in {"play", "chat", "wait", "max"}
    /\ buttonHit \in BOOLEAN

\* The player that the physics code and the visibility set follow (iuser2) is
\* the target while the mode tracks a player, and nobody in the other modes,
\* whoever joined, left or began to watch: ASSERT of client.cpp:1138.
PhysicsFollowsTarget ==
    \A p \in Players :
        pl[p].iuser2 = IF Tracking(pl[p]) /\ pl[p].target # NULL THEN pl[p].target ELSE 0

\* An observer is out of the game by every path into that state: it cannot be
\* hurt, is not about to be spawned and has no other camera.  So is who waits
\* in the welcome camera, until the map ends.
SpectatorsOutOfPlay ==
    \A p \in here :
        IsObserver(pl[p]) \/ (pl[p].welcome /\ ~g_fGameOver) =>
            /\ pl[p].deadflag = "respawnable" /\ pl[p].cam
            /\ ~(IsObserver(pl[p]) /\ pl[p].welcome)

\* After its own frame an observer that tracks a player tracks one who is
\* connected and plays, and not itself: until the next frame only may it show
\* somebody who left or began to watch.  In an intermission nothing is checked.
ObserverTracksPlayer ==
    [][\A p \in Players : PreThink(p) /\ ~g_fGameOver /\ Tracking(pl[p])' =>
          \E q \in Players \ {p} : /\ (pl[p].target)' = q
                                   /\ pl[q].connected /\ ~IsObserver(pl[q])]_matchVars
=============================================================================
