----------------------------- MODULE MatchProofs ----------------------------
(***************************************************************************)
(* What holds of the players of a match for any number of clients.         *)
(***************************************************************************)
EXTENDS Match, NatLemmas, TLAPS

\* What iuser2 is of a player r.
Follows(r) == r.iuser2 = IF Tracking(r) /\ r.target # NULL THEN r.target ELSE 0

\* The part of SpectatorsOutOfPlay about observers, which an intermission keeps.
ObserverOut(r) ==
    IsObserver(r) => r.deadflag = "respawnable" /\ r.cam /\ ~r.welcome

\* The part about the welcome camera.
WelcomeOut(r) == r.welcome => r.deadflag = "respawnable" /\ r.cam

\* Who is here was put in the server, and who is not is nobody, except in an
\* intermission: ClientPutInServer finds no flags of a former life.
JoinsFresh ==
    \A p \in Players :
        /\ p \in here => pl[p].connected
        /\ p \notin here /\ ~g_fGameOver => ~pl[p].connected /\ ~pl[p].welcome

MatchInv ==
    /\ MatchTypeOK
    /\ \A p \in Players : Follows(pl[p])
    /\ \A p \in here : /\ ObserverOut(pl[p])
                       /\ ~g_fGameOver => WelcomeOut(pl[p])
    /\ JoinsFresh

-----------------------------------------------------------------------------
(* The operators of observer.cpp *)

\* What makes a player take part or not.
SameCamera(n, r) ==
    /\ n.connected = r.connected /\ n.welcome = r.welcome
    /\ n.deadflag = r.deadflag /\ n.cam = r.cam

\* What the functions of observer.cpp keep.
ObserverStep(n, r) ==
    /\ n \in PlayerState
    /\ SameCamera(n, r)
    /\ IsObserver(n) <=> IsObserver(r)

\* One such step after another is one.
LEMMA ObserverStepTransitive ==
    ASSUME NEW a, NEW b, NEW c, ObserverStep(b, a), ObserverStep(c, b)
    PROVE  ObserverStep(c, a)
BY DEF ObserverStep, SameCamera

\* Going round the table ends at a player.
LEMMA AroundIsPlayer ==
    ASSUME NEW start \in Players, NEW k \in Players, NEW reverse \in BOOLEAN
    PROVE  Around(start, k, reverse) \in Players
<1> DEFINE i == start - 1 + (IF reverse THEN -k ELSE k)
<1>1. MaxClients \in Nat /\ MaxClients > 0 /\ i \in Int
  BY MatchAssumption DEF Players
<1>2. i % MaxClients \in 0 .. MaxClients - 1
  <2> HIDE DEF i
  <2> QED BY <1>1
<1>3. QED
  BY <1>1, <1>2 DEF Around, Players

\* Observer_FindNextPlayer finds a player that may be watched, if it finds one,
\* and touches nothing but the target and iuser2.
LEMMA FindNextPlayerFacts ==
    ASSUME NEW p \in Players, NEW r \in PlayerState, NEW reverse \in BOOLEAN
    PROVE  /\ ObserverStep(FindNextPlayer(p, r, reverse), r)
           /\ FindNextPlayer(p, r, reverse).iuser1 = r.iuser1
           /\ Follows(FindNextPlayer(p, r, reverse))
           /\ FindNextPlayer(p, r, reverse).target # NULL =>
                  /\ FindNextPlayer(p, r, reverse).target \in Players
                  /\ Watchable(p, FindNextPlayer(p, r, reverse).target)
<1> DEFINE start == IF r.target \in Players THEN r.target ELSE p
           found == {k \in 1 .. MaxClients : Watchable(p, Around(start, k, reverse))}
           next == Around(start, Min(found), reverse)
           n == FindNextPlayer(p, r, reverse)
<1>1. start \in Players
  OBVIOUS
<1>2. found # {} => next \in Players /\ Watchable(p, next)
  <2>1. found # {} => Min(found) \in found
    BY MinIsLeast DEF Players
  <2>2. ASSUME found # {} PROVE next \in Players
    <3>1. Min(found) \in Players
      BY <2>1, <2>2 DEF Players
    <3> HIDE DEF start, found
    <3>2. QED
      BY <1>1, <3>1, AroundIsPlayer
  <2>3. QED
    BY <2>1, <2>2
<1>3. n = IF found = {} THEN [r EXCEPT !.target = NULL, !.iuser2 = 0]
          ELSE [r EXCEPT !.target = next, !.iuser2 = IF Tracking(r) THEN next ELSE 0]
  BY DEF FindNextPlayer
<1> HIDE DEF n, found, next
<1>4. CASE found = {}
  <2>1. n = [r EXCEPT !.target = NULL, !.iuser2 = 0]
    BY <1>3, <1>4
  <2>2. /\ n \in PlayerState
        /\ n.target = NULL /\ n.iuser2 = 0 /\ n.iuser1 = r.iuser1
        /\ SameCamera(n, r)
    BY <2>1 DEF PlayerState, SameCamera
  <2>3. QED
    BY <2>2 DEF ObserverStep, IsObserver, Follows, n
<1>5. CASE found # {}
  <2>1. n = [r EXCEPT !.target = next, !.iuser2 = IF Tracking(r) THEN next ELSE 0]
    BY <1>3, <1>5
  <2>2. next \in Players /\ Watchable(p, next) /\ next # NULL
    BY <1>2, <1>5, MatchAssumption
  <2>3. /\ n \in PlayerState
        /\ n.target = next /\ n.iuser1 = r.iuser1
        /\ n.iuser2 = IF Tracking(r) THEN next ELSE 0
        /\ SameCamera(n, r)
    BY <2>1, <2>2 DEF PlayerState, SameCamera
  <2>4. QED
    BY <2>2, <2>3 DEF ObserverStep, IsObserver, Follows, Tracking, n
<1>6. QED
  BY <1>4, <1>5

\* Observer_FindNextSpot moves the camera and nothing else that matters.
LEMMA FindNextSpotKeeps ==
    ASSUME NEW p \in Players, NEW r \in PlayerState, NEW reverse \in BOOLEAN,
           NEW n \in FindNextSpot(p, r, reverse)
    PROVE  ObserverStep(n, r)
<1>1. CASE n = [r EXCEPT !.target = Spot]
  BY <1>1 DEF ObserverStep, SameCamera, IsObserver, PlayerState
<1>2. CASE n = FindNextPlayer(p, r, reverse)
  BY <1>2, FindNextPlayerFacts
<1>3. QED
  BY <1>1, <1>2 DEF FindNextSpot

\* Observer_CheckTarget leaves a target that may be watched, or a mode that
\* needs none, and iuser2 in agreement with it.
LEMMA CheckTargetFacts ==
    ASSUME NEW p \in Players, NEW r \in PlayerState
    PROVE  LET n == CheckTarget(p, r)
           IN  /\ ObserverStep(n, r)
               /\ Follows(n)
               /\ Tracking(n) => n.target \in Players /\ Watchable(p, n.target)
<1> DEFINE checked == IF r.target \in Players /\ Watchable(p, r.target) THEN r
                      ELSE [r EXCEPT !.target = NULL]
           found == IF checked.target = NULL THEN FindNextPlayer(p, checked, FALSE)
                    ELSE checked
           n == CheckTarget(p, r)
<1>1. CASE ~Tracking(r)
  <2>1. n = [r EXCEPT !.iuser2 = 0]
    BY <1>1 DEF CheckTarget
  <2> HIDE DEF n
  <2>2. ObserverStep(n, r) /\ Follows(n) /\ ~Tracking(n)
    BY <1>1, <2>1 DEF ObserverStep, SameCamera, IsObserver, PlayerState, Follows, Tracking
  <2>3. QED
    BY <2>2 DEF n
<1>2. CASE Tracking(r)
  <2>1. n = IF found.target = NULL
            THEN [found EXCEPT !.mode = OBS_ROAMING, !.iuser1 = OBS_ROAMING, !.iuser2 = 0]
            ELSE [found EXCEPT !.iuser2 = found.target]
    BY <1>2 DEF CheckTarget
  <2>2. /\ ObserverStep(checked, r)
        /\ checked.iuser1 = r.iuser1
        /\ checked.target # NULL => /\ checked.target \in Players
                                    /\ Watchable(p, checked.target)
    <3>1. CASE r.target \in Players /\ Watchable(p, r.target)
      BY <3>1 DEF ObserverStep, SameCamera
    <3>2. CASE ~(r.target \in Players /\ Watchable(p, r.target))
      <4>1. checked = [r EXCEPT !.target = NULL]
        BY <3>2
      <4> HIDE DEF checked
      <4>2. QED
        BY <4>1 DEF ObserverStep, SameCamera, IsObserver, PlayerState
    <3>3. QED
      BY <3>1, <3>2
  <2>3. /\ ObserverStep(found, r)
        /\ found.iuser1 = r.iuser1
        /\ found.target # NULL => /\ found.target \in Players
                                  /\ Watchable(p, found.target)
    <3>1. CASE checked.target # NULL
      BY <2>2, <3>1
    <3>2. CASE checked.target = NULL
      <4> HIDE DEF checked
      <4>1. checked \in PlayerState
        BY <2>2 DEF ObserverStep
      <4>2. found = FindNextPlayer(p, checked, FALSE)
        BY <3>2
      <4>3. /\ ObserverStep(found, checked)
            /\ found.iuser1 = checked.iuser1
            /\ found.target # NULL => /\ found.target \in Players
                                      /\ Watchable(p, found.target)
        BY <4>1, <4>2, FindNextPlayerFacts
      <4>4. QED
        BY <2>2, <4>3, ObserverStepTransitive
    <3>3. QED
      BY <3>1, <3>2
  <2> HIDE DEF checked, found, n
  <2>4. found \in PlayerState /\ IsObserver(found) /\ Tracking(found)
    BY <1>2, <2>3 DEF ObserverStep, IsObserver, Tracking
  <2>5. CASE found.target = NULL
    <3>1. n = [found EXCEPT !.mode = OBS_ROAMING, !.iuser1 = OBS_ROAMING, !.iuser2 = 0]
      BY <2>1, <2>5
    <3>2. /\ n \in PlayerState
          /\ n.iuser1 = OBS_ROAMING /\ n.iuser2 = 0
          /\ SameCamera(n, found)
      <4>1. OBS_ROAMING \in OBS_NONE .. OBS_MAP_CHASE
        BY DEF OBS_NONE, OBS_ROAMING, OBS_MAP_CHASE
      <4>2. QED
        BY <2>4, <3>1, <4>1 DEF SameCamera, PlayerState
    <3>3. ObserverStep(n, found) /\ Follows(n) /\ ~Tracking(n)
      BY <2>4, <3>2 DEF ObserverStep, IsObserver, Follows, Tracking, OBS_NONE, OBS_ROAMING
    <3>4. QED
      BY <2>3, <3>3, ObserverStepTransitive DEF n
  <2>6. CASE found.target # NULL
    <3>1. n = [found EXCEPT !.iuser2 = found.target]
      BY <2>1, <2>6
    <3>2. /\ ObserverStep(n, found)
          /\ Follows(n)
          /\ n.target = found.target
      BY <2>3, <2>4, <2>6, <3>1 DEF ObserverStep, SameCamera, IsObserver, PlayerState,
         Follows, Tracking
    <3>3. QED
      BY <2>3, <2>6, <3>2, ObserverStepTransitive DEF n
  <2>7. QED
    BY <2>5, <2>6
<1>3. QED
  BY <1>1, <1>2

\* Observer_SetMode never makes a player of an observer.
LEMMA SetModeFacts ==
    ASSUME NEW p \in Players, NEW r \in PlayerState, NEW iMode \in Int
    PROVE  /\ SetMode(p, r, iMode) \in PlayerState
           /\ SameCamera(SetMode(p, r, iMode), r)
           /\ IsObserver(r) => IsObserver(SetMode(p, r, iMode))
           /\ Follows(r) => Follows(SetMode(p, r, iMode))
<1> DEFINE valid == IF iMode \in OBS_CHASE_LOCKED .. OBS_MAP_CHASE THEN iMode
                    ELSE OBS_ROAMING
           set == [r EXCEPT !.mode = valid, !.iuser1 = valid]
<1>1. CASE iMode = r.iuser1
  BY <1>1 DEF SetMode, SameCamera
<1>2. CASE iMode # r.iuser1
  <2>1. SetMode(p, r, iMode) = CheckTarget(p, set)
    BY <1>2 DEF SetMode
  <2>2. valid \in OBS_NONE .. OBS_MAP_CHASE /\ valid # OBS_NONE
    BY DEF OBS_CHASE_LOCKED, OBS_MAP_CHASE, OBS_ROAMING, OBS_NONE
  <2> HIDE DEF valid
  <2>3. set \in PlayerState /\ SameCamera(set, r) /\ set.iuser1 = valid
    BY <2>2 DEF PlayerState, SameCamera
  <2> HIDE DEF set
  <2>4. ObserverStep(CheckTarget(p, set), set) /\ Follows(CheckTarget(p, set))
    BY <2>3, CheckTargetFacts
  <2>5. QED
    BY <2>1, <2>2, <2>3, <2>4 DEF ObserverStep, SameCamera, IsObserver
<1>3. QED
  BY <1>1, <1>2

\* An observer's buttons.
LEMMA HandleButtonsFacts ==
    ASSUME NEW p \in Players, NEW r \in PlayerState, IsObserver(r),
           NEW n \in HandleButtons(p, r)
    PROVE  ObserverStep(n, r)
<1> DEFINE jumped == {r} \cup {SetMode(p, r, m) : m \in {ModeAfter(r.iuser1)} \cap AskedModes}
<1>1. ASSUME NEW s \in jumped PROVE ObserverStep(s, r)
  <2>1. CASE s = r
    BY <2>1 DEF ObserverStep, SameCamera
  <2>2. ASSUME NEW m \in AskedModes, s = SetMode(p, r, m) PROVE ObserverStep(s, r)
    <3>1. m \in Int
      BY MatchAssumption
    <3>2. QED
      BY <2>2, <3>1, SetModeFacts DEF ObserverStep
  <2>3. QED
    BY <2>1, <2>2
<1>2. PICK s \in jumped :
         \/ n = s
         \/ \E reverse \in BOOLEAN :
                n \in FindNextSpot(p, s, reverse) \cup {FindNextPlayer(p, s, reverse)}
  <2> HIDE DEF jumped
  <2>1. PICK s \in jumped :
            \/ n = s
            \/ n \in IF s.iuser1 = OBS_MAP_FREE THEN {s}
                     ELSE IF s.iuser1 = OBS_ROAMING
                     THEN UNION {FindNextSpot(p, s, reverse) : reverse \in BOOLEAN}
                     ELSE {FindNextPlayer(p, s, reverse) : reverse \in BOOLEAN}
    BY DEF HandleButtons, jumped
  <2>2. QED
    BY <2>1
<1>3. ObserverStep(s, r) /\ s \in PlayerState
  BY <1>1 DEF ObserverStep
<1> HIDE DEF jumped
<1>4. CASE n = s
  BY <1>3, <1>4
<1>5. ASSUME NEW reverse \in BOOLEAN,
             n \in FindNextSpot(p, s, reverse) \cup {FindNextPlayer(p, s, reverse)}
      PROVE  ObserverStep(n, r)
  <2>1. ObserverStep(n, s)
    BY <1>3, <1>5, FindNextSpotKeeps, FindNextPlayerFacts
  <2>2. QED
    BY <1>3, <2>1, ObserverStepTransitive
<1>6. QED
  BY <1>2, <1>4, <1>5

-----------------------------------------------------------------------------
(* What a client's command and its movement make of its player *)

\* What MatchInv says of a player who is here.
PlayerInv(r, over) ==
    /\ r.connected
    /\ Follows(r)
    /\ ObserverOut(r)
    /\ ~over => WelcomeOut(r)

\* UpdateClientData sends the target and keeps the physics on it.
LEMMA UpdateClientDataFacts ==
    ASSUME NEW r \in PlayerState
    PROVE  /\ ObserverStep(UpdateClientData(r), r)
           /\ Follows(r) => Follows(UpdateClientData(r))
<1> DEFINE n == [r EXCEPT !.hud = TRUE, !.mode = OBS_ROAMING]
<1>1. OBS_ROAMING \in OBS_NONE .. OBS_MAP_CHASE
  BY DEF OBS_ROAMING, OBS_NONE, OBS_MAP_CHASE
<1>2. /\ n \in PlayerState /\ SameCamera(n, r)
      /\ n.iuser1 = r.iuser1 /\ n.iuser2 = r.iuser2 /\ n.target = r.target
  BY <1>1 DEF PlayerState, SameCamera
<1> HIDE DEF n
<1>3. ObserverStep(n, r) /\ (Follows(r) => Follows(n))
  BY <1>2 DEF ObserverStep, IsObserver, Follows, Tracking
<1>4. UpdateClientData(r) \in {r, n}
  BY DEF UpdateClientData, n
<1>5. QED
  BY <1>3, <1>4 DEF ObserverStep, SameCamera

\* A player who keeps its part keeps what MatchInv says of it.
LEMMA PlayerInvKept ==
    ASSUME NEW r, NEW n, NEW over, PlayerInv(r, over), ObserverStep(n, r), Follows(n)
    PROVE  PlayerInv(n, over)
BY DEF PlayerInv, ObserverStep, SameCamera, ObserverOut, WelcomeOut

\* Who spawns plays.
LEMMA SpawnFacts ==
    ASSUME NEW r \in PlayerState, ~IsObserver(r), r.iuser2 = 0
    PROVE  /\ Spawn(r) \in PlayerState
           /\ Spawn(r).iuser1 = OBS_NONE
           /\ ~r.welcome => PlayerInv(Spawn(r), FALSE)
           /\ PlayerInv(Spawn(r), TRUE)
<1> DEFINE spawned == [r EXCEPT !.connected = TRUE, !.deadflag = "no", !.cam = FALSE]
           n == [spawned EXCEPT !.welcome = TRUE, !.cam = TRUE, !.deadflag = "respawnable"]
<1>1. /\ spawned \in PlayerState
      /\ spawned.connected /\ spawned.welcome = r.welcome
      /\ spawned.iuser1 = r.iuser1 /\ spawned.iuser2 = 0
  BY DEF PlayerState
<1>2. Spawn(r) \in {spawned, n}
  <2>1. Spawn(r) = IF ~r.connected /\ WelcomeCam THEN StartWelcomeCam(spawned) ELSE spawned
    BY DEF Spawn
  <2> HIDE DEF spawned
  <2>2. StartWelcomeCam(spawned) = IF spawned.welcome THEN spawned ELSE n
    BY DEF StartWelcomeCam
  <2>3. QED
    BY <2>1, <2>2
<1> HIDE DEF spawned
<1>3. /\ n \in PlayerState
      /\ n.connected /\ n.cam /\ n.deadflag = "respawnable"
      /\ n.iuser1 = r.iuser1 /\ n.iuser2 = 0
  BY <1>1 DEF PlayerState
<1> HIDE DEF n
<1>4. QED
  BY <1>1, <1>2, <1>3 DEF PlayerInv, Follows, Tracking, ObserverOut, WelcomeOut, IsObserver

\* A player who stops observing spawns, with the physics on nobody.
LEMMA StopObserverFacts ==
    ASSUME NEW r \in PlayerState, NEW over \in BOOLEAN, PlayerInv(r, over), IsObserver(r)
    PROVE  StopObserver(r) \in PlayerState /\ PlayerInv(StopObserver(r), over)
<1> DEFINE s == [r EXCEPT !.iuser1 = OBS_NONE, !.iuser2 = 0]
<1>1. s \in PlayerState /\ s.iuser1 = OBS_NONE /\ s.iuser2 = 0 /\ s.welcome = r.welcome
  <2>1. OBS_NONE \in OBS_NONE .. OBS_MAP_CHASE
    BY DEF OBS_NONE, OBS_MAP_CHASE
  <2>2. QED
    BY <2>1 DEF PlayerState
<1>2. ~r.welcome
  BY DEF PlayerInv, ObserverOut
<1>3. StopObserver(r) = Spawn(s)
  BY DEF StopObserver
<1> HIDE DEF s
<1>4. QED
  BY <1>1, <1>2, <1>3, SpawnFacts DEF IsObserver

\* A player who starts observing is out of play and follows a target.
LEMMA StartObserverFacts ==
    ASSUME NEW p \in Players, NEW r \in PlayerState, NEW over \in BOOLEAN,
           PlayerInv(r, over), ~IsObserver(r)
    PROVE  StartObserver(p, r) \in PlayerState /\ PlayerInv(StartObserver(p, r), over)
<1> DEFINE s == [r EXCEPT !.cam = TRUE, !.deadflag = "respawnable", !.welcome = FALSE]
           n == SetMode(p, s, r.mode)
<1>1. /\ s \in PlayerState
      /\ s.cam /\ s.deadflag = "respawnable" /\ ~s.welcome
      /\ s.connected = r.connected
      /\ s.iuser1 = r.iuser1 /\ s.iuser2 = r.iuser2 /\ s.target = r.target
  BY DEF PlayerState
<1>2. r.mode \in Int
  BY DEF PlayerState, OBS_NONE, OBS_MAP_CHASE
<1>3. StartObserver(p, r) = n
  BY DEF StartObserver
<1> HIDE DEF s
<1>4. Follows(s)
  BY <1>1 DEF PlayerInv, Follows, Tracking
<1>5. n \in PlayerState /\ SameCamera(n, s) /\ Follows(n)
  BY <1>1, <1>2, <1>4, SetModeFacts
<1> HIDE DEF n
<1>6. QED
  BY <1>1, <1>3, <1>5 DEF PlayerInv, SameCamera, ObserverOut, WelcomeOut

\* Every console command keeps the invariant of the player who gives it.
LEMMA CommandedFacts ==
    ASSUME NEW p \in Players, NEW r \in PlayerState, NEW over \in BOOLEAN,
           PlayerInv(r, over), NEW n \in Commanded(p, r)
    PROVE  n \in PlayerState /\ PlayerInv(n, over)
<1>0. Follows(r)
  BY DEF PlayerInv
<1>1. CASE n = Spectate(p, r)
  BY <1>1, StartObserverFacts, StopObserverFacts DEF Spectate
<1>2. CASE n = UpdateClientData(r)
  BY <1>0, <1>2, UpdateClientDataFacts, PlayerInvKept DEF ObserverStep
<1>3. ASSUME IsObserver(r), NEW m \in AskedModes, n = SetMode(p, r, m)
      PROVE  n \in PlayerState /\ PlayerInv(n, over)
  <2>1. m \in Int
    BY MatchAssumption
  <2>2. ObserverStep(n, r) /\ Follows(n)
    BY <1>0, <1>3, <2>1, SetModeFacts DEF ObserverStep
  <2>3. QED
    BY <2>2, PlayerInvKept DEF ObserverStep
<1>4. ASSUME NEW reverse \in BOOLEAN, n = FindNextPlayer(p, r, reverse)
      PROVE  n \in PlayerState /\ PlayerInv(n, over)
  BY <1>4, FindNextPlayerFacts, PlayerInvKept DEF ObserverStep
<1>5. CASE r.iuser1 = OBS_ROAMING /\ n = [r EXCEPT !.target = Spot]
  <2>1. n \in PlayerState /\ SameCamera(n, r) /\ n.iuser1 = r.iuser1 /\ n.iuser2 = r.iuser2
    BY <1>5 DEF PlayerState, SameCamera
  <2>2. ObserverStep(n, r) /\ Follows(n)
    BY <1>0, <1>5, <2>1 DEF ObserverStep, IsObserver, Follows, Tracking
  <2>3. QED
    BY <2>1, <2>2, PlayerInvKept
<1>6. QED
  BY <1>1, <1>2, <1>3, <1>4, <1>5 DEF Commanded, FindNextSpot

\* A dead player who waits to respawn keeps the invariant and is no observer.
LEMMA DeathThinkFacts ==
    ASSUME NEW r \in PlayerState, PlayerInv(r, FALSE), ~IsObserver(r), ~r.welcome,
           NEW n \in PlayerDeathThink(r)
    PROVE  n \in PlayerState /\ PlayerInv(n, FALSE) /\ n.iuser1 = OBS_NONE
<1> DEFINE Same(s) ==
        /\ s \in PlayerState
        /\ s.connected /\ ~s.welcome
        /\ s.iuser1 = r.iuser1 /\ s.iuser2 = r.iuser2 /\ s.target = r.target
<1>1. Same(r)
  BY DEF PlayerInv
<1>2. Same([r EXCEPT !.deadflag = "dead"])
  BY <1>1 DEF PlayerState
<1>3. Same([r EXCEPT !.deadflag = "respawnable"])
  BY <1>1 DEF PlayerState
<1>4. Same([r EXCEPT !.cam = TRUE])
  BY <1>1 DEF PlayerState
<1>5. PICK s : Same(s) /\ n \in {s, Spawn(s)}
  <2> HIDE DEF Same
  <2>1. QED
    BY <1>1, <1>2, <1>3, <1>4 DEF PlayerDeathThink
<1>6. r.iuser2 = 0 /\ ~IsObserver(s)
  BY <1>5 DEF PlayerInv, Follows, Tracking, IsObserver
<1>7. CASE n = s
  BY <1>5, <1>6, <1>7 DEF PlayerInv, Follows, Tracking, IsObserver, ObserverOut, WelcomeOut
<1>8. CASE n = Spawn(s)
  BY <1>5, <1>6, <1>8, SpawnFacts
<1>9. QED
  BY <1>5, <1>7, <1>8

\* An observer that has moved has a target that may be watched or tracks nobody.
LEMMA ThoughtFacts ==
    ASSUME NEW p \in Players, pl[p] \in PlayerState, PlayerInv(pl[p], FALSE),
           NEW n \in Thought(p)
    PROVE  /\ n \in PlayerState /\ PlayerInv(n, FALSE)
           /\ Tracking(n) => n.target \in Players /\ Watchable(p, n.target)
<1> DEFINE r == UpdateClientData(pl[p])
<1>1. ObserverStep(r, pl[p]) /\ PlayerInv(r, FALSE) /\ r \in PlayerState
  <2>1. Follows(pl[p])
    BY DEF PlayerInv
  <2> HIDE DEF r
  <2>2. ObserverStep(r, pl[p]) /\ Follows(r)
    BY <2>1, UpdateClientDataFacts DEF r
  <2>3. QED
    BY <2>2, PlayerInvKept DEF ObserverStep
<1>2. n \in IF IsObserver(r) THEN {CheckTarget(p, s) : s \in HandleButtons(p, r)}
            ELSE IF r.welcome THEN {r, StopWelcomeCam(r)}
            ELSE IF r.deadflag # "no" THEN PlayerDeathThink(r)
            ELSE {r}
  BY DEF Thought
<1> HIDE DEF r
<1>3. CASE IsObserver(r)
  <2>1. PICK s \in HandleButtons(p, r) : n = CheckTarget(p, s)
    BY <1>2, <1>3
  <2>2. ObserverStep(s, r) /\ s \in PlayerState
    BY <1>1, <1>3, HandleButtonsFacts DEF ObserverStep
  <2>3. /\ ObserverStep(n, s) /\ Follows(n)
        /\ Tracking(n) => n.target \in Players /\ Watchable(p, n.target)
    BY <2>1, <2>2, CheckTargetFacts
  <2>4. ObserverStep(n, r)
    BY <2>2, <2>3, ObserverStepTransitive
  <2>5. n \in PlayerState
    BY <2>4 DEF ObserverStep
  <2>6. QED
    BY <1>1, <2>3, <2>4, <2>5, PlayerInvKept
<1>4. CASE ~IsObserver(r) /\ r.welcome
  <2>1. CASE n = r
    BY <1>1, <1>4, <2>1 DEF IsObserver, Tracking
  <2>2. CASE n = StopWelcomeCam(r)
    <3> DEFINE s == [r EXCEPT !.welcome = FALSE]
    <3>1. s \in PlayerState /\ ~s.welcome /\ s.iuser1 = r.iuser1 /\ s.iuser2 = r.iuser2
      BY <1>1 DEF PlayerState
    <3>2. n = Spawn(s)
      BY <2>2 DEF StopWelcomeCam
    <3> HIDE DEF s
    <3>3. ~IsObserver(s) /\ s.iuser2 = 0
      BY <1>1, <1>4, <3>1 DEF IsObserver, PlayerInv, Follows, Tracking
    <3>4. QED
      BY <3>1, <3>2, <3>3, SpawnFacts DEF Tracking
  <2>3. QED
    BY <1>2, <1>4, <2>1, <2>2
<1>5. CASE ~IsObserver(r) /\ ~r.welcome /\ r.deadflag # "no"
  <2>1. n \in PlayerDeathThink(r)
    BY <1>2, <1>5
  <2>2. n \in PlayerState /\ PlayerInv(n, FALSE) /\ n.iuser1 = OBS_NONE
    BY <1>1, <1>5, <2>1, DeathThinkFacts
  <2>3. QED
    BY <2>2 DEF Tracking
<1>6. CASE ~IsObserver(r) /\ ~r.welcome /\ r.deadflag = "no"
  BY <1>1, <1>2, <1>6 DEF IsObserver, Tracking
<1>7. QED
  BY <1>3, <1>4, <1>5, <1>6

-----------------------------------------------------------------------------
(* The steps *)

\* A new CBasePlayer follows nobody and is not connected yet.
LEMMA NewPlayerFacts ==
    /\ NewPlayer \in PlayerState
    /\ Follows(NewPlayer)
    /\ ~NewPlayer.connected /\ ~NewPlayer.welcome
<1>1. OBS_NONE \in OBS_NONE .. OBS_MAP_CHASE
  BY DEF OBS_NONE, OBS_MAP_CHASE
<1>2. QED
  BY <1>1 DEF NewPlayer, PlayerState, Follows, Tracking

\* The empty server satisfies the invariant.
LEMMA MatchInvInit == MatchInit => MatchInv
BY NewPlayerFacts DEF MatchInit, MatchInv, MatchTypeOK, JoinsFresh, g_fGameOver

\* A step that changes one player who is here, and stays.
LEMMA OnePlayerChanges ==
    ASSUME MatchInv, NEW p \in here, NEW r \in PlayerState, PlayerInv(r, g_fGameOver),
           pl' = [pl EXCEPT ![p] = r], UNCHANGED <<here, clock>>, buttonHit' \in BOOLEAN
    PROVE  MatchInv'
<1>1. p \in Players /\ pl'[p] = r /\ \A q \in Players \ {p} : pl'[q] = pl[q]
  BY DEF MatchInv, MatchTypeOK
<1>2. MatchTypeOK'
  BY DEF MatchInv, MatchTypeOK
<1>3. \A q \in Players : Follows(pl'[q])
  BY <1>1 DEF MatchInv, PlayerInv
<1>4. \A q \in here : ObserverOut(pl'[q]) /\ (~g_fGameOver => WelcomeOut(pl'[q]))
  BY <1>1 DEF MatchInv, PlayerInv, MatchTypeOK
<1>5. g_fGameOver' = g_fGameOver
  BY DEF g_fGameOver
<1>6. JoinsFresh'
  BY <1>1, <1>5 DEF MatchInv, JoinsFresh, PlayerInv
<1>7. QED
  BY <1>2, <1>3, <1>4, <1>5, <1>6 DEF MatchInv

\* A player who enters the game keeps the invariant.
LEMMA PutInServerStep ==
    ASSUME MatchInv, NEW p \in Players, ClientPutInServer(p)
    PROVE  MatchInv'
<1> DEFINE r == [pl[p] EXCEPT !.iuser1 = OBS_NONE, !.iuser2 = 0]
<1>1. pl[p] \in PlayerState
  BY DEF MatchInv, MatchTypeOK
<1>2. r \in PlayerState /\ r.iuser1 = OBS_NONE /\ r.iuser2 = 0 /\ r.welcome = pl[p].welcome
  <2>1. OBS_NONE \in OBS_NONE .. OBS_MAP_CHASE
    BY DEF OBS_NONE, OBS_MAP_CHASE
  <2>2. QED
    BY <1>1, <2>1 DEF PlayerState
<1>3. /\ p \notin here
      /\ here' = here \cup {p}
      /\ pl' = [pl EXCEPT ![p] = Spawn(r)]
      /\ UNCHANGED <<clock, buttonHit>>
  BY DEF ClientPutInServer
<1> HIDE DEF r
<1>4. Spawn(r) \in PlayerState /\ PlayerInv(Spawn(r), g_fGameOver)
  <2>1. ~g_fGameOver => ~r.welcome
    BY <1>2, <1>3 DEF MatchInv, JoinsFresh
  <2>2. Spawn(r) \in PlayerState /\ (~r.welcome => PlayerInv(Spawn(r), FALSE))
        /\ PlayerInv(Spawn(r), TRUE)
    BY <1>2, SpawnFacts DEF IsObserver
  <2>3. QED
    BY <2>1, <2>2 DEF PlayerInv, g_fGameOver
<1>5. pl'[p] = Spawn(r) /\ \A q \in Players \ {p} : pl'[q] = pl[q]
  BY <1>3 DEF MatchInv, MatchTypeOK
<1>6. MatchTypeOK'
  BY <1>3, <1>4 DEF MatchInv, MatchTypeOK
<1>7. \A q \in Players : Follows(pl'[q])
  BY <1>4, <1>5 DEF MatchInv, PlayerInv
<1>8. g_fGameOver' = g_fGameOver
  BY <1>3 DEF g_fGameOver
<1>9. \A q \in here' : ObserverOut(pl'[q]) /\ (~g_fGameOver => WelcomeOut(pl'[q]))
  BY <1>3, <1>4, <1>5 DEF MatchInv, PlayerInv, MatchTypeOK
<1>10. JoinsFresh'
  BY <1>3, <1>4, <1>5, <1>8 DEF MatchInv, JoinsFresh, PlayerInv
<1>11. QED
  BY <1>6, <1>7, <1>8, <1>9, <1>10 DEF MatchInv

\* A player who leaves is watched by nobody any more.
LEMMA DisconnectStep ==
    ASSUME MatchInv, NEW p \in Players, ClientDisconnect(p)
    PROVE  MatchInv'
<1>1. CASE g_fGameOver
  <2>1. here' \subseteq here /\ UNCHANGED <<pl, clock, buttonHit>>
    BY <1>1 DEF ClientDisconnect
  <2>2. g_fGameOver'
    BY <1>1, <2>1 DEF g_fGameOver
  <2>3. QED
    BY <1>1, <2>1, <2>2 DEF MatchInv, MatchTypeOK, JoinsFresh
<1>2. CASE ~g_fGameOver
  <2> DEFINE r == Left(pl[p])
  <2>1. r \in PlayerState /\ ~r.connected /\ ~r.welcome /\ Follows(r)
    <3>1. pl[p] \in PlayerState
      BY DEF MatchInv, MatchTypeOK
    <3>2. /\ r \in PlayerState /\ ~r.connected /\ ~r.welcome
          /\ r.iuser1 = OBS_NONE /\ r.iuser2 = 0
      <4>1. OBS_NONE \in OBS_NONE .. OBS_MAP_CHASE
        BY DEF OBS_NONE, OBS_MAP_CHASE
      <4>2. QED
        BY <3>1, <4>1 DEF Left, NewPlayer, PlayerState
    <3>3. QED
      BY <3>2 DEF Follows, Tracking
  <2>2. /\ here' = here \ {p}
        /\ pl' = [pl EXCEPT ![p] = r]
        /\ UNCHANGED <<clock, buttonHit>>
    BY <1>2 DEF ClientDisconnect
  <2> HIDE DEF r
  <2>3. pl'[p] = r /\ \A q \in Players \ {p} : pl'[q] = pl[q]
    BY <2>2 DEF MatchInv, MatchTypeOK
  <2>4. ~g_fGameOver'
    BY <1>2, <2>2 DEF g_fGameOver
  <2>5. MatchTypeOK'
    BY <2>1, <2>2 DEF MatchInv, MatchTypeOK
  <2>6. JoinsFresh'
    BY <1>2, <2>1, <2>2, <2>3, <2>4 DEF MatchInv, JoinsFresh
  <2>7. QED
    BY <1>2, <2>1, <2>2, <2>3, <2>4, <2>5, <2>6 DEF MatchInv, MatchTypeOK
<1>3. QED
  BY <1>1, <1>2

\* Killing a player, by whatever he is killed, keeps the invariant.
LEMMA KilledStep ==
    ASSUME MatchInv, NEW p \in Players, Killed(p)
    PROVE  MatchInv'
<1> DEFINE r == [pl[p] EXCEPT !.deadflag = "dying"]
<1>1. pl[p] \in PlayerState /\ Follows(pl[p])
  BY DEF MatchInv, MatchTypeOK
<1>2. /\ r \in PlayerState
      /\ r.connected = pl[p].connected /\ r.welcome = pl[p].welcome
      /\ r.iuser1 = pl[p].iuser1 /\ r.iuser2 = pl[p].iuser2 /\ r.target = pl[p].target
  BY <1>1 DEF PlayerState
<1>3. pl' = [pl EXCEPT ![p] = r] /\ UNCHANGED <<here, clock, buttonHit>>
  BY DEF Killed
<1> HIDE DEF r
<1>4. pl'[p] = r /\ \A q \in Players \ {p} : pl'[q] = pl[q]
  BY <1>3 DEF MatchInv, MatchTypeOK
<1>5. Follows(r)
  BY <1>1, <1>2 DEF Follows, Tracking
<1>6. p \in here => ObserverOut(r) /\ (~g_fGameOver => WelcomeOut(r))
  BY <1>2 DEF MatchInv, Killed, ObserverOut, WelcomeOut, IsObserver
<1>7. g_fGameOver' = g_fGameOver
  BY <1>3 DEF g_fGameOver
<1>8. MatchTypeOK' /\ JoinsFresh'
  BY <1>2, <1>3, <1>4, <1>7 DEF MatchInv, MatchTypeOK, JoinsFresh
<1>9. QED
  BY <1>3, <1>4, <1>5, <1>6, <1>7, <1>8 DEF MatchInv, MatchTypeOK

\* Every step of the match keeps the invariant.
LEMMA MatchInvStep == MatchInv /\ [MatchNext]_matchVars => MatchInv'
<1> SUFFICES ASSUME MatchInv, [MatchNext]_matchVars PROVE MatchInv'
  OBVIOUS
<1>0. \A p \in here : /\ p \in Players /\ pl[p] \in PlayerState
                      /\ PlayerInv(pl[p], g_fGameOver)
  BY DEF MatchInv, MatchTypeOK, JoinsFresh, PlayerInv
<1>1. ASSUME NEW p \in Players, ClientCommand(p) PROVE MatchInv'
  <2>1. PICK n \in Commanded(p, pl[p]) : pl' = [pl EXCEPT ![p] = n]
    BY <1>1 DEF ClientCommand
  <2>2. p \in here /\ UNCHANGED <<here, clock, buttonHit>>
    BY <1>1 DEF ClientCommand
  <2>3. n \in PlayerState /\ PlayerInv(n, g_fGameOver)
    BY <1>0, <2>2, CommandedFacts DEF g_fGameOver
  <2>4. QED
    BY <2>1, <2>2, <2>3, OnePlayerChanges DEF MatchInv, MatchTypeOK
<1>2. ASSUME NEW p \in Players, PreThink(p) PROVE MatchInv'
  <2>1. p \in here /\ UNCHANGED <<here, clock>>
    BY <1>2 DEF PreThink
  <2>2. CASE g_fGameOver
    <3>1. buttonHit' \in BOOLEAN /\ UNCHANGED pl /\ g_fGameOver'
      BY <1>2, <2>1, <2>2 DEF PreThink, MatchInv, MatchTypeOK, g_fGameOver
    <3>2. QED
      BY <2>1, <2>2, <3>1 DEF MatchInv, MatchTypeOK, JoinsFresh
  <2>3. CASE ~g_fGameOver
    <3>1. PICK n \in Thought(p) : pl' = [pl EXCEPT ![p] = n] /\ UNCHANGED buttonHit
      BY <1>2, <2>3 DEF PreThink
    <3>2. n \in PlayerState /\ PlayerInv(n, g_fGameOver)
      <4>1. PlayerInv(pl[p], FALSE)
        BY <1>0, <2>1, <2>3 DEF PlayerInv
      <4>2. n \in PlayerState /\ PlayerInv(n, FALSE)
        BY <1>0, <2>1, <4>1, ThoughtFacts
      <4>3. QED
        BY <2>3, <4>2 DEF PlayerInv
    <3>3. QED
      BY <2>1, <3>1, <3>2, OnePlayerChanges DEF MatchInv, MatchTypeOK
  <2>4. QED
    BY <2>2, <2>3
<1>3. CASE GoToIntermission
  BY <1>3 DEF GoToIntermission, MatchInv, MatchTypeOK, JoinsFresh, g_fGameOver
<1>4. CASE Tick
  BY <1>4 DEF Tick, MatchInv, MatchTypeOK, JoinsFresh, g_fGameOver
<1>5. CASE ChangeLevel
  BY <1>5, NewPlayerFacts DEF ChangeLevel, MatchInv, MatchTypeOK, JoinsFresh, g_fGameOver
<1>6. CASE UNCHANGED matchVars
  BY <1>6 DEF matchVars, MatchInv, MatchTypeOK, JoinsFresh, g_fGameOver
<1>7. QED
  BY <1>1, <1>2, <1>3, <1>4, <1>5, <1>6, PutInServerStep, DisconnectStep, KilledStep
     DEF MatchNext

\* Whatever the players, their commands and the game do, the invariant holds.
THEOREM MatchInvariant == MatchSpec => []MatchInv
BY MatchInvInit, MatchInvStep, PTL DEF MatchSpec

-----------------------------------------------------------------------------
\* The state of a match is always of its types.
THEOREM MatchTypeCorrect == MatchSpec => []MatchTypeOK
<1>1. MatchInv => MatchTypeOK
  BY DEF MatchInv
<1>2. QED
  BY <1>1, MatchInvariant, PTL

\* iuser2 is the target of who tracks a player, after every step of every client.
THEOREM PhysicsAlwaysFollows == MatchSpec => []PhysicsFollowsTarget
<1>1. MatchInv => PhysicsFollowsTarget
  BY DEF MatchInv, PhysicsFollowsTarget, Follows
<1>2. QED
  BY <1>1, MatchInvariant, PTL

\* Observers, and who waits in the welcome camera, are out of the game.
THEOREM SpectatorsStayOut == MatchSpec => []SpectatorsOutOfPlay
<1>1. MatchInv => SpectatorsOutOfPlay
  BY DEF MatchInv, SpectatorsOutOfPlay, ObserverOut, WelcomeOut
<1>2. QED
  BY <1>1, MatchInvariant, PTL

\* A frame of an observer ends with a target that may be watched.
THEOREM TrackedPlayersPlay == MatchSpec => ObserverTracksPlayer
<1> DEFINE Tracks == \A p \in Players : PreThink(p) /\ ~g_fGameOver /\ Tracking(pl[p])' =>
          \E q \in Players \ {p} : /\ (pl[p].target)' = q
                                   /\ pl[q].connected /\ ~IsObserver(pl[q])
<1>1. MatchInv /\ [MatchNext]_matchVars => [Tracks]_matchVars
  <2> SUFFICES ASSUME MatchInv, NEW p \in Players,
                      PreThink(p), ~g_fGameOver, Tracking(pl'[p])
               PROVE  \E q \in Players \ {p} : /\ pl'[p].target = q
                                               /\ pl[q].connected /\ ~IsObserver(pl[q])
    BY DEF Tracking
  <2>1. PICK n \in Thought(p) : pl' = [pl EXCEPT ![p] = n]
    BY DEF PreThink
  <2>2. p \in here /\ pl[p] \in PlayerState /\ PlayerInv(pl[p], FALSE)
    BY DEF PreThink, MatchInv, MatchTypeOK, JoinsFresh, PlayerInv
  <2>3. Tracking(n) => n.target \in Players /\ Watchable(p, n.target)
    BY <2>2, ThoughtFacts
  <2>4. pl'[p] = n
    BY <2>1 DEF MatchInv, MatchTypeOK
  <2>5. QED
    BY <2>3, <2>4 DEF Watchable
<1>2. QED
  BY <1>1, MatchInvariant, PTL DEF MatchSpec, ObserverTracksPlayer
=============================================================================
