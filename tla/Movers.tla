-------------------------------- MODULE Movers ------------------------------
(***************************************************************************)
(* Sliding doors and the buttons that open them (src/game/server/doors.cpp,*)
(* buttons.cpp, and LinearMove and FireTargets of subs.cpp).  A mover has  *)
(* one think function: the end of its movement, its return and a door's    *)
(* last sound all take the same place.  A movement to where the mover is   *)
(* already ends before the call that starts it returns; an origin off its  *)
(* place by a rounding error counts as there.                              *)
(*                                                                         *)
(* One targetname is modelled, that of the doors in Team; a door without   *)
(* it opens by touch or use.  Whatever else bears a name may be fired and  *)
(* may fire Team at any time (FireTargets).  Doors do not fire buttons.    *)
(* Whether a master lets a mover through is a choice of every step.        *)
(***************************************************************************)
EXTENDS Naturals, FiniteSets, FiniteSetsExt

CONSTANTS
    Doors, Buttons,
    Team,           \* the doors with the targetname
    Firing,         \* movers whose target is Team
    CloseFiring,    \* doors whose close target (netname) is Team
    Toggle,         \* SF_DOOR_NO_AUTO_RETURN, SF_BUTTON_TOGGLE
    NeverReturn,    \* wait -1
    StartOpen,      \* SF_DOOR_START_OPEN
    Touchable,      \* doors without SF_DOOR_USE_ONLY, SF_BUTTON_TOUCH_ONLY
    DontMove,       \* buttons whose two positions are one
    Shootable,      \* buttons with health
    Mastered,       \* movers with a master
    Parallel,       \* whether the doors of Team move by the same vector
    MaxBlocked      \* bound: how often something is in the way

Movers == Doors \cup Buttons

ASSUME MoversAssumption ==
    /\ Movers \subseteq Nat /\ IsFiniteSet(Movers) /\ Doors \cap Buttons = {}
    /\ Team \cup CloseFiring \cup StartOpen \subseteq Doors
    /\ DontMove \cup Shootable \subseteq Buttons
    /\ Firing \cup Toggle \cup NeverReturn \cup Touchable \cup Mastered \subseteq Movers
    /\ Parallel \in BOOLEAN
    /\ MaxBlocked \in Nat

VARIABLES
    ms,         \* the movers: m_toggle_state, origin, touch and think functions
    blocked     \* how often Blocked was called

moversVars == <<ms, blocked>>

MoversInit ==
    /\ ms = [e \in Movers |-> [ts |-> "AT_BOTTOM", pos |-> "bottom",
                               touch |-> e \in Touchable, think |-> "none"]]
    /\ blocked = 0

Moving(r) == r.ts \in {"GOING_UP", "GOING_DOWN"}

\* Which movers UTIL_IsMasterTriggered holds back in this step.  A mover without
\* a master always passes; what the masters of the others answer is a choice,
\* since their own state is not modelled.
LockedSets == SUBSET Mastered
-----------------------------------------------------------------------------
(* What the calls make of the movers s.  L are the movers held back. *)

\* Use of a door in Team: only a door at rest, and not one that will return,
\* starts.  A door at rest is not where it goes to.
Fire(s, L) ==
    [e \in Movers |->
        IF e \in Team \ L /\ s[e].ts = "AT_BOTTOM"
        THEN [s[e] EXCEPT !.ts = "GOING_UP", !.think = "moveDone"]
        ELSE IF e \in (Team \cap Toggle) \ L /\ s[e].ts = "AT_TOP"
        THEN [s[e] EXCEPT !.ts = "GOING_DOWN", !.think = "moveDone"]
        ELSE s[e]]

\* SUB_UseTargets and the close target.
FireIf(fires, s, L) == IF fires THEN Fire(s, L) ELSE s

\* Mutant: the way back is not scheduled.
DoorHitTop_NoThink(d, s, L) ==
    LET top == [s EXCEPT ![d].ts = "AT_TOP", ![d].pos = "top",
                         ![d].touch = IF d \in Toggle \cap Touchable THEN TRUE ELSE @,
                         ![d].think = "none"]
    IN  FireIf(d \in Firing, FireIf(d \in CloseFiring \cap StartOpen, top, L), L)

DoorHitTop(d, s, L) ==
    LET top == [s EXCEPT ![d].ts = "AT_TOP", ![d].pos = "top",
                         ![d].touch = IF d \in Toggle \cap Touchable THEN TRUE ELSE @,
                         ![d].think = IF d \in Toggle \cup NeverReturn THEN "none"
                                      ELSE "goDown"]
    IN  FireIf(d \in Firing, FireIf(d \in CloseFiring \cap StartOpen, top, L), L)

\* Mutant: the touch function is not set again.
DoorHitBottom_NoTouch(d, s, L) ==
    LET bottom == [s EXCEPT ![d].ts = "AT_BOTTOM", ![d].pos = "bottom",
                            ![d].think = "hitBottom"]
    IN  FireIf(d \in CloseFiring \ StartOpen, FireIf(d \in Firing, bottom, L), L)

\* It thinks once more, to stop the sound.
DoorHitBottom(d, s, L) ==
    LET bottom == [s EXCEPT ![d].ts = "AT_BOTTOM", ![d].pos = "bottom",
                            ![d].touch = d \in Touchable, ![d].think = "hitBottom"]
    IN  FireIf(d \in CloseFiring \ StartOpen, FireIf(d \in Firing, bottom, L), L)

DoorGoUp(d, s, L) ==
    IF s[d].pos = "top" THEN DoorHitTop(d, s, L)
    ELSE [s EXCEPT ![d].ts = "GOING_UP", ![d].think = "moveDone"]

\* Mutant: a door that is there already only changes its state.
DoorGoDown_NoArrival(d, s, L) ==
    [s EXCEPT ![d].ts = "GOING_DOWN",
              ![d].think = IF s[d].pos = "bottom" THEN "none" ELSE "moveDone"]

DoorGoDown(d, s, L) ==
    IF s[d].pos = "bottom" THEN DoorHitBottom(d, s, L)
    ELSE [s EXCEPT ![d].ts = "GOING_DOWN", ![d].think = "moveDone"]

DoorActivate(d, s, L) ==
    IF d \in L THEN s
    ELSE IF d \in Toggle /\ s[d].ts = "AT_TOP" THEN DoorGoDown(d, s, L)
    ELSE DoorGoUp(d, s, L)

Reversed(d, s, L) ==
    IF s[d].ts = "GOING_DOWN" THEN DoorGoUp(d, s, L) ELSE DoorGoDown(d, s, L)

\* Where a door's origin at pos is, and the reverse: one that starts open is at
\* its bottom where others are at their top.
Displaced(d, pos) ==
    IF d \notin StartOpen \/ pos = "between" THEN pos
    ELSE IF pos = "top" THEN "bottom" ELSE "top"

\* A piece q at rest beside a door d at rest gets its origin: the positions of
\* two doors of one level are the same, their movements only if Parallel.
Realigned(q, d, s) ==
    LET at == Displaced(d, s[d].pos)
    IN  IF Moving(s[d]) \/ Moving(s[q]) THEN s
        ELSE [s EXCEPT ![q].pos = IF at = "top" /\ ~Parallel THEN "between"
                                  ELSE Displaced(q, at)]

\* Mutant: the pieces' wait is not looked at.
Pieces_AnyWait(d) == IF d \in Team THEN Team \ {d} ELSE {}

\* The other doors that Blocked reverses.
Pieces(d) == IF d \in Team THEN (Team \ NeverReturn) \ {d} ELSE {}

\* What becomes of the door q when d is blocked.
PieceReversed(q, d, s, L) ==
    IF q \in Pieces(d) THEN Reversed(q, Realigned(q, d, s), L) ELSE s

\* The pieces are reversed one after the other: after[q] are the movers when all
\* the pieces below q are.
BlockedDoors(d, s, L) ==
    LET after[q \in Nat] ==
            IF q = 0 THEN IF d \in NeverReturn THEN s ELSE Reversed(d, s, L)
            ELSE PieceReversed(q - 1, d, after[q - 1], L)
    IN  after[Max(Movers) + 1]
-----------------------------------------------------------------------------
(* Buttons *)

\* When the master has closed meanwhile, the button stays where it is.
TriggerAndWait(b, s, L) ==
    LET waits == b \in NeverReturn \cup Toggle
        top == [s EXCEPT ![b].ts = "AT_TOP", ![b].pos = "top",
                         ![b].touch = IF waits THEN b \in Touchable ELSE @,
                         ![b].think = IF waits THEN "none" ELSE "return"]
    IN  IF b \in L THEN [s EXCEPT ![b].pos = "top", ![b].think = "none"]
        ELSE FireIf(b \in Firing, top, L)

ButtonBackHome(b, s, L) ==
    LET home == [s EXCEPT ![b].ts = "AT_BOTTOM", ![b].pos = "bottom",
                          ![b].touch = b \in Touchable, ![b].think = "none"]
    IN  FireIf(b \in Firing \cap Toggle, home, L)

ButtonActivate(b, s, L) ==
    IF b \in L THEN s
    ELSE IF b \in DontMove THEN TriggerAndWait(b, s, L)
    ELSE [s EXCEPT ![b].ts = "GOING_UP", ![b].think = "moveDone"]

ButtonReturn(b, s, L) ==
    IF b \in DontMove THEN ButtonBackHome(b, s, L)
    ELSE [s EXCEPT ![b].ts = "GOING_DOWN", ![b].think = "moveDone"]

\* ButtonResponseToTouch: BUTTON_ACTIVATE or BUTTON_RETURN.
Activates(b) == ms[b].ts = "AT_BOTTOM"
Returns(b) == ms[b].ts = "AT_TOP" /\ b \in Toggle \ NeverReturn
-----------------------------------------------------------------------------
(* The calls of the engine and of other entities *)

\* A player touches a door that nothing targets.
DoorTouch(d) ==
    /\ d \in Doors \ Team
    /\ ms[d].touch
    /\ \E L \in LockedSets :
           /\ d \notin L
           /\ ms' = [DoorActivate(d, ms, L) EXCEPT ![d].touch = FALSE]
    /\ UNCHANGED blocked

\* A player uses a door without touch function.
DoorUse(d) ==
    /\ d \in Doors \ Touchable
    /\ ms[d].ts = "AT_BOTTOM" \/ (d \in Toggle /\ ms[d].ts = "AT_TOP")
    /\ \E L \in LockedSets : ms' = DoorActivate(d, ms, L)
    /\ UNCHANGED blocked

\* Anything fires Team: a trigger, or a delayed target.
FireTargets ==
    /\ \E L \in LockedSets : ms' = Fire(ms, L)
    /\ UNCHANGED blocked

ButtonUse(b) ==
    /\ b \in Buttons \ Touchable
    /\ \E L \in LockedSets :
           \/ Activates(b) /\ ms' = ButtonActivate(b, ms, L)
           \/ Returns(b) /\ ms' = ButtonReturn(b, ms, L)
    /\ UNCHANGED blocked

\* On the way back a touched button fires, too.
ButtonTouch(b) ==
    /\ b \in Buttons
    /\ ms[b].touch
    /\ \E L \in LockedSets :
           LET untouched == [ms EXCEPT ![b].touch = FALSE]
           IN  /\ b \notin L
               /\ \/ Activates(b) /\ ms' = ButtonActivate(b, untouched, L)
                  \/ /\ Returns(b)
                     /\ ms' = ButtonReturn(b, FireIf(b \in Firing, untouched, L), L)
    /\ UNCHANGED blocked

\* Without an attacker, or with the master closed, nothing but the touch
\* function changes.
TakeDamage(b) ==
    /\ b \in Shootable
    /\ \E L \in LockedSets :
           LET untouched == [ms EXCEPT ![b].touch = FALSE]
           IN  \/ Activates(b) /\ ms' \in {untouched, ButtonActivate(b, untouched, L)}
               \/ Returns(b) /\ ms' \in {untouched, ButtonReturn(b, untouched, L)}
    /\ UNCHANGED blocked

Move(e) ==
    /\ Moving(ms[e]) /\ ms[e].think = "moveDone"
    /\ ms' = [ms EXCEPT ![e].pos = "between"]
    /\ UNCHANGED blocked

\* LinearMoveDone at the destination, for the function that SetMoveDone stored.
MoveDone(e) ==
    /\ ms[e].think = "moveDone"
    /\ \E L \in LockedSets :
           ms' = IF ms[e].ts = "GOING_UP"
                 THEN IF e \in Doors THEN DoorHitTop(e, ms, L) ELSE TriggerAndWait(e, ms, L)
                 ELSE IF e \in Doors THEN DoorHitBottom(e, ms, L) ELSE ButtonBackHome(e, ms, L)
    /\ UNCHANGED blocked

\* The wait is over, or a door's last sound.
Think(e) ==
    /\ \E L \in LockedSets :
           \/ ms[e].think = "goDown" /\ ms' = DoorGoDown(e, ms, L)
           \/ ms[e].think = "return" /\ ms' = ButtonReturn(e, ms, L)
           \/ ms[e].think = "hitBottom" /\ ms' = [ms EXCEPT ![e].think = "none"]
    /\ UNCHANGED blocked

\* Something is in the way of a door; a button waits.
Blocked(d) ==
    /\ d \in Doors
    /\ Moving(ms[d])
    /\ blocked < MaxBlocked
    /\ blocked' = blocked + 1
    /\ \E L \in LockedSets : ms' = BlockedDoors(d, ms, L)

MoversNext ==
    \/ FireTargets
    \/ \E d \in Doors : DoorTouch(d) \/ DoorUse(d) \/ Blocked(d)
    \/ \E b \in Buttons : ButtonUse(b) \/ ButtonTouch(b) \/ TakeDamage(b)
    \/ \E e \in Movers : Move(e) \/ MoveDone(e) \/ Think(e)

\* The engine runs the think of every pusher when its time has come.
MoversSpec ==
    /\ MoversInit /\ [][MoversNext]_moversVars
    /\ \A e \in Movers : WF_moversVars(MoveDone(e)) /\ WF_moversVars(Think(e))
-----------------------------------------------------------------------------
\* The mover's one think function, its place and its state agree, whoever set
\* them last: it rests at the end its state names, where its return is due if
\* it has one, and what moves will arrive.  Only a button whose master closed on
\* the way (TriggerAndWait) is left behind, for ever.
MoversConsistent ==
    \A e \in Movers :
        LET r == ms[e]
        IN  /\ r.touch \in BOOLEAN
            /\ r.ts = "AT_BOTTOM" => /\ r.pos = "bottom"
                                     /\ r.think \in {"none", "hitBottom"}
            /\ r.ts = "AT_TOP" =>
                   /\ r.pos = "top"
                   /\ r.think = IF e \in NeverReturn \cup Toggle THEN "none"
                                ELSE IF e \in Doors THEN "goDown" ELSE "return"
            /\ Moving(r) => \/ r.think = "moveDone"
                            \/ e \in Buttons \cap Mastered /\ r.ts = "GOING_UP" /\ r.pos = "top"

\* A mover that opens by touch can be touched exactly while it rests and does
\* not return by itself, however it came there: a door that moves would be sent
\* up again from where it goes (ASSERT of doors.cpp:597), one that rests without
\* a touch function could not be opened any more.  A shot may take it away.
TouchMatchesRest ==
    \A e \in Movers \ (Team \cup Shootable) :
        ms[e].touch <=>
            /\ e \in Touchable
            /\ \/ ms[e].ts = "AT_BOTTOM"
               \/ ms[e].ts = "AT_TOP" /\ e \in Toggle
               \/ ms[e].ts = "AT_TOP" /\ e \in Buttons \cap NeverReturn

\* A door with wait -1 that is no toggle never leaves its open end, whatever
\* happens to the pieces it is linked to ("-1 = never return", doors.cpp:256).
OpenStaysOpen ==
    [][\A d \in (Doors \cap NeverReturn) \ Toggle :
          ms[d].ts = "AT_TOP" => (ms[d].ts)' = "AT_TOP"]_moversVars

\* An open door that returns is closed again in the end, once nothing is in its
\* way any more, unless it fires itself.
DoorsReturn ==
    \A d \in Doors \ (NeverReturn \cup Toggle \cup (Team \cap (Firing \cup CloseFiring))) :
        ms[d].ts = "AT_TOP" ~> ms[d].ts = "AT_BOTTOM"
=============================================================================
