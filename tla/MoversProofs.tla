----------------------------- MODULE MoversProofs ---------------------------
(***************************************************************************)
(* What holds of any doors and buttons, however they are linked.           *)
(***************************************************************************)
EXTENDS Movers, NatLemmas, TLAPS

MoverState ==
    [ts : {"AT_BOTTOM", "GOING_UP", "AT_TOP", "GOING_DOWN"},
     pos : {"bottom", "between", "top"},
     touch : BOOLEAN,
     think : {"none", "moveDone", "goDown", "return", "hitBottom"}]

MoverStates == [Movers -> MoverState]

\* MoversConsistent of one mover; a button left behind does not think again.
Consistent(e, r) ==
    /\ r.ts = "AT_BOTTOM" => r.pos = "bottom" /\ r.think \in {"none", "hitBottom"}
    /\ r.ts = "AT_TOP" =>
           /\ r.pos = "top"
           /\ r.think = IF e \in NeverReturn \cup Toggle THEN "none"
                        ELSE IF e \in Doors THEN "goDown" ELSE "return"
    /\ Moving(r) => \/ r.think = "moveDone"
                    \/ /\ e \in Buttons \cap Mastered /\ r.ts = "GOING_UP"
                       /\ r.pos = "top" /\ r.think = "none"

\* TouchMatchesRest of one mover.
TouchMatches(e, r) ==
    r.touch <=> /\ e \in Touchable
                /\ \/ r.ts = "AT_BOTTOM"
                   \/ r.ts = "AT_TOP" /\ e \in Toggle
                   \/ r.ts = "AT_TOP" /\ e \in Buttons \cap NeverReturn

Sound(e, r) == Consistent(e, r) /\ (e \notin Team \cup Shootable => TouchMatches(e, r))

\* The states in which every mover is sound, and those in which all but e are.
SoundStates == {s \in MoverStates : \A e \in Movers : Sound(e, s[e])}
SoundBut(e) == {s \in MoverStates : \A f \in Movers \ {e} : Sound(f, s[f])}

\* Where a mover cannot be touched, as far as that is promised.
Untouchable(e, s) == e \notin Team \cup Shootable => ~s[e].touch

\* The open doors that never return.
Opened(s) == {d \in (Doors \cap NeverReturn) \ Toggle : s[d].ts = "AT_TOP"}

MoversInv == ms \in SoundStates /\ blocked \in Nat

-----------------------------------------------------------------------------
(* Changing one mover, and firing the team *)

\* A step that makes the mover e sound and leaves the others alone.
LEMMA OneMover ==
    ASSUME NEW e \in Movers, NEW s \in SoundBut(e), NEW t \in MoverStates,
           \A f \in Movers \ {e} : t[f] = s[f], Sound(e, t[e])
    PROVE  t \in SoundStates /\ Opened(s) \ {e} \subseteq Opened(t)
BY MoversAssumption DEF SoundStates, SoundBut, Opened, Movers

\* A door of the team that is fired at rest starts, unless it will return by
\* itself; nothing else changes.
LEMMA FireBut ==
    ASSUME NEW e, NEW s \in SoundBut(e), NEW L
    PROVE  /\ Fire(s, L) \in SoundBut(e)
           /\ \A f \in Movers \ Team : Fire(s, L)[f] = s[f]
           /\ Opened(s) \subseteq Opened(Fire(s, L))
<1> DEFINE t == Fire(s, L)
<1>1. s \in MoverStates /\ \A f \in Movers \ {e} : Sound(f, s[f])
  BY DEF SoundBut
<1>2. ASSUME NEW f \in Movers
      PROVE  /\ t[f] \in MoverState
             /\ f # e => Sound(f, t[f])
             /\ f \notin Team => t[f] = s[f]
             /\ f \notin Toggle /\ s[f].ts = "AT_TOP" => t[f].ts = "AT_TOP"
  <2>1. s[f] \in MoverState /\ (f # e => Sound(f, s[f]))
    BY <1>1 DEF MoverStates
  <2>2. CASE t[f] = s[f]
    BY <2>1, <2>2
  <2>3. CASE /\ f \in Team /\ t[f] = [s[f] EXCEPT !.ts = "GOING_UP", !.think = "moveDone"]
             /\ s[f].ts = "AT_BOTTOM"
    <3>1. t[f] \in MoverState /\ t[f].ts = "GOING_UP" /\ t[f].think = "moveDone"
      BY <2>1, <2>3 DEF MoverState
    <3>2. QED
      BY <2>3, <3>1 DEF Sound, Consistent, Moving
  <2>4. CASE /\ f \in Team /\ t[f] = [s[f] EXCEPT !.ts = "GOING_DOWN", !.think = "moveDone"]
             /\ f \in Toggle
    <3>1. t[f] \in MoverState /\ t[f].ts = "GOING_DOWN" /\ t[f].think = "moveDone"
      BY <2>1, <2>4 DEF MoverState
    <3>2. QED
      BY <2>4, <3>1 DEF Sound, Consistent, Moving
  <2>5. QED
    BY <2>2, <2>3, <2>4 DEF Fire
<1>3. t \in MoverStates
  <2>1. t = [f \in Movers |-> t[f]]
    BY DEF Fire
  <2> HIDE DEF t
  <2>2. QED
    BY <1>2, <2>1 DEF MoverStates
<1>4. Opened(s) \subseteq Opened(t)
  <2> HIDE DEF t
  <2>1. QED
    BY <1>2 DEF Opened, Movers
<1> HIDE DEF t
<1>5. QED
  BY <1>2, <1>3, <1>4 DEF SoundBut, t

\* Firing a target leaves every mover sound and closes no open door.
LEMMA FireFacts ==
    ASSUME NEW s \in SoundStates, NEW L
    PROVE  Fire(s, L) \in SoundStates /\ Opened(s) \subseteq Opened(Fire(s, L))
<1>1. -1 \notin Movers
  BY MoversAssumption
<1>2. SoundBut(-1) = SoundStates
  BY <1>1 DEF SoundBut, SoundStates
<1>3. s \in SoundBut(-1)
  BY <1>2
<1>4. QED
  BY <1>2, <1>3, FireBut

\* The same when the target is fired on a condition,
LEMMA FireIfFacts ==
    ASSUME NEW s \in SoundStates, NEW L, NEW fires \in BOOLEAN
    PROVE  FireIf(fires, s, L) \in SoundStates /\ Opened(s) \subseteq Opened(FireIf(fires, s, L))
BY FireFacts DEF FireIf

\* and when it is fired twice in a row.
LEMMA FireTwice ==
    ASSUME NEW s \in SoundStates, NEW L, NEW first \in BOOLEAN, NEW second \in BOOLEAN
    PROVE  /\ FireIf(second, FireIf(first, s, L), L) \in SoundStates
           /\ Opened(s) \subseteq Opened(FireIf(second, FireIf(first, s, L), L))
<1> DEFINE t == FireIf(first, s, L)
<1>1. t \in SoundStates /\ Opened(s) \subseteq Opened(t)
  BY FireIfFacts
<1> HIDE DEF t
<1>2. FireIf(second, t, L) \in SoundStates /\ Opened(t) \subseteq Opened(FireIf(second, t, L))
  BY <1>1, FireIfFacts
<1>3. QED
  BY <1>1, <1>2 DEF t

-----------------------------------------------------------------------------
(* Doors *)

\* A door arrives at its top.
LEMMA DoorHitTopFacts ==
    ASSUME NEW d \in Doors, NEW s \in SoundBut(d), NEW L, Untouchable(d, s)
    PROVE  /\ DoorHitTop(d, s, L) \in SoundStates
           /\ Opened(s) \ {d} \subseteq Opened(DoorHitTop(d, s, L))
<1> DEFINE top == [s EXCEPT ![d].ts = "AT_TOP", ![d].pos = "top",
                         ![d].touch = IF d \in Toggle \cap Touchable THEN TRUE ELSE @,
                         ![d].think = IF d \in Toggle \cup NeverReturn THEN "none"
                                      ELSE "goDown"]
<1>1. d \in Movers /\ d \notin Buttons /\ s \in MoverStates /\ s[d] \in MoverState
  BY MoversAssumption DEF Movers, SoundBut, MoverStates
<1>2. /\ top \in MoverStates
      /\ \A f \in Movers \ {d} : top[f] = s[f]
      /\ top[d].ts = "AT_TOP" /\ top[d].pos = "top"
      /\ top[d].touch = IF d \in Toggle \cap Touchable THEN TRUE ELSE s[d].touch
      /\ top[d].think = IF d \in Toggle \cup NeverReturn THEN "none" ELSE "goDown"
  BY <1>1 DEF MoverStates, MoverState
<1>3. DoorHitTop(d, s, L)
      = FireIf(d \in Firing, FireIf(d \in CloseFiring \cap StartOpen, top, L), L)
  BY DEF DoorHitTop
<1> HIDE DEF top
<1>4. Sound(d, top[d])
  BY <1>1, <1>2 DEF Sound, Consistent, TouchMatches, Moving, Untouchable
<1>5. top \in SoundStates /\ Opened(s) \ {d} \subseteq Opened(top)
  BY <1>1, <1>2, <1>4, OneMover
<1> DEFINE first == d \in CloseFiring \cap StartOpen
           second == d \in Firing
<1>6. first \in BOOLEAN /\ second \in BOOLEAN
  OBVIOUS
<1>7. DoorHitTop(d, s, L) = FireIf(second, FireIf(first, top, L), L)
  BY <1>3
<1> HIDE DEF first, second
<1>8. QED
  BY <1>5, <1>6, <1>7, FireTwice

\* A door arrives at its bottom.
LEMMA DoorHitBottomFacts ==
    ASSUME NEW d \in Doors, NEW s \in SoundBut(d), NEW L
    PROVE  /\ DoorHitBottom(d, s, L) \in SoundStates
           /\ Opened(s) \ {d} \subseteq Opened(DoorHitBottom(d, s, L))
<1> DEFINE touchable == d \in Touchable
           bottom == [s EXCEPT ![d].ts = "AT_BOTTOM", ![d].pos = "bottom",
                            ![d].touch = touchable, ![d].think = "hitBottom"]
           first == d \in Firing
           second == d \in CloseFiring \ StartOpen
<1>1. d \in Movers /\ d \notin Buttons /\ s \in MoverStates /\ s[d] \in MoverState
  BY MoversAssumption DEF Movers, SoundBut, MoverStates
<1>2. /\ bottom \in MoverStates
      /\ \A f \in Movers \ {d} : bottom[f] = s[f]
      /\ bottom[d].ts = "AT_BOTTOM" /\ bottom[d].pos = "bottom"
      /\ bottom[d].touch = touchable /\ bottom[d].think = "hitBottom"
  <2>1. touchable \in BOOLEAN
    OBVIOUS
  <2> HIDE DEF touchable
  <2>2. QED
    BY <1>1, <2>1 DEF MoverStates, MoverState
<1>3. DoorHitBottom(d, s, L) = FireIf(second, FireIf(first, bottom, L), L)
  BY DEF DoorHitBottom
<1>4. first \in BOOLEAN /\ second \in BOOLEAN
  OBVIOUS
<1> HIDE DEF bottom, first, second
<1>5. Sound(d, bottom[d])
  BY <1>1, <1>2 DEF Sound, Consistent, TouchMatches, Moving
<1>6. bottom \in SoundStates /\ Opened(s) \ {d} \subseteq Opened(bottom)
  BY <1>1, <1>2, <1>5, OneMover
<1>7. QED
  BY <1>3, <1>4, <1>6, FireTwice

\* A mover starts.
LEMMA StartFacts ==
    ASSUME NEW e \in Movers, NEW s \in SoundBut(e), Untouchable(e, s),
           NEW ts \in {"GOING_UP", "GOING_DOWN"}
    PROVE  /\ [s EXCEPT ![e].ts = ts, ![e].think = "moveDone"] \in SoundStates
           /\ Opened(s) \ {e} \subseteq
                  Opened([s EXCEPT ![e].ts = ts, ![e].think = "moveDone"])
<1> DEFINE t == [s EXCEPT ![e].ts = ts, ![e].think = "moveDone"]
<1>1. s \in MoverStates /\ s[e] \in MoverState
  BY DEF SoundBut, MoverStates
<1>2. /\ t \in MoverStates
      /\ \A f \in Movers \ {e} : t[f] = s[f]
      /\ t[e].ts = ts /\ t[e].think = "moveDone" /\ t[e].touch = s[e].touch
  BY <1>1 DEF MoverStates, MoverState
<1> HIDE DEF t
<1>3. Sound(e, t[e])
  <2>1. s[e].touch \in BOOLEAN
    BY <1>1 DEF MoverState
  <2>2. QED
    BY <1>2, <2>1 DEF Sound, Consistent, TouchMatches, Moving, Untouchable
<1>4. QED
  BY <1>2, <1>3, OneMover DEF t

\* DoorGoUp repairs the door it is called for, and no other door closes.
LEMMA DoorGoUpFacts ==
    ASSUME NEW d \in Doors, NEW s \in SoundBut(d), NEW L, Untouchable(d, s)
    PROVE  /\ DoorGoUp(d, s, L) \in SoundStates
           /\ Opened(s) \ {d} \subseteq Opened(DoorGoUp(d, s, L))
<1>1. d \in Movers
  BY DEF Movers
<1>2. QED
  BY <1>1, DoorHitTopFacts, StartFacts DEF DoorGoUp

\* So does DoorGoDown,
LEMMA DoorGoDownFacts ==
    ASSUME NEW d \in Doors, NEW s \in SoundBut(d), NEW L, Untouchable(d, s)
    PROVE  /\ DoorGoDown(d, s, L) \in SoundStates
           /\ Opened(s) \ {d} \subseteq Opened(DoorGoDown(d, s, L))
<1>1. d \in Movers
  BY DEF Movers
<1>2. QED
  BY <1>1, DoorHitBottomFacts, StartFacts DEF DoorGoDown

\* and the reversal of a blocked door.
LEMMA ReversedFacts ==
    ASSUME NEW d \in Doors, NEW s \in SoundBut(d), NEW L, Untouchable(d, s)
    PROVE  /\ Reversed(d, s, L) \in SoundStates
           /\ Opened(s) \ {d} \subseteq Opened(Reversed(d, s, L))
BY DoorGoUpFacts, DoorGoDownFacts DEF Reversed

\* Where all movers are sound, all others are.
LEMMA SoundButWeaker ==
    ASSUME NEW s \in SoundStates, NEW e
    PROVE  s \in SoundBut(e)
BY DEF SoundStates, SoundBut

\* A piece of the team that gets another door's origin need not be sound until
\* it is reversed.
LEMMA PieceReversedFacts ==
    ASSUME NEW q \in Nat, NEW d \in Doors, NEW s \in SoundStates, NEW L
    PROVE  /\ PieceReversed(q, d, s, L) \in SoundStates
           /\ Opened(s) \subseteq Opened(PieceReversed(q, d, s, L))
<1>1. CASE q \notin Pieces(d)
  BY <1>1 DEF PieceReversed
<1>2. CASE q \in Pieces(d)
  <2>1. q \in Doors /\ q \in Team /\ q \notin NeverReturn /\ q \in Movers
    BY <1>2, MoversAssumption DEF Pieces, Movers
  <2> DEFINE t == Realigned(q, d, s)
  <2>2. t \in SoundBut(q) /\ Opened(t) = Opened(s)
    <3>1. s \in MoverStates /\ s[q] \in MoverState /\ s[d] \in MoverState
      BY <2>1 DEF SoundStates, MoverStates, Movers
    <3>2. CASE t = s
      BY <3>2, SoundButWeaker
    <3>3. ASSUME NEW pos \in {"bottom", "between", "top"}, t = [s EXCEPT ![q].pos = pos]
          PROVE  t \in SoundBut(q) /\ Opened(t) = Opened(s)
      <4> HIDE DEF t
      <4>1. t \in MoverStates /\ \A f \in Movers : t[f].ts = s[f].ts
        BY <2>1, <3>1, <3>3 DEF MoverStates, MoverState
      <4>2. \A f \in Movers \ {q} : t[f] = s[f]
        BY <2>1, <3>1, <3>3 DEF MoverStates
      <4>3. QED
        BY <4>1, <4>2 DEF SoundBut, SoundStates, Opened, Movers
    <3>4. \A pos \in {"bottom", "between", "top"}, e \in Doors :
              Displaced(e, pos) \in {"bottom", "between", "top"}
      BY DEF Displaced
    <3>5. s[d].pos \in {"bottom", "between", "top"}
      BY <3>1 DEF MoverState
    <3>6. QED
      BY <2>1, <3>2, <3>3, <3>4, <3>5 DEF Realigned
  <2> HIDE DEF t
  <2>3. Untouchable(q, t)
    BY <2>1 DEF Untouchable
  <2>4. Reversed(q, t, L) \in SoundStates /\ Opened(t) \ {q} \subseteq Opened(Reversed(q, t, L))
    BY <2>1, <2>2, <2>3, ReversedFacts
  <2>5. q \notin Opened(s)
    BY <2>1 DEF Opened
  <2>6. QED
    BY <1>2, <2>2, <2>4, <2>5 DEF PieceReversed, t
<1>3. QED
  BY <1>1, <1>2

\* Blocked reverses the door and its pieces, one after the other.
LEMMA BlockedDoorsFacts ==
    ASSUME NEW d \in Doors, NEW s \in SoundStates, NEW L, Moving(s[d])
    PROVE  /\ BlockedDoors(d, s, L) \in SoundStates
           /\ Opened(s) \subseteq Opened(BlockedDoors(d, s, L))
<1> DEFINE start == IF d \in NeverReturn THEN s ELSE Reversed(d, s, L)
           Body(h) == [q \in Nat |-> IF q = 0 THEN start
                                     ELSE PieceReversed(q - 1, d, h[q - 1], L)]
           after == CHOOSE h : h = Body(h)
           G == [x \in SoundStates \X Nat |-> PieceReversed(x[2], d, x[1], L)]
<1>1. start \in SoundStates /\ Opened(s) \subseteq Opened(start)
  <2>1. d \notin Opened(s) /\ s \in SoundBut(d) /\ d \in Movers
    BY SoundButWeaker DEF Opened, Moving, Movers
  <2>2. Untouchable(d, s)
    BY <2>1 DEF SoundStates, Sound, TouchMatches, Moving, Untouchable
  <2>3. QED
    BY <2>1, <2>2, ReversedFacts
<1>2. G \in [SoundStates \X Nat -> SoundStates]
  BY PieceReversedFacts
<1>3. PICK f \in [Nat -> SoundStates] :
          f[0] = start /\ \A k \in Nat : f[k + 1] = G[<<f[k], k>>]
  <2>1. start \in SoundStates
    BY <1>1
  <2> HIDE DEF G, start
  <2>2. \E f : Recursion(f, SoundStates, G, start)
    BY <1>2, <2>1, RecursionExists
  <2>3. QED
    BY <2>2 DEF Recursion
<1>4. f = Body(f)
  <2>1. ASSUME NEW q \in Nat, q # 0
        PROVE  f[q] = PieceReversed(q - 1, d, f[q - 1], L)
    <3>1. q - 1 \in Nat /\ f[q - 1] \in SoundStates /\ f[(q - 1) + 1] = G[<<f[q - 1], q - 1>>]
      <4> HIDE DEF G, start
      <4>1. q - 1 \in Nat
        BY <2>1
      <4>2. QED
        BY <1>3, <4>1
    <3>2. (q - 1) + 1 = q
      OBVIOUS
    <3>3. QED
      BY <3>1, <3>2
  <2> HIDE DEF G, start
  <2>2. QED
    BY <1>3, <2>1
<1>5. after = Body(after)
  <2> HIDE DEF Body
  <2> QED BY <1>4
<1> DEFINE Good(k) == after[k] \in SoundStates /\ Opened(s) \subseteq Opened(after[k])
           T == {k \in Nat : ~Good(k)}
<1> HIDE DEF G, start, after
<1>6. after[0] = start /\ \A q \in Nat \ {0} : after[q] = PieceReversed(q - 1, d, after[q - 1], L)
  BY <1>5
<1>7. T = {}
  <2>1. SUFFICES ASSUME T # {} PROVE FALSE
    OBVIOUS
  <2>2. PICK k \in T : \A y \in T : k <= y
    <3>1. T \subseteq Nat
      OBVIOUS
    <3> HIDE DEF T
    <3>2. QED
      BY <2>1, <3>1, LeastNat
  <2>3. k \in Nat /\ ~Good(k)
    OBVIOUS
  <2>4. k # 0
    BY <1>1, <1>6, <2>3
  <2>5. k - 1 \in Nat /\ k - 1 \notin T
    <3> HIDE DEF T
    <3> QED BY <2>2, <2>3, <2>4
  <2>6. Good(k - 1)
    BY <2>5
  <2>7. after[k] = PieceReversed(k - 1, d, after[k - 1], L)
    BY <1>6, <2>3, <2>4
  <2>8. QED
    BY <2>3, <2>5, <2>6, <2>7, PieceReversedFacts
<1>8. Max(Movers) + 1 \in Nat
  <2>1. Movers \subseteq Nat /\ IsFiniteSet(Movers) /\ Movers # {}
    BY MoversAssumption DEF Movers
  <2>2. Max(Movers) \in Movers
    BY <2>1, MaxIsGreatest
  <2>3. Max(Movers) \in Nat
    BY <2>1, <2>2
  <2>4. QED
    BY <2>3
<1>9. BlockedDoors(d, s, L) = after[Max(Movers) + 1]
  BY DEF BlockedDoors, after, start
<1>10. QED
  BY <1>7, <1>8, <1>9

-----------------------------------------------------------------------------
(* Buttons *)

\* A button is never one of the doors.
LEMMA ButtonIsNoDoor ==
    ASSUME NEW b \in Buttons, NEW s
    PROVE  b \in Movers /\ b \notin Doors /\ b \notin Team /\ Opened(s) \ {b} = Opened(s)
BY MoversAssumption DEF Movers, Opened

\* A button arrives at its end, or finds its master closed.
LEMMA TriggerAndWaitFacts ==
    ASSUME NEW b \in Buttons, NEW s \in SoundBut(b), NEW L, Untouchable(b, s),
           b \in L => b \in Mastered /\ s[b].ts = "GOING_UP"
    PROVE  /\ TriggerAndWait(b, s, L) \in SoundStates
           /\ Opened(s) \subseteq Opened(TriggerAndWait(b, s, L))
<1>0. b \in Movers /\ b \notin Doors /\ Opened(s) \ {b} = Opened(s)
  BY ButtonIsNoDoor
<1>1. s \in MoverStates /\ s[b] \in MoverState
  BY <1>0 DEF SoundBut, MoverStates
<1>2. CASE b \in L
  <2> DEFINE t == [s EXCEPT ![b].pos = "top", ![b].think = "none"]
  <2>1. TriggerAndWait(b, s, L) = t
    BY <1>2 DEF TriggerAndWait
  <2>2. /\ t \in MoverStates
        /\ \A f \in Movers \ {b} : t[f] = s[f]
        /\ t[b].ts = s[b].ts /\ t[b].pos = "top"
        /\ t[b].touch = s[b].touch /\ t[b].think = "none"
    BY <1>0, <1>1 DEF MoverStates, MoverState
  <2> HIDE DEF t
  <2>3. Sound(b, t[b])
    <3>1. s[b].touch \in BOOLEAN
      BY <1>1 DEF MoverState
    <3>2. QED
      BY <1>2, <2>2, <3>1 DEF Sound, Consistent, TouchMatches, Moving, Untouchable
  <2>4. QED
    BY <1>0, <2>1, <2>2, <2>3, OneMover
<1>3. CASE b \notin L
  <2> DEFINE touchable == b \in Touchable
             waits == b \in NeverReturn \cup Toggle
             fires == b \in Firing
             top == [s EXCEPT ![b].ts = "AT_TOP", ![b].pos = "top",
                              ![b].touch = IF waits THEN touchable ELSE @,
                              ![b].think = IF waits THEN "none" ELSE "return"]
  <2>1. TriggerAndWait(b, s, L) = FireIf(fires, top, L)
    BY <1>3 DEF TriggerAndWait
  <2>2. touchable \in BOOLEAN /\ fires \in BOOLEAN
    OBVIOUS
  <2>3. /\ top \in MoverStates
        /\ \A f \in Movers \ {b} : top[f] = s[f]
        /\ top[b].ts = "AT_TOP" /\ top[b].pos = "top"
        /\ top[b].touch = (IF waits THEN touchable ELSE s[b].touch)
        /\ top[b].think = IF waits THEN "none" ELSE "return"
    <3> HIDE DEF touchable, waits
    <3>1. QED
      BY <1>0, <1>1, <2>2 DEF MoverStates, MoverState
  <2> HIDE DEF top, fires
  <2>4. Sound(b, top[b])
    <3>1. s[b].touch \in BOOLEAN
      BY <1>1 DEF MoverState
    <3>2. QED
      BY <1>0, <2>3, <3>1 DEF Sound, Consistent, TouchMatches, Moving, Untouchable
  <2>5. top \in SoundStates /\ Opened(s) \subseteq Opened(top)
    BY <1>0, <2>3, <2>4, OneMover
  <2>6. QED
    BY <2>1, <2>2, <2>5, FireIfFacts
<1>4. QED
  BY <1>2, <1>3

\* ButtonBackHome repairs the button and closes no open door,
LEMMA ButtonBackHomeFacts ==
    ASSUME NEW b \in Buttons, NEW s \in SoundBut(b), NEW L
    PROVE  /\ ButtonBackHome(b, s, L) \in SoundStates
           /\ Opened(s) \subseteq Opened(ButtonBackHome(b, s, L))
<1> DEFINE touchable == b \in Touchable
           fires == b \in Firing \cap Toggle
           home == [s EXCEPT ![b].ts = "AT_BOTTOM", ![b].pos = "bottom",
                             ![b].touch = touchable, ![b].think = "none"]
<1>0. b \in Movers /\ b \notin Doors /\ Opened(s) \ {b} = Opened(s)
  BY ButtonIsNoDoor
<1>1. s \in MoverStates /\ s[b] \in MoverState
  BY <1>0 DEF SoundBut, MoverStates
<1>2. ButtonBackHome(b, s, L) = FireIf(fires, home, L)
  BY DEF ButtonBackHome
<1>3. touchable \in BOOLEAN /\ fires \in BOOLEAN
  OBVIOUS
<1>4. /\ home \in MoverStates
      /\ \A f \in Movers \ {b} : home[f] = s[f]
      /\ home[b].ts = "AT_BOTTOM" /\ home[b].pos = "bottom"
      /\ home[b].touch = touchable /\ home[b].think = "none"
  <2> HIDE DEF touchable
  <2>1. QED
    BY <1>0, <1>1, <1>3 DEF MoverStates, MoverState
<1> HIDE DEF home, fires
<1>5. Sound(b, home[b])
  BY <1>4 DEF Sound, Consistent, TouchMatches, Moving
<1>6. home \in SoundStates /\ Opened(s) \subseteq Opened(home)
  BY <1>0, <1>4, <1>5, OneMover
<1>7. QED
  BY <1>2, <1>3, <1>6, FireIfFacts

\* and so does ButtonActivate, unless the button may be fired by itself,
LEMMA ButtonActivateFacts ==
    ASSUME NEW b \in Buttons, NEW s \in SoundBut(b), NEW L, Untouchable(b, s),
           b \in L => s \in SoundStates
    PROVE  /\ ButtonActivate(b, s, L) \in SoundStates
           /\ Opened(s) \subseteq Opened(ButtonActivate(b, s, L))
<1>0. b \in Movers /\ Opened(s) \ {b} = Opened(s)
  BY ButtonIsNoDoor
<1>1. CASE b \in L
  BY <1>1 DEF ButtonActivate
<1>2. CASE b \notin L /\ b \in DontMove
  BY <1>2, TriggerAndWaitFacts DEF ButtonActivate
<1>3. CASE b \notin L /\ b \notin DontMove
  BY <1>0, <1>3, StartFacts DEF ButtonActivate
<1>4. QED
  BY <1>1, <1>2, <1>3

\* and ButtonReturn.
LEMMA ButtonReturnFacts ==
    ASSUME NEW b \in Buttons, NEW s \in SoundBut(b), NEW L, Untouchable(b, s)
    PROVE  /\ ButtonReturn(b, s, L) \in SoundStates
           /\ Opened(s) \subseteq Opened(ButtonReturn(b, s, L))
<1>0. b \in Movers /\ Opened(s) \ {b} = Opened(s)
  BY ButtonIsNoDoor
<1>1. QED
  BY <1>0, ButtonBackHomeFacts, StartFacts DEF ButtonReturn

\* A button loses its touch function when it is touched or shot.
LEMMA UntouchedFacts ==
    ASSUME NEW b \in Buttons, NEW s \in SoundStates,
           NEW t, t = [s EXCEPT ![b].touch = FALSE]
    PROVE  /\ t \in SoundBut(b) /\ Untouchable(b, t) /\ Opened(t) = Opened(s)
           /\ b \in Shootable => t \in SoundStates
<1>1. b \in Movers /\ s \in MoverStates /\ s[b] \in MoverState /\ Sound(b, s[b])
  BY DEF SoundStates, MoverStates, Movers
<1>2. /\ t \in MoverStates
      /\ \A f \in Movers \ {b} : t[f] = s[f]
      /\ t[b].ts = s[b].ts /\ t[b].pos = s[b].pos /\ t[b].think = s[b].think
      /\ t[b].touch = FALSE
  BY <1>1 DEF MoverStates, MoverState
<1>3. t \in SoundBut(b) /\ Untouchable(b, t)
  BY <1>2 DEF SoundBut, SoundStates, Untouchable
<1>4. Opened(t) = Opened(s)
  BY <1>1, <1>2 DEF Opened, Movers
<1>5. ASSUME b \in Shootable PROVE t \in SoundStates
  <2>1. Sound(b, t[b])
    BY <1>1, <1>2, <1>5 DEF Sound, Consistent, Moving
  <2>2. QED
    BY <1>2, <2>1 DEF SoundStates
<1>6. QED
  BY <1>3, <1>4, <1>5

-----------------------------------------------------------------------------
(* The calls *)

\* What every step keeps, and OpenStaysOpen of it.
Kept == ms' \in SoundStates /\ Opened(ms) \subseteq Opened(ms')

\* What the invariant says of one mover.
LEMMA EachSound ==
    ASSUME MoversInv, NEW e \in Movers
    PROVE  /\ ms \in SoundBut(e) /\ ms \in MoverStates /\ ms[e] \in MoverState
           /\ Sound(e, ms[e])
BY SoundButWeaker DEF MoversInv, SoundStates, MoverStates

\* A door that is touched is at rest, and starts.
LEMMA DoorTouchStep ==
    ASSUME MoversInv, NEW d \in Doors, DoorTouch(d)
    PROVE  Kept
<1>1. /\ d \in Movers /\ d \notin Team /\ d \notin Shootable /\ d \notin Buttons
      /\ ms[d].touch
  BY MoversAssumption DEF DoorTouch, Movers
<1>2. /\ ms \in SoundBut(d) /\ ms \in MoverStates /\ ms[d] \in MoverState
      /\ Sound(d, ms[d])
  BY <1>1, EachSound
<1>3. \/ ms[d].ts = "AT_BOTTOM" /\ ms[d].pos = "bottom"
      \/ ms[d].ts = "AT_TOP" /\ ms[d].pos = "top" /\ d \in Toggle
  BY <1>1, <1>2 DEF Sound, Consistent, TouchMatches
<1>4. PICK L \in LockedSets :
          d \notin L /\ ms' = [DoorActivate(d, ms, L) EXCEPT ![d].touch = FALSE]
  BY DEF DoorTouch
<1>5. PICK ts \in {"GOING_UP", "GOING_DOWN"} :
          DoorActivate(d, ms, L) = [ms EXCEPT ![d].ts = ts, ![d].think = "moveDone"]
  BY <1>3, <1>4 DEF DoorActivate, DoorGoUp, DoorGoDown
<1> DEFINE t == [ms EXCEPT ![d].ts = ts, ![d].think = "moveDone"]
<1>6. /\ t \in MoverStates /\ t[d].ts = ts /\ t[d].think = "moveDone"
      /\ \A f \in Movers \ {d} : t[f] = ms[f]
  BY <1>1, <1>2 DEF MoverStates, MoverState
<1>7. ms' = [t EXCEPT ![d].touch = FALSE]
  BY <1>4, <1>5
<1> HIDE DEF t
<1>8. /\ ms' \in MoverStates
      /\ ms'[d].ts = ts /\ ms'[d].think = "moveDone" /\ ms'[d].touch = FALSE
      /\ \A f \in Movers \ {d} : ms'[f] = ms[f]
  BY <1>1, <1>6, <1>7 DEF MoverStates, MoverState
<1>9. Sound(d, ms'[d])
  BY <1>8 DEF Sound, Consistent, TouchMatches, Moving
<1>10. ms' \in SoundStates /\ Opened(ms) \ {d} \subseteq Opened(ms')
  BY <1>1, <1>2, <1>8, <1>9, OneMover
<1>11. d \notin Opened(ms)
  BY <1>3 DEF Opened
<1>12. QED
  BY <1>10, <1>11 DEF Kept

\* Using a door keeps the movers sound.
LEMMA DoorUseStep ==
    ASSUME MoversInv, NEW d \in Doors, DoorUse(d)
    PROVE  Kept
<1>1. d \in Movers /\ d \notin Touchable
  BY DEF DoorUse, Movers
<1>2. ms \in SoundBut(d) /\ Sound(d, ms[d])
  BY <1>1, EachSound
<1>3. Untouchable(d, ms) /\ d \notin Opened(ms)
  BY <1>1, <1>2 DEF Untouchable, Sound, TouchMatches, DoorUse, Opened
<1>4. PICK L \in LockedSets : ms' = DoorActivate(d, ms, L)
  BY DEF DoorUse
<1>5. CASE ms' = ms
  BY <1>5 DEF Kept, MoversInv
<1>6. CASE ms' = DoorGoUp(d, ms, L)
  BY <1>2, <1>3, <1>6, DoorGoUpFacts DEF Kept
<1>7. CASE ms' = DoorGoDown(d, ms, L)
  BY <1>2, <1>3, <1>7, DoorGoDownFacts DEF Kept
<1>8. QED
  BY <1>4, <1>5, <1>6, <1>7 DEF DoorActivate

\* A blocked door, with the doors of its team, keeps the movers sound.
LEMMA BlockedStep ==
    ASSUME MoversInv, NEW d \in Doors, Blocked(d)
    PROVE  Kept
BY BlockedDoorsFacts DEF Blocked, MoversInv, Kept

\* Using a button keeps the movers sound.
LEMMA ButtonUseStep ==
    ASSUME MoversInv, NEW b \in Buttons, ButtonUse(b)
    PROVE  Kept
<1>1. b \in Movers /\ b \notin Touchable
  BY DEF ButtonUse, Movers
<1>2. ms \in SoundStates /\ ms \in SoundBut(b) /\ Sound(b, ms[b])
  BY <1>1, EachSound DEF MoversInv
<1>3. Untouchable(b, ms)
  BY <1>1, <1>2 DEF Untouchable, Sound, TouchMatches
<1>4. PICK L \in LockedSets : ms' \in {ButtonActivate(b, ms, L), ButtonReturn(b, ms, L)}
  BY DEF ButtonUse
<1>5. QED
  BY <1>2, <1>3, <1>4, ButtonActivateFacts, ButtonReturnFacts DEF Kept

\* Touching a button keeps the movers sound.
LEMMA ButtonTouchStep ==
    ASSUME MoversInv, NEW b \in Buttons, ButtonTouch(b)
    PROVE  Kept
<1> DEFINE t == [ms EXCEPT ![b].touch = FALSE]
           fires == b \in Firing
<1>1. PICK L \in LockedSets :
          /\ b \notin L
          /\ \/ ms' = ButtonActivate(b, t, L)
             \/ ms' = ButtonReturn(b, FireIf(fires, t, L), L)
  BY DEF ButtonTouch
<1>2. t \in SoundBut(b) /\ Untouchable(b, t) /\ Opened(t) = Opened(ms)
  BY UntouchedFacts DEF MoversInv
<1> HIDE DEF t
<1>3. CASE ms' = ButtonActivate(b, t, L)
  BY <1>1, <1>2, <1>3, ButtonActivateFacts DEF Kept
<1>4. CASE ms' = ButtonReturn(b, FireIf(fires, t, L), L)
  <2> DEFINE u == FireIf(fires, t, L)
  <2>1. u \in SoundBut(b) /\ u[b] = t[b] /\ Opened(t) \subseteq Opened(u)
    BY <1>2, FireBut, ButtonIsNoDoor DEF FireIf
  <2>2. ms' = ButtonReturn(b, u, L)
    BY <1>4
  <2> HIDE DEF u
  <2>3. Untouchable(b, u)
    BY <1>2, <2>1 DEF Untouchable
  <2>4. QED
    BY <1>2, <2>1, <2>2, <2>3, ButtonReturnFacts DEF Kept
<1>5. QED
  BY <1>1, <1>3, <1>4

\* Shooting a button keeps the movers sound.
LEMMA TakeDamageStep ==
    ASSUME MoversInv, NEW b \in Buttons, TakeDamage(b)
    PROVE  Kept
<1> DEFINE t == [ms EXCEPT ![b].touch = FALSE]
<1>1. PICK L \in LockedSets : ms' \in {t, ButtonActivate(b, t, L), ButtonReturn(b, t, L)}
  BY DEF TakeDamage
<1>2. /\ t \in SoundBut(b) /\ Untouchable(b, t) /\ Opened(t) = Opened(ms)
      /\ t \in SoundStates
  BY UntouchedFacts DEF MoversInv, TakeDamage
<1> HIDE DEF t
<1>3. QED
  BY <1>1, <1>2, ButtonActivateFacts, ButtonReturnFacts DEF Kept

\* The end of a move or of a wait keeps the movers sound.
LEMMA MoveStep ==
    ASSUME MoversInv, NEW e \in Movers, Move(e)
    PROVE  Kept
<1>1. ms \in SoundBut(e) /\ ms \in MoverStates /\ ms[e] \in MoverState /\ Sound(e, ms[e])
  BY EachSound
<1>2. Moving(ms[e]) /\ ms[e].think = "moveDone" /\ ms' = [ms EXCEPT ![e].pos = "between"]
  BY DEF Move
<1>3. /\ ms' \in MoverStates
      /\ \A f \in Movers \ {e} : ms'[f] = ms[f]
      /\ ms'[e].ts = ms[e].ts /\ ms'[e].think = "moveDone" /\ ms'[e].touch = ms[e].touch
  BY <1>1, <1>2 DEF MoverStates, MoverState
<1>4. Sound(e, ms'[e])
  BY <1>1, <1>2, <1>3 DEF Sound, Consistent, TouchMatches, Moving
<1>5. e \notin Opened(ms)
  BY <1>2 DEF Opened, Moving
<1>6. QED
  BY <1>1, <1>3, <1>4, <1>5, OneMover DEF Kept

\* Only what moves has a movement to finish, and it cannot be touched.
LEMMA MoveDoneStep ==
    ASSUME MoversInv, NEW e \in Movers, MoveDone(e)
    PROVE  Kept
<1>1. ms \in SoundBut(e) /\ ms[e] \in MoverState /\ Sound(e, ms[e])
  BY EachSound
<1>2. Moving(ms[e])
  BY <1>1 DEF MoveDone, MoverState, Sound, Consistent, Moving
<1>3. Untouchable(e, ms) /\ e \notin Opened(ms)
  BY <1>1, <1>2 DEF Sound, TouchMatches, Untouchable, Opened, Moving
<1>4. PICK L \in LockedSets :
          ms' = IF ms[e].ts = "GOING_UP"
                THEN IF e \in Doors THEN DoorHitTop(e, ms, L) ELSE TriggerAndWait(e, ms, L)
                ELSE IF e \in Doors THEN DoorHitBottom(e, ms, L) ELSE ButtonBackHome(e, ms, L)
  BY DEF MoveDone
<1>5. CASE e \in Doors
  BY <1>1, <1>3, <1>4, <1>5, DoorHitTopFacts, DoorHitBottomFacts DEF Kept
<1>6. CASE e \notin Doors
  <2>1. e \in Buttons
    BY <1>6 DEF Movers
  <2>2. CASE ms[e].ts = "GOING_UP"
    <3>1. e \in L => e \in Mastered
      BY DEF LockedSets
    <3>2. QED
      BY <1>1, <1>3, <1>4, <1>6, <2>1, <2>2, <3>1, TriggerAndWaitFacts DEF Kept
  <2>3. CASE ms[e].ts # "GOING_UP"
    BY <1>1, <1>4, <1>6, <2>1, <2>3, ButtonBackHomeFacts DEF Kept
  <2>4. QED
    BY <2>2, <2>3
<1>7. QED
  BY <1>5, <1>6

\* The wait of a mover is over that rests at its top and returns, or the last
\* sound of one at its bottom.
LEMMA ThinkStep ==
    ASSUME MoversInv, NEW e \in Movers, Think(e)
    PROVE  Kept
<1>1. ms \in SoundBut(e) /\ ms \in MoverStates /\ ms[e] \in MoverState /\ Sound(e, ms[e])
  BY EachSound
<1>2. ASSUME NEW L, ms[e].think = "goDown", ms' = DoorGoDown(e, ms, L) PROVE Kept
  <2>1. ms[e].ts = "AT_TOP" /\ e \in Doors /\ e \notin NeverReturn /\ e \notin Toggle
    BY <1>1, <1>2 DEF MoverState, Sound, Consistent, Moving
  <2>2. Untouchable(e, ms) /\ e \notin Opened(ms)
    BY <1>1, <2>1 DEF Sound, TouchMatches, Untouchable, Opened
  <2>3. QED
    BY <1>1, <1>2, <2>1, <2>2, DoorGoDownFacts DEF Kept
<1>3. ASSUME NEW L, ms[e].think = "return", ms' = ButtonReturn(e, ms, L) PROVE Kept
  <2>1. ms[e].ts = "AT_TOP" /\ e \in Buttons /\ e \notin NeverReturn /\ e \notin Toggle
    BY <1>1, <1>3 DEF MoverState, Sound, Consistent, Moving, Movers
  <2>2. Untouchable(e, ms)
    BY <1>1, <2>1 DEF Sound, TouchMatches, Untouchable
  <2>3. QED
    BY <1>1, <1>3, <2>1, <2>2, ButtonReturnFacts DEF Kept
<1>4. ASSUME ms[e].think = "hitBottom", ms' = [ms EXCEPT ![e].think = "none"] PROVE Kept
  <2>1. ms[e].ts = "AT_BOTTOM"
    BY <1>1, <1>4 DEF MoverState, Sound, Consistent, Moving
  <2>2. /\ ms' \in MoverStates
        /\ \A f \in Movers \ {e} : ms'[f] = ms[f]
        /\ ms'[e].ts = ms[e].ts /\ ms'[e].pos = ms[e].pos
        /\ ms'[e].touch = ms[e].touch /\ ms'[e].think = "none"
    BY <1>1, <1>4 DEF MoverStates, MoverState
  <2>3. Sound(e, ms'[e]) /\ e \notin Opened(ms)
    BY <1>1, <2>1, <2>2 DEF Sound, Consistent, TouchMatches, Moving, Opened
  <2>4. QED
    BY <1>1, <2>2, <2>3, OneMover DEF Kept
<1>5. QED
  BY <1>2, <1>3, <1>4 DEF Think

\* Every step keeps the invariant, and what Kept says of open doors.
LEMMA MoversStep == MoversInv /\ [MoversNext]_moversVars => MoversInv' /\ Kept
<1> SUFFICES ASSUME MoversInv, [MoversNext]_moversVars PROVE MoversInv' /\ Kept
  OBVIOUS
<1>1. CASE FireTargets
  BY <1>1, FireFacts DEF FireTargets, MoversInv, Kept
<1>2. ASSUME NEW d \in Doors, DoorTouch(d) \/ DoorUse(d) PROVE MoversInv' /\ Kept
  BY <1>2, DoorTouchStep, DoorUseStep DEF DoorTouch, DoorUse, MoversInv, Kept
<1>3. ASSUME NEW d \in Doors, Blocked(d) PROVE MoversInv' /\ Kept
  <2>1. blocked' \in Nat
    BY <1>3 DEF Blocked, MoversInv
  <2>2. QED
    BY <1>3, <2>1, BlockedStep DEF MoversInv, Kept
<1>4. ASSUME NEW b \in Buttons, ButtonUse(b) \/ ButtonTouch(b) \/ TakeDamage(b)
      PROVE  MoversInv' /\ Kept
  BY <1>4, ButtonUseStep, ButtonTouchStep, TakeDamageStep
     DEF ButtonUse, ButtonTouch, TakeDamage, MoversInv, Kept
<1>5. ASSUME NEW e \in Movers, Move(e) \/ MoveDone(e) \/ Think(e) PROVE MoversInv' /\ Kept
  BY <1>5, MoveStep, MoveDoneStep, ThinkStep DEF Move, MoveDone, Think, MoversInv, Kept
<1>6. CASE UNCHANGED moversVars
  BY <1>6 DEF moversVars, MoversInv, Kept
<1>7. QED
  BY <1>1, <1>2, <1>3, <1>4, <1>5, <1>6 DEF MoversNext

\* The map as it is loaded satisfies the invariant.
LEMMA MoversInvInit == MoversInit => MoversInv
<1> SUFFICES ASSUME MoversInit PROVE MoversInv
  OBVIOUS
<1>1. ASSUME NEW e \in Movers
      PROVE  ms[e] \in MoverState /\ Sound(e, ms[e])
  <2> DEFINE touchable == e \in Touchable
  <2>1. ms[e] = [ts |-> "AT_BOTTOM", pos |-> "bottom", touch |-> touchable, think |-> "none"]
    BY DEF MoversInit
  <2>2. touchable \in BOOLEAN
    OBVIOUS
  <2> HIDE DEF touchable
  <2>3. /\ ms[e] \in MoverState
        /\ ms[e].ts = "AT_BOTTOM" /\ ms[e].pos = "bottom"
        /\ ms[e].touch = touchable /\ ms[e].think = "none"
    BY <2>1, <2>2 DEF MoverState
  <2>4. QED
    BY <2>3 DEF Sound, Consistent, TouchMatches, Moving, touchable
<1>2. ms \in MoverStates
  <2>1. ms = [e \in Movers |-> ms[e]]
    BY DEF MoversInit
  <2>2. QED
    BY <1>1, <2>1 DEF MoverStates
<1>3. blocked \in Nat
  BY DEF MoversInit
<1>4. QED
  BY <1>1, <1>2, <1>3 DEF MoversInv, SoundStates

\* Doors, platforms and buttons stay sound, whoever touches, uses, shoots or blocks them.
THEOREM MoversInvariant == MoversSpec => []MoversInv
BY MoversInvInit, MoversStep, PTL DEF MoversSpec

-----------------------------------------------------------------------------
\* State, place and think function of every mover agree.
THEOREM MoversStayConsistent == MoversSpec => []MoversConsistent
<1>1. MoversInv => MoversConsistent
  <2> SUFFICES ASSUME MoversInv, NEW e \in Movers
               PROVE  ms[e].touch \in BOOLEAN /\ Consistent(e, ms[e])
    BY DEF MoversConsistent, Consistent
  <2>1. QED
    BY EachSound DEF Sound, MoverState
<1>2. QED
  BY <1>1, MoversInvariant, PTL

\* What opens by touch can be touched exactly while it rests.
THEOREM TouchAlwaysMatches == MoversSpec => []TouchMatchesRest
<1>1. MoversInv => TouchMatchesRest
  BY EachSound DEF TouchMatchesRest, Sound, TouchMatches
<1>2. QED
  BY <1>1, MoversInvariant, PTL

\* A door with wait -1 that is no toggle stays open.
THEOREM OpenDoorsStayOpen == MoversSpec => OpenStaysOpen
<1> DEFINE Stays == \A d \in (Doors \cap NeverReturn) \ Toggle :
          ms[d].ts = "AT_TOP" => (ms[d].ts)' = "AT_TOP"
<1>1. MoversInv /\ [MoversNext]_moversVars => [Stays]_moversVars
  <2>1. MoversInv /\ [MoversNext]_moversVars => Stays
    BY MoversStep DEF Kept, Opened
  <2>2. QED
    BY <2>1
<1>2. QED
  BY <1>1, MoversInvariant, PTL DEF MoversSpec, OpenStaysOpen
=============================================================================
