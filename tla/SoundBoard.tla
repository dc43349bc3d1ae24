----------------------------- MODULE SoundBoard -----------------------------
(***************************************************************************)
(* What CSoundEnt (src/game/server/soundent.h) promises those who insert   *)
(* sounds: a sound is up, unchanged, until its time is over, and is gone   *)
(* at the first check after that.  Lists and indices do not show, nor do   *)
(* the reserved sounds of the clients.                                     *)
(***************************************************************************)
CONSTANTS Places, Kinds, Nothing

VARIABLE board      \* the sound at each place, and whether its time is over

BoardInit == board = [p \in Places |-> Nothing]

Put(k) ==
    \E p \in Places :
        /\ board[p] = Nothing
        /\ board' = [board EXCEPT ![p] = [kind |-> k, due |-> FALSE]]

TimeOver(p) ==
    /\ board[p] # Nothing
    /\ board' = [board EXCEPT ![p].due = TRUE]

TakeDown ==
    LET due == {p \in Places : board[p] # Nothing /\ board[p].due}
    IN  board' = [p \in Places |-> IF p \in due THEN Nothing ELSE board[p]]

BoardNext ==
    /\ board' # board
    /\ \/ \E k \in Kinds : Put(k)
       \/ \E p \in Places : TimeOver(p)
       \/ TakeDown

boardVars == <<board>>

BoardSpec == BoardInit /\ [][BoardNext]_boardVars
=============================================================================
