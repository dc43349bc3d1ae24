------------------------------ MODULE MCMovers ------------------------------
(* Three doors with one name, one door without, and two buttons. *)
EXTENDS Movers
=============================================================================
