------------------------------- MODULE MCMatch ------------------------------
(* Three players, of whom two may spectate.                                *)
EXTENDS Match
=============================================================================
