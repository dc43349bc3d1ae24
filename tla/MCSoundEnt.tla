----------------------------- MODULE MCSoundEnt -----------------------------
(* Two clients' slots and three for other sounds.                          *)
EXTENDS SoundEnt
=============================================================================
