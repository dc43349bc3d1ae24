-------------------------- MODULE MCUpdateInstaller --------------------------
(* The installer on two sessions and one update check.                     *)
EXTENDS UpdateInstaller
=============================================================================
