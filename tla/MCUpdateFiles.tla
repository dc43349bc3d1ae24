---------------------------- MODULE MCUpdateFiles ----------------------------
(* Two files of any kind and history, two attempts, one edit by the user.  *)
EXTENDS UpdateFiles
=============================================================================
