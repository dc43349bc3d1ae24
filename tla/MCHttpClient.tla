---------------------------- MODULE MCHttpClient ----------------------------
(* The client on three requests of one chunk each.                         *)
EXTENDS HttpClient
=============================================================================
