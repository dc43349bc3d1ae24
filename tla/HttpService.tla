---------------------------- MODULE HttpService -----------------------------
(***************************************************************************)
(* What CHttpClient promises its users (http_client.h:117-126): every      *)
(* request gets one callback, in the order of the calls of Get, and none   *)
(* after Shutdown.  The threads, the lock and the queues do not show.      *)
(***************************************************************************)
EXTENDS Naturals, Sequences

VARIABLES
    issued,     \* requests accepted so far
    answered,   \* the requests whose callback was called, in order
    closed      \* Shutdown was called

serviceVars == <<issued, answered, closed>>

ServiceInit == issued = 0 /\ answered = <<>> /\ closed = FALSE

\* Get returns at once: the request is accepted.
Accept ==
    /\ ~closed
    /\ issued' = issued + 1
    /\ UNCHANGED <<answered, closed>>

\* The callback of the oldest request without an answer is called.
Answer ==
    /\ ~closed
    /\ Len(answered) < issued
    /\ answered' = Append(answered, Len(answered) + 1)
    /\ UNCHANGED <<issued, closed>>

Close ==
    /\ ~closed
    /\ closed' = TRUE
    /\ UNCHANGED <<issued, answered>>

ServiceNext == Accept \/ Answer \/ Close

ServiceSpec == ServiceInit /\ [][ServiceNext]_serviceVars
=============================================================================
