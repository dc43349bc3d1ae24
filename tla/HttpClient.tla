----------------------------- MODULE HttpClient -----------------------------
(***************************************************************************)
(* CHttpClient (src/game/client/updater/http_client.cpp): one worker       *)
(* thread performs the GET requests that the game's main thread queues,    *)
(* one at a time, and the main thread runs the response callbacks once per *)
(* frame.  The two threads share m_Mutex with its condition variable, the  *)
(* two queues it protects, and two atomic flags.                           *)
(*                                                                         *)
(* A request is identified by the order in which Get pushed it: 1, 2, ...  *)
(* URLs, headers and the log queue are left out; a transfer is a number of *)
(* chunks, and libcurl may fail it at any point.                           *)
(***************************************************************************)
EXTENDS Naturals, Sequences

CONSTANTS
    MaxRequests,    \* bound on the calls of Get in one run of the game
    Chunks          \* write callbacks of a complete transfer

ASSUME HttpAssumption == MaxRequests \in Nat /\ Chunks \in Nat

VARIABLES
    mpc,            \* where the main thread is
    wpc,            \* where the worker thread is
    mutex,          \* holder of m_Mutex beyond one step
    requestQueue,   \* m_RequestQueue
    responseQueue,  \* m_ResponseQueue
    cur,            \* the worker's local req
    received,       \* chunks the current transfer has delivered
    outcome,        \* how the current request ended (resp.m_ErrorMsg)
    bShutdown,      \* m_bShutdown
    bAbort,         \* m_bAbortCurrentDownload
    nIssued,        \* requests pushed so far
    answered,       \* history: the requests whose callback was called, in order
    abortCalls      \* history: requests in transfer when AbortCurrentDownload was called

httpVars == <<mpc, wpc, mutex, requestQueue, responseQueue, cur, received,
              outcome, bShutdown, bAbort, nIssued, answered, abortCalls>>

\* Response::IsSuccess is true of "ok" only; the cause of a failure is history.
Outcomes == {"ok", "failed", "aborted"}

Response == [id : Nat, outcome : Outcomes]

\* curl_easy_perform runs: between its callbacks, in a write callback that has
\* begun, or in a progress callback that has seen one of the flags.
Transferring == wpc \in {"perform", "write", "aborting"}

\* The worker has taken a request off the queue and not yet pushed its response.
Busy == Transferring \/ wpc \in {"prepare", "finished"}

HttpInit ==
    /\ mpc = "idle"
    /\ wpc = "lock"
    /\ mutex = "free"
    /\ requestQueue = <<>>
    /\ responseQueue = <<>>
    /\ cur = 0
    /\ received = 0
    /\ outcome = "failed"
    /\ bShutdown = FALSE
    /\ bAbort = FALSE
    /\ nIssued = 0
    /\ answered = <<>>
    /\ abortCalls = {}

-----------------------------------------------------------------------------
(* The worker thread.                                                      *)

\* m_CondVar.notify_all(): a blocked worker returns from the wait and has to
\* lock the mutex again before it evaluates the predicate.
NotifyAll == wpc' = IF wpc = "blocked" THEN "lock" ELSE wpc

\* The worker has the mutex, finds the wait predicate true and m_bShutdown set:
\* it leaves the loop and the queued requests where they are.
WorkerExit ==
    /\ wpc = "lock" /\ mutex = "free"
    /\ bShutdown
    /\ wpc' = "exit"
    /\ UNCHANGED <<mpc, mutex, requestQueue, responseQueue, cur, received,
                   outcome, bShutdown, bAbort, nIssued, answered, abortCalls>>

\* Mutant: the worker waits without a predicate and takes a request after any
\* wakeup.
WorkerPop_NoPredicate ==
    /\ wpc = "lock" /\ mutex = "free"
    /\ ~bShutdown
    /\ IF requestQueue = <<>>
       THEN UNCHANGED <<cur, requestQueue>>
       ELSE cur' = Head(requestQueue) /\ requestQueue' = Tail(requestQueue)
    /\ received' = 0
    /\ wpc' = "prepare"
    /\ UNCHANGED <<mpc, mutex, responseQueue, outcome, bShutdown, bAbort,
                   nIssued, answered, abortCalls>>

\* The worker has the mutex, finds a request, pops it and unlocks.
WorkerPop ==
    /\ wpc = "lock" /\ mutex = "free"
    /\ ~bShutdown /\ requestQueue # <<>>
    /\ cur' = Head(requestQueue)
    /\ requestQueue' = Tail(requestQueue)
    /\ received' = 0
    /\ wpc' = "prepare"
    /\ UNCHANGED <<mpc, mutex, responseQueue, outcome, bShutdown, bAbort,
                   nIssued, answered, abortCalls>>

\* The worker has the mutex and finds the predicate false: it still holds the
\* mutex until the wait releases it.
WorkerFindsNothing ==
    /\ wpc = "lock" /\ mutex = "free"
    /\ ~bShutdown /\ requestQueue = <<>>
    /\ mutex' = "worker"
    /\ wpc' = "sleep"
    /\ UNCHANGED <<mpc, requestQueue, responseQueue, cur, received, outcome,
                   bShutdown, bAbort, nIssued, answered, abortCalls>>

\* condition_variable::wait releases the mutex and blocks in one step.
WorkerSleep ==
    /\ wpc = "sleep"
    /\ mutex' = "free"
    /\ wpc' = "blocked"
    /\ UNCHANGED <<mpc, requestQueue, responseQueue, cur, received, outcome,
                   bShutdown, bAbort, nIssued, answered, abortCalls>>

\* A condition variable may return from the wait without a notification.
SpuriousWakeup ==
    /\ wpc = "blocked"
    /\ wpc' = "lock"
    /\ UNCHANGED <<mpc, mutex, requestQueue, responseQueue, cur, received,
                   outcome, bShutdown, bAbort, nIssued, answered, abortCalls>>

\* Mutant: the abort flag is not reset before the transfer.
WorkerPerform_NoReset ==
    /\ wpc = "prepare"
    /\ wpc' = "perform"
    /\ UNCHANGED <<mpc, mutex, requestQueue, responseQueue, cur, received,
                   outcome, bShutdown, bAbort, nIssued, answered, abortCalls>>

\* The options are set, the abort flag is reset and curl_easy_perform begins.
WorkerPerform ==
    /\ wpc = "prepare"
    /\ bAbort' = FALSE
    /\ wpc' = "perform"
    /\ UNCHANGED <<mpc, mutex, requestQueue, responseQueue, cur, received,
                   outcome, bShutdown, nIssued, answered, abortCalls>>

\* curl_slist_append fails: the exception is caught before the transfer begins.
WorkerPrepareFails ==
    /\ wpc = "prepare"
    /\ outcome' = "failed"
    /\ wpc' = "finished"
    /\ UNCHANGED <<mpc, mutex, requestQueue, responseQueue, cur, received,
                   bShutdown, bAbort, nIssued, answered, abortCalls>>

\* libcurl hands a chunk to WriteData and the request's write callback begins:
\* the main thread may run before it is done.
WriteBegins ==
    /\ wpc = "perform"
    /\ received < Chunks
    /\ wpc' = "write"
    /\ UNCHANGED <<mpc, mutex, requestQueue, responseQueue, cur, received, outcome,
                   bShutdown, bAbort, nIssued, answered, abortCalls>>

\* The write callback returns, from the middle (`at` is "write") or at once
\* ("perform"): one that takes less than the whole chunk, or throws, fails the
\* transfer.
WriteData(at, accepted) ==
    /\ wpc = at
    /\ received < Chunks
    /\ IF accepted
       THEN /\ received' = received + 1
            /\ wpc' = "perform"
            /\ UNCHANGED outcome
       ELSE /\ wpc' = "finished"
            /\ outcome' = "failed"
            /\ UNCHANGED received
    /\ UNCHANGED <<mpc, mutex, requestQueue, responseQueue, cur, bShutdown,
                   bAbort, nIssued, answered, abortCalls>>

\* ProgressCallback sees one of the flags ...
ProgressSees ==
    /\ wpc = "perform"
    /\ bAbort \/ bShutdown
    /\ wpc' = "aborting"
    /\ UNCHANGED <<mpc, mutex, requestQueue, responseQueue, cur, received, outcome,
                   bShutdown, bAbort, nIssued, answered, abortCalls>>

\* Mutant: the flag is cleared, but libcurl is told to go on.
ProgressCallback_ReturnsZero ==
    /\ wpc = "aborting"
    /\ bAbort' = FALSE
    /\ wpc' = "perform"
    /\ UNCHANGED <<mpc, mutex, requestQueue, responseQueue, cur, received,
                   outcome, bShutdown, nIssued, answered, abortCalls>>

\* ... and then clears the abort flag, whatever it has become meanwhile, and
\* makes libcurl give up.
ProgressCallback ==
    /\ wpc = "aborting"
    /\ bAbort' = FALSE
    /\ outcome' = "aborted"
    /\ wpc' = "finished"
    /\ UNCHANGED <<mpc, mutex, requestQueue, responseQueue, cur, received,
                   bShutdown, nIssued, answered, abortCalls>>

\* curl_easy_perform returns an error of its own (resolver, TLS, HTTP status).
TransferFails ==
    /\ wpc = "perform"
    /\ outcome' = "failed"
    /\ wpc' = "finished"
    /\ UNCHANGED <<mpc, mutex, requestQueue, responseQueue, cur, received,
                   bShutdown, bAbort, nIssued, answered, abortCalls>>

\* curl_easy_perform returns CURLE_OK: libcurl calls the progress callback once
\* more when the transfer is done, so neither flag was set then.
TransferSucceeds ==
    /\ wpc = "perform"
    /\ received = Chunks
    /\ ~bAbort /\ ~bShutdown
    /\ outcome' = "ok"
    /\ wpc' = "finished"
    /\ UNCHANGED <<mpc, mutex, requestQueue, responseQueue, cur, received,
                   bShutdown, bAbort, nIssued, answered, abortCalls>>

\* Mutant: the newest response goes to the front of the queue.
WorkerRespond_AtFront ==
    /\ wpc = "finished" /\ mutex = "free"
    /\ responseQueue' = <<[id |-> cur, outcome |-> outcome]>> \o responseQueue
    /\ wpc' = "lock"
    /\ UNCHANGED <<mpc, mutex, requestQueue, cur, received, outcome, bShutdown,
                   bAbort, nIssued, answered, abortCalls>>

\* The response is pushed under the mutex and the loop starts over.
WorkerRespond ==
    /\ wpc = "finished" /\ mutex = "free"
    /\ responseQueue' = Append(responseQueue, [id |-> cur, outcome |-> outcome])
    /\ wpc' = "lock"
    /\ UNCHANGED <<mpc, mutex, requestQueue, cur, received, outcome, bShutdown,
                   bAbort, nIssued, answered, abortCalls>>

\* The steps of the worker that no callback of a user takes part in.
WorkerStep ==
    \/ WorkerExit \/ WorkerPop \/ WorkerFindsNothing \/ WorkerSleep
    \/ SpuriousWakeup \/ WorkerPerform \/ WorkerPrepareFails
    \/ ProgressSees \/ ProgressCallback
    \/ TransferFails \/ TransferSucceeds \/ WorkerRespond

-----------------------------------------------------------------------------
(* The main thread.  `at` and `next` name the caller's place before and    *)
(* after the operation.                                                    *)

\* Mutants: the request is pushed without the mutex; nobody is notified.
Get_WithoutMutex(at, next) ==
    /\ mpc = at
    /\ nIssued' = nIssued + 1
    /\ requestQueue' = Append(requestQueue, nIssued + 1)
    /\ NotifyAll
    /\ mpc' = next
    /\ UNCHANGED <<mutex, responseQueue, cur, received, outcome, bShutdown,
                   bAbort, answered, abortCalls>>

Get_WithoutNotify(at, next) ==
    /\ mpc = at /\ mutex = "free"
    /\ nIssued' = nIssued + 1
    /\ requestQueue' = Append(requestQueue, nIssued + 1)
    /\ mpc' = next
    /\ UNCHANGED <<wpc, mutex, responseQueue, cur, received, outcome, bShutdown,
                   bAbort, answered, abortCalls>>

\* CHttpClient::Get: push the request and notify under the mutex.
Get(at, next) ==
    /\ mpc = at /\ mutex = "free"
    /\ nIssued' = nIssued + 1
    /\ requestQueue' = Append(requestQueue, nIssued + 1)
    /\ NotifyAll
    /\ mpc' = next
    /\ UNCHANGED <<mutex, responseQueue, cur, received, outcome, bShutdown,
                   bAbort, answered, abortCalls>>

\* CHttpClient::RunFrame takes the mutex for the whole loop over the responses.
RunFrameLock(at) ==
    /\ mpc = at /\ mutex = "free"
    /\ mutex' = "main"
    /\ mpc' = "callbacks"
    /\ UNCHANGED <<wpc, requestQueue, responseQueue, cur, received, outcome,
                   bShutdown, bAbort, nIssued, answered, abortCalls>>

\* Mutant: the callback's response stays in the queue.
RunCallback_NoPop(next) ==
    /\ mpc = "callbacks"
    /\ responseQueue # <<>>
    /\ Len(answered) <= nIssued
    /\ answered' = Append(answered, Head(responseQueue).id)
    /\ mpc' = next
    /\ UNCHANGED <<wpc, mutex, requestQueue, responseQueue, cur, received,
                   outcome, bShutdown, bAbort, nIssued, abortCalls>>

\* The callback of the response at the front runs, then the response is popped.
RunCallback(next) ==
    /\ mpc = "callbacks"
    /\ responseQueue # <<>>
    /\ answered' = Append(answered, Head(responseQueue).id)
    /\ responseQueue' = Tail(responseQueue)
    /\ mpc' = next
    /\ UNCHANGED <<wpc, mutex, requestQueue, cur, received, outcome,
                   bShutdown, bAbort, nIssued, abortCalls>>

RunFrameReturn(next) ==
    /\ mpc = "callbacks"
    /\ responseQueue = <<>>
    /\ mutex' = "free"
    /\ mpc' = next
    /\ UNCHANGED <<wpc, requestQueue, responseQueue, cur, received, outcome,
                   bShutdown, bAbort, nIssued, answered, abortCalls>>

\* CHttpClient::AbortCurrentDownload, without moving its caller.
RaiseAbort ==
    /\ bAbort' = TRUE
    /\ abortCalls' = IF Transferring THEN abortCalls \cup {cur} ELSE abortCalls

AbortCurrentDownload ==
    /\ mpc = "idle"
    /\ RaiseAbort
    /\ UNCHANGED <<mpc, wpc, mutex, requestQueue, responseQueue, cur, received,
                   outcome, bShutdown, nIssued, answered>>

\* Mutant: a worker blocked on the condition variable is not woken.
ShutdownSignal_WithoutNotify(at) ==
    /\ mpc = at /\ mutex = "free"
    /\ bShutdown' = TRUE
    /\ mpc' = "join"
    /\ UNCHANGED <<wpc, mutex, requestQueue, responseQueue, cur, received, outcome,
                   bAbort, nIssued, answered, abortCalls>>

\* CHttpClient::Shutdown up to the unlock.
ShutdownSignal(at) ==
    /\ mpc = at /\ mutex = "free"
    /\ bShutdown' = TRUE
    /\ NotifyAll
    /\ mpc' = "join"
    /\ UNCHANGED <<mutex, requestQueue, responseQueue, cur, received, outcome,
                   bAbort, nIssued, answered, abortCalls>>

\* m_WorkerThread.join() returns once WorkerThreadFunc has.
Join ==
    /\ mpc = "join" /\ wpc = "exit"
    /\ mpc' = "gone"
    /\ UNCHANGED <<wpc, mutex, requestQueue, responseQueue, cur, received,
                   outcome, bShutdown, bAbort, nIssued, answered, abortCalls>>

-----------------------------------------------------------------------------
(* The client by itself: the game calls its operations in any order the    *)
(* main thread allows, and a callback does nothing to the client.          *)

\* RunFrame, Get and Shutdown find the mutex free or wait for it.
Call ==
    /\ mpc = "idle"
    /\ \/ mpc' = "frame"
       \/ nIssued < MaxRequests /\ mpc' = "get"
       \/ mpc' = "shutdown"
    /\ UNCHANGED <<wpc, mutex, requestQueue, responseQueue, cur, received,
                   outcome, bShutdown, bAbort, nIssued, answered, abortCalls>>

MainStep ==
    \/ Call
    \/ Get("get", "idle")
    \/ RunFrameLock("frame") \/ RunCallback("callbacks") \/ RunFrameReturn("idle")
    \/ AbortCurrentDownload
    \/ ShutdownSignal("shutdown") \/ Join

\* Both threads are gone: nothing is left to do.
Terminated ==
    /\ mpc = "gone" /\ wpc = "exit"
    /\ UNCHANGED httpVars

\* The write callback of a request the game makes.
WriteStep ==
    \/ WriteBegins
    \/ \E accepted \in BOOLEAN : WriteData("write", accepted)

HttpNext ==
    \/ MainStep
    \/ WorkerStep
    \/ WriteStep
    \/ Terminated

HttpSpec == HttpInit /\ [][HttpNext]_httpVars

(***************************************************************************)
(* Both threads keep running.  The steps that take the mutex get strong    *)
(* fairness: the holder gives it up again and the operating system's mutex *)
(* does not starve the other of two threads.  libcurl calls the progress   *)
(* callback all through a transfer, and callbacks return.  Nothing is      *)
(* assumed about the network: a transfer may stay in "perform" for ever    *)
(* (no timeout option is set).                                             *)
(***************************************************************************)
WorkerFairness ==
    /\ SF_httpVars(WorkerExit)
    /\ SF_httpVars(WorkerPop)
    /\ SF_httpVars(WorkerRespond)
    /\ WF_httpVars(WorkerSleep)
    /\ WF_httpVars(WorkerPerform \/ WorkerPrepareFails)
    /\ WF_httpVars(ProgressSees)
    /\ WF_httpVars(ProgressCallback \/ \E accepted \in BOOLEAN : WriteData("write", accepted))

MainFairness ==
    /\ WF_httpVars(Call)
    /\ SF_httpVars(Get("get", "idle"))
    /\ SF_httpVars(RunFrameLock("frame"))
    /\ WF_httpVars(RunCallback("callbacks"))
    /\ WF_httpVars(RunFrameReturn("idle"))
    /\ SF_httpVars(ShutdownSignal("shutdown"))
    /\ WF_httpVars(Join)

FairHttpSpec == HttpSpec /\ WorkerFairness /\ MainFairness

-----------------------------------------------------------------------------
(* Properties.                                                             *)

\* The types of the client's state; the sets of strings name every place of the
\* two threads, and a busy worker has a request.
HttpTypeOK ==
    /\ mpc \in {"idle", "get", "frame", "callbacks", "shutdown", "join", "gone"}
    /\ wpc \in {"lock", "sleep", "blocked", "prepare", "perform", "write", "aborting",
               "finished", "exit"}
    /\ mutex \in {"free", "main", "worker"}
    /\ requestQueue \in Seq(Nat \ {0})
    /\ responseQueue \in Seq(Response)
    /\ cur \in Nat
    /\ Busy => cur # 0
    /\ received \in Nat
    /\ outcome \in Outcomes
    /\ bShutdown \in BOOLEAN
    /\ bAbort \in BOOLEAN
    /\ nIssued \in Nat
    /\ answered \in Seq(Nat)
    /\ abortCalls \subseteq Nat

\* Requests already answered or waiting for the main thread's next frame.
Responded == Len(answered) + Len(responseQueue)

\* Every request the main thread pushed is in exactly one place of the pipeline
\* (answered, response queue, worker, request queue), and the places hold them
\* in the order of the calls of Get: no callback is lost, repeated or reordered.
PipelineOrder ==
    /\ \A i \in 1..Len(answered) : answered[i] = i
    /\ \A i \in 1..Len(responseQueue) : responseQueue[i].id = Len(answered) + i
    /\ Busy => cur = Responded + 1
    /\ \A i \in 1..Len(requestQueue) :
          requestQueue[i] = Responded + (IF Busy THEN 1 ELSE 0) + i
    /\ nIssued = Responded + (IF Busy THEN 1 ELSE 0) + Len(requestQueue)

\* The worker never blocks on the condition variable while there is work or a
\* shutdown to see: the flag and the queue only change under the mutex that the
\* worker holds from its test of the predicate until it blocks.
NoLostWakeup == wpc = "blocked" => requestQueue = <<>> /\ ~bShutdown

\* AbortCurrentDownload only ever ends the transfer that was running when it was
\* called: a flag raised before (or by nobody's download) is reset by the worker
\* before the next transfer begins.
AbortHitsRunningTransfer ==
    \A i \in 1..Len(responseQueue) :
        responseQueue[i].outcome = "aborted" =>
            responseQueue[i].id \in abortCalls \/ bShutdown

\* A transfer that was running when AbortCurrentDownload was called is not
\* reported as a success ("Download of currently downloading file will be
\* aborted", http_client.h:129).
AbortedTransferFails ==
    \A i \in 1..Len(responseQueue) :
        responseQueue[i].id \in abortCalls => responseQueue[i].outcome # "ok"

\* CHttpClient::Shutdown returns: the worker sees m_bShutdown wherever it is,
\* also in the middle of a transfer that the network would never finish.
ShutdownJoins == mpc = "shutdown" ~> mpc = "gone"

\* If no transfer hangs for ever, the callback of every request is called, or
\* the client is being shut down.
RequestsAnswered ==
    ([]<>~Transferring) =>
        \A n \in 1..MaxRequests :
            (nIssued >= n) ~> (Len(answered) >= n \/ mpc \in {"shutdown", "join", "gone"})

Service == INSTANCE HttpService WITH issued <- nIssued, closed <- bShutdown

\* The client implements the service: whatever the two threads do, the main
\* thread sees requests accepted and callbacks called as HttpService allows.
ImplementsService == Service!ServiceSpec

=============================================================================
