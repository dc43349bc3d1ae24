-------------------------- MODULE HttpClientProofs --------------------------
(***************************************************************************)
(* What holds of CHttpClient for any number of requests and chunks.        *)
(***************************************************************************)
EXTENDS HttpClient, TLAPS

\* The steps of the client one by one, for the case splits below.
Step ==
    \/ Call \/ Get("get", "idle") \/ RunFrameLock("frame")
    \/ RunCallback("callbacks") \/ RunFrameReturn("idle")
    \/ AbortCurrentDownload \/ ShutdownSignal("shutdown") \/ Join
    \/ WorkerExit \/ WorkerPop \/ WorkerFindsNothing \/ WorkerSleep
    \/ SpuriousWakeup \/ WorkerPerform \/ WorkerPrepareFails
    \/ ProgressSees \/ ProgressCallback
    \/ TransferFails \/ TransferSucceeds \/ WorkerRespond
    \/ WriteBegins \/ \E accepted \in BOOLEAN : WriteData("write", accepted)

\* The steps of Next are those of Step, or change nothing.
LEMMA StepCases == [HttpNext]_httpVars => Step \/ UNCHANGED httpVars
BY DEF HttpNext, MainStep, WorkerStep, WriteStep, Terminated, Step

\* What a sequence is after its head has been taken.
LEMMA TailFacts ==
    ASSUME NEW S, NEW s \in Seq(S), s # <<>>
    PROVE  /\ Head(s) \in S /\ Head(s) = s[1]
           /\ Tail(s) \in Seq(S)
           /\ Len(s) \in Nat /\ Len(s) > 0
           /\ Len(Tail(s)) = Len(s) - 1
           /\ \A i \in 1..Len(Tail(s)) : Tail(s)[i] = s[i + 1]
OBVIOUS

\* What a sequence is after an element has been appended.
LEMMA AppendFacts ==
    ASSUME NEW S, NEW s \in Seq(S), NEW e \in S
    PROVE  /\ Append(s, e) \in Seq(S)
           /\ Len(s) \in Nat
           /\ Len(Append(s, e)) = Len(s) + 1
           /\ \A i \in 1..Len(s) : Append(s, e)[i] = s[i]
           /\ Append(s, e)[Len(s) + 1] = e
OBVIOUS

-----------------------------------------------------------------------------
\* The types hold initially.
LEMMA TypeInit == HttpInit => HttpTypeOK
<1> SUFFICES ASSUME HttpInit PROVE HttpTypeOK
  OBVIOUS
<1>1. <<>> \in Seq(Nat \ {0}) /\ <<>> \in Seq(Response) /\ <<>> \in Seq(Nat)
  OBVIOUS
<1>2. /\ requestQueue \in Seq(Nat \ {0})
      /\ responseQueue \in Seq(Response)
      /\ answered \in Seq(Nat)
  BY <1>1 DEF HttpInit
<1>3. QED
  BY <1>2 DEF HttpInit, HttpTypeOK, Busy, Transferring, Outcomes

\* The types of everything but the main thread's place, which is its user's.
ClientTypes ==
    /\ wpc \in {"lock", "sleep", "blocked", "prepare", "perform", "write", "aborting",
               "finished", "exit"}
    /\ mutex \in {"free", "main", "worker"}
    /\ requestQueue \in Seq(Nat \ {0})
    /\ responseQueue \in Seq(Response)
    /\ cur \in Nat
    /\ Busy => cur # 0
    /\ received \in Nat
    /\ outcome \in Outcomes
    /\ bShutdown \in BOOLEAN
    /\ bAbort \in BOOLEAN
    /\ nIssued \in Nat
    /\ answered \in Seq(Nat)
    /\ abortCalls \subseteq Nat

\* The main thread does something of its own: at most it raises the abort flag.
Elsewhere ==
    /\ UNCHANGED <<wpc, mutex, requestQueue, responseQueue, cur, received,
                   outcome, bShutdown, nIssued, answered>>
    /\ RaiseAbort \/ UNCHANGED <<bAbort, abortCalls>>

\* A step of the client for any user, wherever the user's main thread comes from
\* and goes to.
ClientStep ==
    \/ \E at, next : Get(at, next)
    \/ \E next : RunCallback(next) \/ RunFrameReturn(next)
    \/ \E at : RunFrameLock(at) \/ ShutdownSignal(at)
    \/ WorkerStep
    \/ WriteBegins
    \/ \E at \in {"perform", "write"}, accepted \in BOOLEAN : WriteData(at, accepted)
    \/ Elsewhere

\* The client by itself is such a user.
LEMMA StepIsClientStep == Step \/ UNCHANGED httpVars => ClientStep
<1>1. Call \/ Join \/ UNCHANGED httpVars => Elsewhere
  BY DEF Call, Join, httpVars, Elsewhere
<1>2. AbortCurrentDownload => Elsewhere
  BY DEF AbortCurrentDownload, Elsewhere
<1>3. QED
  BY <1>1, <1>2 DEF Step, ClientStep, WorkerStep

\* Every step keeps the types.
LEMMA ClientTypesStep == ClientTypes /\ ClientStep => ClientTypes'
<1> SUFFICES ASSUME ClientTypes, ClientStep PROVE ClientTypes'
  OBVIOUS
<1> USE DEF ClientTypes, Busy, Transferring, Outcomes
<1>1. ASSUME NEW at, NEW next, Get(at, next) PROVE ClientTypes'
  <2>1. requestQueue' \in Seq(Nat \ {0})
    BY <1>1, AppendFacts DEF Get
  <2>2. (wpc' = wpc \/ wpc' = "lock") /\ UNCHANGED cur
    BY <1>1 DEF Get, NotifyAll
  <2>3. Busy' => cur' # 0
    BY <2>2
  <2>4. QED
    BY <1>1, <2>1, <2>2, <2>3 DEF Get
<1>2. ASSUME NEW next, RunCallback(next) PROVE ClientTypes'
  <2>1. /\ Head(responseQueue) \in Response
        /\ responseQueue' \in Seq(Response)
    BY <1>2, TailFacts DEF RunCallback
  <2>2. answered' \in Seq(Nat)
    BY <1>2, <2>1, AppendFacts DEF RunCallback, Response
  <2>3. QED
    BY <1>2, <2>1, <2>2 DEF RunCallback
<1>3. ASSUME NEW next, RunFrameReturn(next) PROVE ClientTypes'
  BY <1>3 DEF RunFrameReturn
<1>4. ASSUME NEW at, RunFrameLock(at) PROVE ClientTypes'
  BY <1>4 DEF RunFrameLock
<1>5. ASSUME NEW at, ShutdownSignal(at) PROVE ClientTypes'
  BY <1>5 DEF ShutdownSignal, NotifyAll
<1>6. CASE Elsewhere
  BY <1>6 DEF Elsewhere, RaiseAbort
<1>7. CASE WorkerPop
  <2>1. /\ Head(requestQueue) \in Nat \ {0}
        /\ Tail(requestQueue) \in Seq(Nat \ {0})
    BY <1>7, TailFacts DEF WorkerPop
  <2>2. QED
    BY <1>7, <2>1 DEF WorkerPop
<1>8. CASE WorkerExit \/ WorkerFindsNothing \/ WorkerSleep \/ SpuriousWakeup
  BY <1>8 DEF WorkerExit, WorkerFindsNothing, WorkerSleep, SpuriousWakeup
<1>9. CASE WorkerPerform \/ WorkerPrepareFails
  BY <1>9 DEF WorkerPerform, WorkerPrepareFails
<1>10. CASE ProgressSees \/ ProgressCallback \/ TransferFails \/ TransferSucceeds
  BY <1>10 DEF ProgressSees, ProgressCallback, TransferFails, TransferSucceeds
<1>11. CASE WorkerRespond
  <2>1. [id |-> cur, outcome |-> outcome] \in Response
    BY DEF Response
  <2>2. responseQueue' \in Seq(Response)
    BY <1>11, <2>1, AppendFacts DEF WorkerRespond
  <2>3. QED
    BY <1>11, <2>2 DEF WorkerRespond
<1>12. CASE \/ WriteBegins
            \/ \E at \in {"perform", "write"}, accepted \in BOOLEAN : WriteData(at, accepted)
  <2>1. CASE WriteBegins
    BY <2>1 DEF WriteBegins
  <2>2. ASSUME NEW at \in {"perform", "write"}, NEW accepted \in BOOLEAN,
               WriteData(at, accepted)
        PROVE  ClientTypes'
    BY <2>2 DEF WriteData
  <2>3. QED
    BY <1>12, <2>1, <2>2
<1>13. QED
  BY <1>1, <1>2, <1>3, <1>4, <1>5, <1>6, <1>7, <1>8, <1>9, <1>10, <1>11, <1>12
     DEF ClientStep, WorkerStep

\* Every step of the client keeps the types.
LEMMA TypeStep == HttpTypeOK /\ [HttpNext]_httpVars => HttpTypeOK'
<1> SUFFICES ASSUME HttpTypeOK, Step \/ UNCHANGED httpVars
             PROVE  HttpTypeOK'
  BY StepCases
<1>1. ClientTypes'
  BY StepIsClientStep, ClientTypesStep DEF HttpTypeOK, ClientTypes
<1>2. mpc' \in {"idle", "get", "frame", "callbacks", "shutdown", "join", "gone"}
  <2>1. CASE \/ Call \/ Get("get", "idle") \/ RunFrameLock("frame")
             \/ RunCallback("callbacks") \/ RunFrameReturn("idle")
             \/ ShutdownSignal("shutdown") \/ Join
    BY <2>1 DEF Call, Get, RunFrameLock, RunCallback, RunFrameReturn, ShutdownSignal, Join
  <2>2. CASE \/ AbortCurrentDownload \/ UNCHANGED httpVars
             \/ WorkerStep \/ WriteStep
    <3>1. UNCHANGED mpc
      BY <2>2 DEF AbortCurrentDownload, httpVars, WorkerStep, WorkerExit, WorkerPop,
                  WorkerFindsNothing, WorkerSleep, SpuriousWakeup, WorkerPerform,
                  WorkerPrepareFails, ProgressSees, ProgressCallback, TransferFails,
                  TransferSucceeds, WorkerRespond, WriteStep, WriteBegins, WriteData
    <3>2. QED
      BY <3>1 DEF HttpTypeOK
  <2>3. QED
    BY <2>1, <2>2 DEF Step, WorkerStep, WriteStep
<1>3. QED
  BY <1>1, <1>2 DEF ClientTypes, HttpTypeOK, Busy, Transferring

\* The client's state is always of its types.
THEOREM TypeCorrect == HttpSpec => []HttpTypeOK
BY TypeInit, TypeStep, PTL DEF HttpSpec

-----------------------------------------------------------------------------
(* The pipeline.  PipelineOrder is inductive once the types are known.      *)

\* The pipeline is empty initially.
LEMMA PipelineInit == HttpInit => PipelineOrder
BY DEF HttpInit, PipelineOrder, Responded, Busy, Transferring

\* Appending to one of the sequences or taking its head moves a request to the
\* next place; every other step leaves all the places as they are.
LEMMA ClientPipelineStep ==
    ClientTypes /\ PipelineOrder /\ ClientStep => PipelineOrder'
<1> SUFFICES ASSUME ClientTypes, PipelineOrder, ClientStep
             PROVE  PipelineOrder'
  OBVIOUS
<1> DEFINE InFlight == IF Busy THEN 1 ELSE 0
<1>0. /\ Len(answered) \in Nat /\ Len(responseQueue) \in Nat
      /\ Len(requestQueue) \in Nat /\ nIssued \in Nat
  BY DEF ClientTypes
<1>1. ASSUME NEW at, NEW next, Get(at, next) PROVE PipelineOrder'
  <2>1. /\ Len(requestQueue') = Len(requestQueue) + 1
        /\ \A i \in 1..Len(requestQueue) : requestQueue'[i] = requestQueue[i]
        /\ requestQueue'[Len(requestQueue) + 1] = nIssued + 1
    BY <1>1, AppendFacts DEF Get, ClientTypes
  <2>2. Busy' = Busy
    BY <1>1 DEF Get, NotifyAll, Busy, Transferring
  <2>3. UNCHANGED <<answered, responseQueue, cur>> /\ nIssued' = nIssued + 1
    BY <1>1 DEF Get
  <2>4. Responded' = Responded /\ Responded \in Nat
    BY <1>0, <2>3 DEF Responded
  <2>5. ASSUME NEW i \in 1..Len(requestQueue')
        PROVE  requestQueue'[i] = Responded + InFlight + i
    <3>0. nIssued = Responded + InFlight + Len(requestQueue) /\ InFlight \in Nat
      BY DEF PipelineOrder
    <3>1. CASE i = Len(requestQueue) + 1
      <4> HIDE DEF InFlight
      <4> QED
        BY <1>0, <2>1, <2>4, <3>0, <3>1
    <3>2. CASE i \in 1..Len(requestQueue)
      BY <2>1, <3>2 DEF PipelineOrder
    <3>3. QED
      BY <1>0, <2>1, <3>1, <3>2
  <2>6. QED
    BY <1>0, <2>1, <2>2, <2>3, <2>4, <2>5 DEF PipelineOrder
<1>2. ASSUME NEW next, RunCallback(next) PROVE PipelineOrder'
  <2>1. /\ Len(responseQueue) > 0
        /\ Len(responseQueue') = Len(responseQueue) - 1
        /\ \A i \in 1..Len(responseQueue') : responseQueue'[i] = responseQueue[i + 1]
        /\ Head(responseQueue) = responseQueue[1]
        /\ responseQueue[1] \in Response
    BY <1>2, TailFacts DEF RunCallback, ClientTypes
  <2>2. responseQueue[1].id = Len(answered) + 1
    BY <1>0, <2>1 DEF PipelineOrder
  <2>3. /\ Len(answered') = Len(answered) + 1
        /\ \A i \in 1..Len(answered) : answered'[i] = answered[i]
        /\ answered'[Len(answered) + 1] = Len(answered) + 1
    <3>1. answered' = Append(answered, Len(answered) + 1)
      BY <1>2, <2>1, <2>2 DEF RunCallback
    <3>2. answered \in Seq(Nat) /\ Len(answered) + 1 \in Nat
      BY <1>0 DEF ClientTypes
    <3>3. QED
      BY <3>1, <3>2, AppendFacts
  <2>4. UNCHANGED <<wpc, cur, requestQueue, nIssued>>
    BY <1>2 DEF RunCallback
  <2>5. Responded' = Responded /\ Busy' = Busy
    BY <1>0, <2>1, <2>3, <2>4 DEF Responded, Busy, Transferring
  <2>6. ASSUME NEW i \in 1..Len(answered') PROVE answered'[i] = i
    <3>1. CASE i \in 1..Len(answered)
      BY <2>3, <3>1 DEF PipelineOrder
    <3>2. CASE i = Len(answered) + 1
      BY <2>3, <3>2
    <3>3. QED
      BY <1>0, <2>3, <3>1, <3>2
  <2>7. ASSUME NEW i \in 1..Len(responseQueue')
        PROVE  responseQueue'[i].id = Len(answered') + i
    <3>1. i + 1 \in 1..Len(responseQueue)
      BY <1>0, <2>1
    <3>2. responseQueue[i + 1].id = Len(answered) + (i + 1)
      BY <3>1 DEF PipelineOrder
    <3>3. QED
      BY <1>0, <2>1, <2>3, <3>2
  <2>8. QED
    BY <2>4, <2>5, <2>6, <2>7 DEF PipelineOrder
<1>3. CASE WorkerPop
  <2>1. /\ Len(requestQueue) > 0
        /\ Len(requestQueue') = Len(requestQueue) - 1
        /\ \A i \in 1..Len(requestQueue') : requestQueue'[i] = requestQueue[i + 1]
        /\ cur' = requestQueue[1]
    BY <1>3, TailFacts DEF WorkerPop, ClientTypes
  <2>2. ~Busy /\ Busy'
    BY <1>3 DEF WorkerPop, Busy, Transferring
  <2>3. UNCHANGED <<answered, responseQueue, nIssued>>
    BY <1>3 DEF WorkerPop
  <2>4. QED
    BY <1>0, <2>1, <2>2, <2>3 DEF PipelineOrder, Responded
<1>4. CASE WorkerRespond
  <2>1. [id |-> cur, outcome |-> outcome] \in Response
    BY DEF Response, ClientTypes
  <2>2. /\ Len(responseQueue') = Len(responseQueue) + 1
        /\ \A i \in 1..Len(responseQueue) : responseQueue'[i] = responseQueue[i]
        /\ responseQueue'[Len(responseQueue) + 1].id = cur
    BY <1>4, <2>1, AppendFacts DEF WorkerRespond, ClientTypes
  <2>3. Busy /\ ~Busy'
    BY <1>4 DEF WorkerRespond, Busy, Transferring
  <2>4. UNCHANGED <<answered, requestQueue, cur, nIssued>>
    BY <1>4 DEF WorkerRespond
  <2>5. Responded' = Responded + 1 /\ Responded \in Nat
    BY <1>0, <2>2, <2>4 DEF Responded
  <2>6. cur = Len(answered) + Len(responseQueue) + 1
    BY <2>3 DEF PipelineOrder, Responded
  <2>7. ASSUME NEW i \in 1..Len(responseQueue')
        PROVE  responseQueue'[i].id = Len(answered) + i
    <3>1. CASE i = Len(responseQueue) + 1
      BY <1>0, <2>2, <2>6, <3>1
    <3>2. CASE i \in 1..Len(responseQueue)
      BY <2>2, <3>2 DEF PipelineOrder
    <3>3. QED
      BY <1>0, <2>2, <3>1, <3>2
  <2>8. QED
    BY <1>0, <2>3, <2>4, <2>5, <2>7 DEF PipelineOrder
<1>5. ASSUME Busy' = Busy, UNCHANGED <<answered, responseQueue, requestQueue, cur, nIssued>>
      PROVE  PipelineOrder'
  BY <1>5 DEF PipelineOrder, Responded
<1>6. ASSUME NEW next, RunFrameReturn(next) PROVE PipelineOrder'
  BY <1>5, <1>6 DEF RunFrameReturn, Busy, Transferring
<1>a. ASSUME NEW at, RunFrameLock(at) \/ ShutdownSignal(at) PROVE PipelineOrder'
  BY <1>5, <1>a DEF RunFrameLock, ShutdownSignal, NotifyAll, Busy, Transferring
<1>7. CASE \/ WorkerExit \/ WorkerFindsNothing \/ WorkerSleep \/ SpuriousWakeup
           \/ WorkerPerform \/ WorkerPrepareFails
  BY <1>5, <1>7 DEF WorkerExit, WorkerFindsNothing, WorkerSleep, SpuriousWakeup,
                    WorkerPerform, WorkerPrepareFails, Busy, Transferring
<1>8. CASE \/ ProgressSees \/ ProgressCallback \/ TransferFails \/ TransferSucceeds
           \/ WriteBegins
           \/ \E at \in {"perform", "write"}, accepted \in BOOLEAN : WriteData(at, accepted)
  BY <1>5, <1>8 DEF ProgressSees, ProgressCallback, TransferFails, TransferSucceeds,
                    WriteBegins, WriteData, Busy, Transferring
<1>9. CASE Elsewhere
  BY <1>5, <1>9 DEF Elsewhere, Busy, Transferring
<1>10. QED
  BY <1>1, <1>2, <1>3, <1>4, <1>6, <1>a, <1>7, <1>8, <1>9 DEF ClientStep, WorkerStep

\* Every step of the client keeps the order.
LEMMA PipelineStep ==
    HttpTypeOK /\ PipelineOrder /\ [HttpNext]_httpVars => PipelineOrder'
<1>1. HttpTypeOK => ClientTypes
  BY DEF HttpTypeOK, ClientTypes
<1>2. QED
  BY <1>1, StepCases, StepIsClientStep, ClientPipelineStep

\* Every request is in exactly one place of the pipeline, in the order of Get.
THEOREM PipelineCorrect == HttpSpec => []PipelineOrder
<1>1. HttpInit => HttpTypeOK /\ PipelineOrder
  BY TypeInit, PipelineInit
<1>2. (HttpTypeOK /\ PipelineOrder) /\ [HttpNext]_httpVars
        => (HttpTypeOK /\ PipelineOrder)'
  BY TypeStep, PipelineStep
<1>3. QED
  BY <1>1, <1>2, PTL DEF HttpSpec

-----------------------------------------------------------------------------
(* The mutex and the condition variable.                                   *)

\* Who holds the mutex between steps, what the worker knows while it goes to
\* sleep, and that the client is only shut down once.
LockInv ==
    /\ mutex = "worker" <=> wpc = "sleep"
    /\ mutex = "main" <=> mpc = "callbacks"
    /\ wpc \in {"sleep", "blocked"} => requestQueue = <<>> /\ ~bShutdown
    /\ bShutdown => mpc \in {"join", "gone"}

\* LockInv holds initially.
LEMMA LockInit == HttpInit => LockInv
BY DEF HttpInit, LockInv

\* Every step keeps LockInv.
LEMMA LockStep == HttpTypeOK /\ LockInv /\ [HttpNext]_httpVars => LockInv'
<1> SUFFICES ASSUME HttpTypeOK, LockInv, Step \/ UNCHANGED httpVars
             PROVE  LockInv'
  BY StepCases
<1> USE DEF LockInv, HttpTypeOK
<1>1. CASE Call
  BY <1>1 DEF Call
<1>2. CASE Get("get", "idle")
  BY <1>2 DEF Get, NotifyAll
<1>3. CASE RunFrameLock("frame") \/ RunCallback("callbacks") \/ RunFrameReturn("idle")
  BY <1>3 DEF RunFrameLock, RunCallback, RunFrameReturn
<1>4. CASE AbortCurrentDownload
  BY <1>4 DEF AbortCurrentDownload
<1>5. CASE ShutdownSignal("shutdown") \/ Join
  BY <1>5 DEF ShutdownSignal, NotifyAll, Join
<1>6. CASE WorkerExit \/ WorkerPop
  BY <1>6 DEF WorkerExit, WorkerPop
<1>7. CASE WorkerFindsNothing \/ WorkerSleep \/ SpuriousWakeup
  BY <1>7 DEF WorkerFindsNothing, WorkerSleep, SpuriousWakeup
<1>8. CASE WorkerPerform \/ WorkerPrepareFails
  BY <1>8 DEF WorkerPerform, WorkerPrepareFails
<1>9. CASE \/ ProgressSees \/ ProgressCallback \/ TransferFails \/ TransferSucceeds
           \/ WriteBegins \/ \E accepted \in BOOLEAN : WriteData("write", accepted)
  BY <1>9 DEF ProgressSees, ProgressCallback, TransferFails, TransferSucceeds,
              WriteBegins, WriteData
<1>10. CASE WorkerRespond
  BY <1>10 DEF WorkerRespond
<1>11. CASE UNCHANGED httpVars
  BY <1>11 DEF httpVars
<1>12. QED
  BY <1>1, <1>2, <1>3, <1>4, <1>5, <1>6, <1>7, <1>8, <1>9, <1>10, <1>11 DEF Step

\* The worker never blocks while there is something for it to do.
THEOREM WakeupCorrect == HttpSpec => []NoLostWakeup
<1>1. HttpInit => HttpTypeOK /\ LockInv
  BY TypeInit, LockInit
<1>2. (HttpTypeOK /\ LockInv) /\ [HttpNext]_httpVars => (HttpTypeOK /\ LockInv)'
  BY TypeStep, LockStep
<1>3. LockInv => NoLostWakeup
  BY DEF LockInv, NoLostWakeup
<1>4. QED
  BY <1>1, <1>2, <1>3, PTL DEF HttpSpec

-----------------------------------------------------------------------------
(* Aborting a download.                                                    *)

\* How many requests have left the request queue.
Taken == nIssued - Len(requestQueue)

\* The flag follows the marked requests: only a request whose transfer has begun
\* is marked, and while it runs the flag is up exactly when it is, until the
\* progress callback has seen it and is going to clear it; how the transfer ends
\* and what is queued for the main thread agree with the mark.
AbortInv ==
    /\ abortCalls \subseteq 1..Taken
    /\ wpc = "prepare" => cur \notin abortCalls
    /\ wpc \in {"perform", "write"} => (bAbort <=> cur \in abortCalls)
    /\ wpc = "aborting" => cur \in abortCalls \/ bShutdown
    /\ wpc = "finished" /\ outcome = "aborted" => cur \in abortCalls \/ bShutdown
    /\ wpc = "finished" /\ cur \in abortCalls => outcome # "ok"
    /\ AbortHitsRunningTransfer
    /\ AbortedTransferFails

\* Where the pipeline puts the worker's request and the waiting responses.
LEMMA TakenFacts ==
    ASSUME HttpTypeOK, PipelineOrder
    PROVE  /\ Taken \in Nat
           /\ Busy => cur = Taken
           /\ Busy => \A i \in 1..Len(responseQueue) : responseQueue[i].id # cur
           /\ requestQueue # <<>> => Head(requestQueue) = Taken + 1
<1>1. /\ Len(answered) \in Nat /\ Len(responseQueue) \in Nat
      /\ Len(requestQueue) \in Nat /\ nIssued \in Nat
  BY DEF HttpTypeOK
<1>2. Responded \in Nat
  BY <1>1 DEF Responded
<1>3. nIssued = Responded + (IF Busy THEN 1 ELSE 0) + Len(requestQueue)
  BY DEF PipelineOrder
<1>4. Taken = Responded + (IF Busy THEN 1 ELSE 0)
  BY <1>1, <1>2, <1>3 DEF Taken
<1>5. Busy => cur = Responded + 1
  BY DEF PipelineOrder
<1>6. ASSUME Busy, NEW i \in 1..Len(responseQueue) PROVE responseQueue[i].id # cur
  <2>1. responseQueue[i].id = Len(answered) + i
    BY DEF PipelineOrder
  <2>2. QED
    BY <1>1, <1>5, <1>6, <2>1 DEF Responded
<1>7. ASSUME requestQueue # <<>> PROVE Head(requestQueue) = Taken + 1
  <2>1. Len(requestQueue) > 0 /\ Head(requestQueue) = requestQueue[1]
    BY <1>7, TailFacts DEF HttpTypeOK
  <2>2. requestQueue[1] = Responded + (IF Busy THEN 1 ELSE 0) + 1
    BY <1>1, <2>1 DEF PipelineOrder
  <2>3. QED
    BY <1>4, <2>1, <2>2
<1>8. QED
  BY <1>2, <1>4, <1>5, <1>6, <1>7

\* Responses that stay, or whose first is taken, agree with the marks as before.
LEMMA ResponsesStay ==
    ASSUME HttpTypeOK, AbortHitsRunningTransfer, AbortedTransferFails,
           UNCHANGED abortCalls, bShutdown => bShutdown',
           \/ UNCHANGED responseQueue
           \/ responseQueue # <<>> /\ responseQueue' = Tail(responseQueue)
    PROVE  AbortHitsRunningTransfer' /\ AbortedTransferFails'
<1>1. CASE UNCHANGED responseQueue
  BY <1>1 DEF AbortHitsRunningTransfer, AbortedTransferFails
<1>2. CASE responseQueue # <<>> /\ responseQueue' = Tail(responseQueue)
  <2>1. /\ Len(responseQueue) \in Nat
        /\ Len(responseQueue') = Len(responseQueue) - 1
        /\ \A i \in 1..Len(responseQueue') : responseQueue'[i] = responseQueue[i + 1]
    BY <1>2, TailFacts DEF HttpTypeOK
  <2>2. \A i \in 1..Len(responseQueue') : i + 1 \in 1..Len(responseQueue)
    BY <2>1
  <2>3. QED
    BY <2>1, <2>2 DEF AbortHitsRunningTransfer, AbortedTransferFails
<1>3. QED
  BY <1>1, <1>2

\* Nothing is marked initially.
LEMMA AbortInit == HttpInit => AbortInv
BY DEF HttpInit, AbortInv, AbortHitsRunningTransfer, AbortedTransferFails

\* Every step keeps the flag in agreement with the marked requests.
LEMMA AbortStep ==
    HttpTypeOK /\ PipelineOrder /\ AbortInv /\ [HttpNext]_httpVars => AbortInv'
<1> SUFFICES ASSUME HttpTypeOK, PipelineOrder, AbortInv, Step \/ UNCHANGED httpVars
             PROVE  AbortInv'
  BY StepCases
<1>0. /\ Taken \in Nat
      /\ Busy => cur = Taken
      /\ Busy => \A i \in 1..Len(responseQueue) : responseQueue[i].id # cur
  BY TakenFacts
<1>a. AbortHitsRunningTransfer /\ AbortedTransferFails
  BY DEF AbortInv
<1>1. CASE \/ Call \/ RunFrameLock("frame") \/ RunFrameReturn("idle") \/ Join
  <2>1. UNCHANGED <<wpc, requestQueue, responseQueue, cur, outcome, bShutdown,
                    bAbort, nIssued, abortCalls>>
    BY <1>1 DEF Call, RunFrameLock, RunFrameReturn, Join
  <2>2. AbortHitsRunningTransfer' /\ AbortedTransferFails'
    BY <1>a, <2>1, ResponsesStay
  <2>3. QED
    BY <2>1, <2>2 DEF AbortInv, Taken
<1>2. CASE Get("get", "idle")
  <2>1. /\ UNCHANGED <<responseQueue, cur, outcome, bShutdown, bAbort, abortCalls>>
        /\ wpc' = wpc \/ wpc' = "lock"
    BY <1>2 DEF Get, NotifyAll
  <2>2. UNCHANGED Taken
    <3>1. Len(requestQueue') = Len(requestQueue) + 1 /\ nIssued' = nIssued + 1
      BY <1>2, AppendFacts DEF Get, HttpTypeOK
    <3>2. Len(requestQueue) \in Nat /\ nIssued \in Nat
      BY DEF HttpTypeOK
    <3>3. QED
      BY <3>1, <3>2 DEF Taken
  <2>3. AbortHitsRunningTransfer' /\ AbortedTransferFails'
    BY <1>a, <2>1, ResponsesStay
  <2>4. QED
    BY <2>1, <2>2, <2>3 DEF AbortInv
<1>3. CASE RunCallback("callbacks")
  <2>1. UNCHANGED <<wpc, requestQueue, cur, outcome, bShutdown, bAbort, nIssued, abortCalls>>
    BY <1>3 DEF RunCallback
  <2>2. AbortHitsRunningTransfer' /\ AbortedTransferFails'
    BY <1>3, <1>a, <2>1, ResponsesStay DEF RunCallback
  <2>3. QED
    BY <2>1, <2>2 DEF AbortInv, Taken
<1>4. CASE AbortCurrentDownload
  <2>1. /\ UNCHANGED <<wpc, requestQueue, responseQueue, cur, outcome, bShutdown, nIssued>>
        /\ bAbort' = TRUE
        /\ abortCalls' = IF Transferring THEN abortCalls \cup {cur} ELSE abortCalls
    BY <1>4 DEF AbortCurrentDownload, RaiseAbort
  <2>2. CASE Transferring
    <3>1. cur = Taken /\ cur \in 1..Taken
      BY <1>0, <2>2 DEF Busy, HttpTypeOK
    <3>2. \A i \in 1..Len(responseQueue) : responseQueue[i].id # cur
      BY <1>0, <2>2 DEF Busy
    <3>3. AbortHitsRunningTransfer' /\ AbortedTransferFails'
      BY <1>a, <2>1, <2>2, <3>2 DEF AbortHitsRunningTransfer, AbortedTransferFails
    <3>4. QED
      BY <2>1, <2>2, <3>1, <3>3 DEF AbortInv, Taken, Transferring
  <2>3. CASE ~Transferring
    <3>1. AbortHitsRunningTransfer' /\ AbortedTransferFails'
      BY <1>a, <2>1, <2>3, ResponsesStay
    <3>2. QED
      BY <2>1, <2>3, <3>1 DEF AbortInv, Taken, Transferring
  <2>4. QED
    BY <2>2, <2>3
<1>5. CASE ShutdownSignal("shutdown")
  <2>1. /\ UNCHANGED <<requestQueue, responseQueue, cur, outcome, bAbort, nIssued, abortCalls>>
        /\ wpc' = wpc \/ wpc' = "lock"
        /\ bShutdown' = TRUE
    BY <1>5 DEF ShutdownSignal, NotifyAll
  <2>2. AbortHitsRunningTransfer' /\ AbortedTransferFails'
    BY <1>a, <2>1, ResponsesStay
  <2>3. QED
    BY <2>1, <2>2 DEF AbortInv, Taken
<1>6. CASE WorkerPop
  <2>1. /\ UNCHANGED <<responseQueue, outcome, bShutdown, bAbort, nIssued, abortCalls>>
        /\ wpc' = "prepare"
    BY <1>6 DEF WorkerPop
  <2>2. Taken' = Taken + 1
    <3>1. Len(requestQueue') = Len(requestQueue) - 1
      BY <1>6, TailFacts DEF WorkerPop, HttpTypeOK
    <3>2. Len(requestQueue) \in Nat /\ nIssued \in Nat
      BY DEF HttpTypeOK
    <3>3. QED
      BY <2>1, <3>1, <3>2 DEF Taken
  <2>3. cur' = Taken'
    BY <1>6, <2>2, TakenFacts DEF WorkerPop
  <2>4. AbortHitsRunningTransfer' /\ AbortedTransferFails'
    BY <1>a, <2>1, ResponsesStay
  <2>5. QED
    BY <1>0, <2>1, <2>2, <2>3, <2>4 DEF AbortInv
<1>7. CASE WorkerExit \/ WorkerFindsNothing \/ WorkerSleep \/ SpuriousWakeup
  <2>1. /\ UNCHANGED <<requestQueue, responseQueue, cur, outcome, bShutdown, bAbort,
                       nIssued, abortCalls>>
        /\ wpc' \in {"exit", "sleep", "blocked", "lock"}
    BY <1>7 DEF WorkerExit, WorkerFindsNothing, WorkerSleep, SpuriousWakeup
  <2>2. AbortHitsRunningTransfer' /\ AbortedTransferFails'
    BY <1>a, <2>1, ResponsesStay
  <2>3. QED
    BY <2>1, <2>2 DEF AbortInv, Taken
<1>8. CASE WorkerPerform
  <2>1. /\ UNCHANGED <<requestQueue, responseQueue, cur, outcome, bShutdown, nIssued, abortCalls>>
        /\ wpc = "prepare" /\ wpc' = "perform" /\ bAbort' = FALSE
    BY <1>8 DEF WorkerPerform
  <2>2. AbortHitsRunningTransfer' /\ AbortedTransferFails'
    BY <1>a, <2>1, ResponsesStay
  <2>3. QED
    BY <2>1, <2>2 DEF AbortInv, Taken
<1>9. CASE \/ WorkerPrepareFails \/ ProgressSees \/ ProgressCallback
           \/ TransferFails \/ TransferSucceeds
           \/ WriteBegins \/ \E accepted \in BOOLEAN : WriteData("write", accepted)
  <2>1. /\ UNCHANGED <<requestQueue, responseQueue, cur, bShutdown, nIssued, abortCalls>>
        /\ \/ /\ wpc \in {"perform", "write"} /\ wpc' \in {"perform", "write"}
              /\ UNCHANGED bAbort
           \/ wpc = "perform" /\ wpc' = "aborting" /\ (bAbort \/ bShutdown)
           \/ wpc' = "finished" /\ outcome' = "failed"
           \/ wpc = "aborting" /\ wpc' = "finished" /\ outcome' = "aborted"
           \/ wpc = "perform" /\ wpc' = "finished" /\ outcome' = "ok" /\ ~bAbort
    BY <1>9 DEF WorkerPrepareFails, ProgressSees, ProgressCallback, TransferFails,
                TransferSucceeds, WriteBegins, WriteData
  <2>2. AbortHitsRunningTransfer' /\ AbortedTransferFails'
    BY <1>a, <2>1, ResponsesStay
  <2>3. QED
    BY <2>1, <2>2 DEF AbortInv, Taken
<1>10. CASE WorkerRespond
  <2>1. /\ UNCHANGED <<requestQueue, bShutdown, bAbort, nIssued, abortCalls, cur, outcome>>
        /\ wpc = "finished" /\ wpc' = "lock"
    BY <1>10 DEF WorkerRespond
  <2>2. [id |-> cur, outcome |-> outcome] \in Response
    BY DEF Response, HttpTypeOK
  <2>3. /\ Len(responseQueue) \in Nat
        /\ Len(responseQueue') = Len(responseQueue) + 1
        /\ \A i \in 1..Len(responseQueue) : responseQueue'[i] = responseQueue[i]
        /\ responseQueue'[Len(responseQueue) + 1] = [id |-> cur, outcome |-> outcome]
    BY <1>10, <2>2, AppendFacts DEF WorkerRespond, HttpTypeOK
  <2>4. \A i \in 1..Len(responseQueue') :
            i \in 1..Len(responseQueue) \/ i = Len(responseQueue) + 1
    BY <2>3
  <2>5. AbortHitsRunningTransfer'
    BY <1>a, <2>1, <2>3, <2>4 DEF AbortInv, AbortHitsRunningTransfer
  <2>6. AbortedTransferFails'
    BY <1>a, <2>1, <2>3, <2>4 DEF AbortInv, AbortedTransferFails
  <2>7. QED
    BY <2>1, <2>5, <2>6 DEF AbortInv, Taken
<1>11. CASE UNCHANGED httpVars
  <2>1. AbortHitsRunningTransfer' /\ AbortedTransferFails'
    BY <1>11, <1>a, ResponsesStay DEF httpVars
  <2>2. QED
    BY <1>11, <2>1 DEF httpVars, AbortInv, Taken
<1>12. QED
  BY <1>1, <1>2, <1>3, <1>4, <1>5, <1>6, <1>7, <1>8, <1>9, <1>10, <1>11 DEF Step

\* The abort flag and the marked requests always agree.
LEMMA AbortInvariant == HttpSpec => []AbortInv
<1>1. HttpInit => HttpTypeOK /\ PipelineOrder /\ AbortInv
  BY TypeInit, PipelineInit, AbortInit
<1>2. (HttpTypeOK /\ PipelineOrder /\ AbortInv) /\ [HttpNext]_httpVars
        => (HttpTypeOK /\ PipelineOrder /\ AbortInv)'
  BY TypeStep, PipelineStep, AbortStep
<1>3. QED
  BY <1>1, <1>2, PTL DEF HttpSpec

\* A transfer is only reported as aborted when AbortCurrentDownload was called
\* while it ran, or the client is shut down: the flag never leaks into the next
\* transfer.
THEOREM AbortIsTargeted == HttpSpec => []AbortHitsRunningTransfer
<1>1. AbortInv => AbortHitsRunningTransfer
  BY DEF AbortInv
<1>2. QED
  BY <1>1, AbortInvariant, PTL

\* A transfer that AbortCurrentDownload was to end is not reported as a success.
THEOREM AbortIsHonoured == HttpSpec => []AbortedTransferFails
<1>1. AbortInv => AbortedTransferFails
  BY DEF AbortInv
<1>2. QED
  BY <1>1, AbortInvariant, PTL

-----------------------------------------------------------------------------
(* The client implements the service.                                      *)

\* The client starts as the service does.
LEMMA ServiceInitially == HttpInit => Service!ServiceInit
BY DEF HttpInit, Service!ServiceInit

\* Get is Accept, a callback is Answer, the signal of Shutdown is Close; all
\* other steps are the client's own.
LEMMA ServiceStep ==
    HttpTypeOK /\ PipelineOrder /\ LockInv /\ [HttpNext]_httpVars
      => [Service!ServiceNext]_Service!serviceVars
<1> SUFFICES ASSUME HttpTypeOK, PipelineOrder, LockInv, Step \/ UNCHANGED httpVars
             PROVE  Service!ServiceNext \/ UNCHANGED Service!serviceVars
  BY StepCases
<1>1. CASE Get("get", "idle")
  <2>1. ~bShutdown
    BY <1>1 DEF Get, LockInv
  <2>2. Service!Accept
    BY <1>1, <2>1 DEF Get, Service!Accept
  <2>3. QED
    BY <2>2 DEF Service!ServiceNext
<1>2. CASE RunCallback("callbacks")
  <2>1. ~bShutdown
    BY <1>2 DEF RunCallback, LockInv
  <2>2. /\ Len(responseQueue) > 0
        /\ Len(responseQueue) \in Nat /\ Len(requestQueue) \in Nat /\ Len(answered) \in Nat
        /\ Head(responseQueue) = responseQueue[1]
    BY <1>2, TailFacts DEF RunCallback, HttpTypeOK
  <2>3. responseQueue[1].id = Len(answered) + 1
    BY <2>2 DEF PipelineOrder
  <2>4. Len(answered) < nIssued
    BY <2>2 DEF PipelineOrder, Responded
  <2>5. Service!Answer
    BY <1>2, <2>1, <2>2, <2>3, <2>4 DEF RunCallback, Service!Answer
  <2>6. QED
    BY <2>5 DEF Service!ServiceNext
<1>3. CASE ShutdownSignal("shutdown")
  <2>1. Service!Close
    BY <1>3 DEF ShutdownSignal, LockInv, Service!Close
  <2>2. QED
    BY <2>1 DEF Service!ServiceNext
<1>4. CASE \/ Call \/ RunFrameLock("frame") \/ RunFrameReturn("idle")
           \/ AbortCurrentDownload \/ Join \/ UNCHANGED httpVars
  BY <1>4 DEF Call, RunFrameLock, RunFrameReturn, AbortCurrentDownload, Join, httpVars,
              Service!serviceVars
<1>5. CASE \/ WorkerExit \/ WorkerPop \/ WorkerFindsNothing \/ WorkerSleep
           \/ SpuriousWakeup \/ WorkerPerform \/ WorkerPrepareFails
  BY <1>5 DEF WorkerExit, WorkerPop, WorkerFindsNothing, WorkerSleep, SpuriousWakeup,
              WorkerPerform, WorkerPrepareFails, Service!serviceVars
<1>6. CASE \/ ProgressSees \/ ProgressCallback \/ TransferFails \/ TransferSucceeds
           \/ WorkerRespond
           \/ WriteBegins \/ \E accepted \in BOOLEAN : WriteData("write", accepted)
  BY <1>6 DEF ProgressSees, ProgressCallback, TransferFails, TransferSucceeds, WorkerRespond,
              WriteBegins, WriteData, Service!serviceVars
<1>7. QED
  BY <1>1, <1>2, <1>3, <1>4, <1>5, <1>6 DEF Step

\* Whatever the threads do, the main thread sees the abstract service.
THEOREM Implementation == HttpSpec => ImplementsService
<1>1. HttpInit => HttpTypeOK /\ PipelineOrder /\ LockInv
  BY TypeInit, PipelineInit, LockInit
<1>2. (HttpTypeOK /\ PipelineOrder /\ LockInv) /\ [HttpNext]_httpVars
        => (HttpTypeOK /\ PipelineOrder /\ LockInv)'
  BY TypeStep, PipelineStep, LockStep
<1>3. QED
  BY <1>1, <1>2, ServiceInitially, ServiceStep, PTL
     DEF HttpSpec, ImplementsService, Service!ServiceSpec

=============================================================================
