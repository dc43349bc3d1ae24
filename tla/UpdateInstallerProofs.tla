------------------------ MODULE UpdateInstallerProofs ------------------------
(***************************************************************************)
(* What holds of CUpdateInstaller, over the HTTP client, for any number of *)
(* sessions, update checks, files and chunks.                              *)
(***************************************************************************)
EXTENDS UpdateInstaller, HttpClientProofs

\* Requests of an installer, for whatever session, not answered yet.
Downloads == {n \in Unanswered : purpose[n] # 0}

\* The types, with what makes the steps keep them: each request has a purpose,
\* and the replace dialog is only open with a file to ask about.
Types ==
    /\ ClientTypes
    /\ InstallerTypeOK
    /\ Len(purpose) = nIssued
    /\ status = "Confirming" => filesToAsk > 0

\* What the place of the main thread says of the session and its directory.
Places ==
    /\ ~inProcess => status = "None" /\ dirs \subseteq undeleted /\ ~zip.open
    /\ inProcess => session > 0
    /\ dirs \subseteq {tempDir} \cup undeleted
    /\ mpc = "start" => inProcess /\ status = "None" /\ tempDir = 0
    /\ mpc = "prepared" => inProcess /\ status = "None" /\ tempDir \in dirs
    /\ mpc = "get zip" => inProcess /\ status = "Downloading"
    /\ mpc \in {"spin", "quit spin"} => status \in {"Extracting", "Hashing", "None"}
    /\ mpc \in {"shutdown", "join", "gone"} => ~inProcess
    /\ mpc = "gone" => wpc = "exit"

\* A stage of a session has its directory and, between two steps of the main
\* thread, its task.
Staged ==
    /\ status # "None" => tempDir \in dirs
    /\ task.pc # "none" => task.kind \in Stages
    /\ inProcess /\ mpc \notin {"start", "prepared", "spin", "quit spin"} =>
          status # "None" /\ (status \in Stages => task.kind = status)

\* What is waited for is on its way.
Requested ==
    /\ inProcess /\ status = "Downloading" /\ mpc # "get zip" =>
          \E n \in Unanswered : purpose[n] = session
    /\ CheckIsUnderway

\* As long as no session has met an older one's download: at most one is alive,
\* and none but in the stage that waits for it ...
OneDownload ==
    /\ \A n, m \in Downloads : n = m
    /\ inProcess /\ (status # "Downloading" \/ mpc = "get zip") => Downloads = {}

\* ... a task is the session's own until it has returned or answered an abort ...
OwnTask ==
    /\ oldTask = NoTask
    /\ task.pc \in {"run", "final"} => inProcess /\ status = task.kind
    /\ task.pc = "clear" => inProcess /\ abortRequested
    /\ mpc \in {"spin", "quit spin"} /\ ~abortRequested => Released(task)

\* ... and the exit commands are replaced while files are installed.  "_restart"
\* is not put back after the first installation.
Replaced(c) == cmdFn[c] = "stub" /\ savedFn[c] = "engine"
Original(c) == cmdFn[c] = "engine" /\ savedFn[c] = "null"

ExitBlocked ==
    /\ Replaced("_restart") \/ Original("_restart")
    /\ IF status = "Installing"
       THEN Replaced("quit") /\ Replaced("_restart")
       ELSE Original("quit")

InstallerInv ==
    /\ Types
    /\ PipelineOrder
    /\ AbortIsAwaited
    /\ Places
    /\ Staged
    /\ Requested
    /\ ~overlapped => OneDownload /\ OwnTask /\ ExitBlocked

-----------------------------------------------------------------------------
(* The steps *)

\* Where the main thread is when RunFrame polls or has polled.
Polling == {"idle", "poll", "wait install", "quit install"}

\* The installer's state is left alone and no request comes or goes: the steps
\* of the client's worker and of the main thread from one place to another.
Quiet ==
    /\ UNCHANGED <<installerVars, answered, nIssued>>
    /\ \/ mpc' = mpc /\ (wpc = "exit" => wpc' = "exit")
       \/ mpc \in Polling \cup {"callbacks"} /\ mpc' \in Polling \cup {"callbacks"}
       \/ mpc \in Polling /\ mpc' = "shutdown" /\ ~inProcess
       \/ mpc = "shutdown" /\ mpc' = "join"
       \/ mpc = "join" /\ mpc' = "gone" /\ wpc' = "exit"

\* The steps of the installer one by one, for the case splits below.
InstallerStep ==
    \/ Quiet \/ TaskStep \/ ZipSeesAbort \/ ZipWrites
    \/ CheckAnswered \/ ZipIgnored \/ ZipFailed \/ ZipDownloaded \/ Assigned
    \/ \E at \in Polling, next \in Polling :
          \/ PollFailure(at, next) \/ PollExtracted(at, next)
          \/ PollHashed(at, next) \/ PollInstalled(at, next)
    \/ CheckForUpdates \/ StartUpdate \/ PrepareTempDir \/ StartFails \/ StartDownload
    \/ QueueRequest
    \/ CancelNow \/ CancelTask \/ CancelTaskDone \/ AnswerReplaceDialog
    \/ ShutdownNow \/ ShutdownTask \/ ShutdownTaskDone

\* What the client's worker does is quiet, and so is a step to another place.
LEMMA WorkerIsQuiet ==
    /\ WorkerStep /\ UNCHANGED installerVars => Quiet
    /\ CheckWrites \/ ZipRefused \/ ZipTested => Quiet
<1>1. WorkerStep => UNCHANGED <<mpc, answered, nIssued>> /\ (wpc = "exit" => wpc' = "exit")
  BY DEF WorkerStep, WorkerExit, WorkerPop, WorkerFindsNothing, WorkerSleep, SpuriousWakeup,
         WorkerPerform, WorkerPrepareFails, ProgressSees, ProgressCallback, TransferFails,
         TransferSucceeds, WorkerRespond
<1>2. ASSUME NEW at \in {"perform", "write"}, NEW accepted, WriteData(at, accepted)
      PROVE  UNCHANGED <<mpc, answered, nIssued>> /\ (wpc = "exit" => wpc' = "exit")
  BY <1>2 DEF WriteData
<1>3. WriteBegins => UNCHANGED <<mpc, answered, nIssued>> /\ (wpc = "exit" => wpc' = "exit")
  BY DEF WriteBegins
<1>4. QED
  BY <1>1, <1>2, <1>3 DEF Quiet, CheckWrites, ZipRefused, ZipTested

\* Nor does a step of the frame, of a refused command or of the end of the game.
LEMMA MainIsQuiet ==
    HttpFrame \/ HttpShutdown \/ CancelInstalling \/ ShutdownIdle \/ ShutdownInstalling
      \/ GameOver => Quiet
BY DEF HttpFrame, HttpShutdown, CancelInstalling, ShutdownIdle, ShutdownInstalling, GameOver, Quiet, Goto, Polling,
       RunFrameLock, RunFrameReturn, ShutdownSignal, NotifyAll, Join, vars, httpVars

\* The steps of Next are those of InstallerStep.
LEMMA InstallerStepCases == [Next]_vars => InstallerStep
<1> SUFFICES ASSUME [Next]_vars PROVE InstallerStep
  OBVIOUS
<1>1. ASSUME NEW at \in Polling, NEW next \in Polling, InstallerRunFrame(at, next)
      PROVE  InstallerStep
  BY <1>1 DEF InstallerRunFrame, PollNothing, Goto, Polling, Quiet, InstallerStep
<1>2. CASE InstallerRunFrame("poll", "idle")
  BY <1>1, <1>2 DEF Polling
<1>3. CASE InstallWait
  <2>1. CASE InstallerRunFrame("wait install", "wait install")
    BY <1>1, <2>1 DEF Polling
  <2>2. CASE ~inProcess /\ Goto("wait install", "idle") /\ UNCHANGED installerVars
    BY <2>2 DEF Goto, Polling, Quiet, InstallerStep
  <2>3. QED
    BY <1>3, <2>1, <2>2 DEF InstallWait
<1>4. CASE QuitWait
  <2>1. CASE InstallerRunFrame("quit install", "quit install")
    BY <1>1, <2>1 DEF Polling
  <2>2. CASE ~inProcess /\ Goto("quit install", "shutdown") /\ UNCHANGED installerVars
    BY <2>2 DEF Goto, Polling, Quiet, InstallerStep
  <2>3. QED
    BY <1>4, <2>1, <2>2 DEF QuitWait
<1>5. CASE UNCHANGED vars
  BY <1>5 DEF vars, httpVars, Quiet, InstallerStep
<1>6. CASE HttpFrame \/ HttpShutdown \/ GameOver \/ Worker
  BY <1>6, MainIsQuiet, WorkerIsQuiet DEF Worker, InstallerStep
<1>7. CASE Command
  BY <1>7, MainIsQuiet DEF Command, InstallerStep
<1>8. CASE \/ Callback \/ PrepareTempDir \/ StartFails \/ StartDownload \/ QueueRequest
           \/ CancelTaskDone \/ ShutdownTaskDone \/ TaskStep
  BY <1>8 DEF Callback, InstallerStep
<1>9. QED
  BY <1>2, <1>3, <1>4, <1>5, <1>6, <1>7, <1>8 DEF Next, Main

\* The installer is a user of the client.
LEMMA GotoIsElsewhere == ASSUME NEW at, NEW next, Goto(at, next) PROVE Elsewhere
BY DEF Goto, Elsewhere

\* Every step is one that a user of the client may take.
LEMMA NextIsClientStep == [Next]_vars => ClientStep
<1> SUFFICES ASSUME [Next]_vars PROVE ClientStep
  OBVIOUS
<1>1. CASE Worker
  BY <1>1 DEF Worker, CheckWrites, ZipRefused, ZipSeesAbort, ZipTested, ZipWrites, ClientStep
<1>2. CASE HttpFrame \/ Callback
  BY <1>2, GotoIsElsewhere DEF HttpFrame, Callback, CheckAnswered, ZipIgnored, ZipFailed,
         ZipDownloaded, Assigned, ClientStep
<1>3. ASSUME NEW at, NEW next, InstallerRunFrame(at, next) PROVE ClientStep
  BY <1>3, GotoIsElsewhere DEF InstallerRunFrame, PollNothing, PollFailure, PollExtracted,
         PollHashed, PollInstalled, ClientStep
<1>4. CASE InstallerRunFrame("poll", "idle") \/ InstallWait \/ QuitWait
  BY <1>3, <1>4, GotoIsElsewhere DEF InstallWait, QuitWait, ClientStep
<1>5. CASE PrepareTempDir \/ StartFails \/ StartDownload \/ CancelTaskDone \/ ShutdownTaskDone
  BY <1>5, GotoIsElsewhere
     DEF PrepareTempDir, StartFails, StartDownload, CancelTaskDone, ShutdownTaskDone, ClientStep
<1>6. CASE QueueRequest
  BY <1>6 DEF QueueRequest, ClientStep
<1>7. CASE HttpShutdown
  <2>1. Join => Elsewhere
    BY DEF Join, Elsewhere
  <2>2. QED
    BY <1>7, <2>1 DEF HttpShutdown, ClientStep
<1>8. CASE CancelNow \/ ShutdownNow
  <2>1. Elsewhere
    BY <1>8 DEF CancelNow, ShutdownNow, Elsewhere
  <2>2. QED
    BY <2>1 DEF ClientStep
<1>9. CASE \/ CheckForUpdates \/ StartUpdate \/ CancelTask \/ CancelInstalling
           \/ AnswerReplaceDialog \/ ShutdownIdle \/ ShutdownTask \/ ShutdownInstalling
  BY <1>9, GotoIsElsewhere
     DEF CheckForUpdates, StartUpdate, CancelTask, CancelInstalling, AnswerReplaceDialog,
         ShutdownIdle, ShutdownTask, ShutdownInstalling, ClientStep
<1>10. CASE TaskStep \/ GameOver \/ UNCHANGED vars
  <2>1. Elsewhere
    BY <1>10 DEF TaskStep, GameOver, vars, httpVars, Elsewhere
  <2>2. QED
    BY <2>1 DEF ClientStep
<1>11. QED
  BY <1>1, <1>2, <1>4, <1>5, <1>6, <1>7, <1>8, <1>9, <1>10 DEF Next, Command, Main

-----------------------------------------------------------------------------
(* Requests and types *)

\* The pipeline says which request a callback is for and the worker works on.
LEMMA RequestFacts ==
    ASSUME Types, PipelineOrder
    PROVE  /\ Len(answered) \in Nat /\ nIssued \in Nat
           /\ responseQueue # <<>> => Front = [id |-> Len(answered) + 1, outcome |-> Front.outcome]
           /\ responseQueue # <<>> => Len(answered) < nIssued
           /\ Busy => cur \in Unanswered
<1>1. /\ Len(answered) \in Nat /\ Len(responseQueue) \in Nat
      /\ Len(requestQueue) \in Nat /\ nIssued \in Nat
  BY DEF Types, ClientTypes
<1>2. nIssued = Responded + (IF Busy THEN 1 ELSE 0) + Len(requestQueue)
  BY DEF PipelineOrder
<1>3. ASSUME responseQueue # <<>>
      PROVE  /\ Front = [id |-> Len(answered) + 1, outcome |-> Front.outcome]
             /\ Len(answered) < nIssued
  <2>1. /\ Len(responseQueue) > 0
        /\ Front = responseQueue[1] /\ Front \in Response
    BY <1>3, TailFacts DEF Front, Types, ClientTypes
  <2>2. Front.id = Len(answered) + 1
    BY <1>1, <2>1 DEF PipelineOrder
  <2>3. Len(answered) < nIssued
    BY <1>1, <1>2, <2>1 DEF Responded
  <2>4. QED
    BY <2>1, <2>2, <2>3 DEF Response
<1>4. ASSUME Busy PROVE cur \in Unanswered
  <2>1. cur = Responded + 1
    BY <1>4 DEF PipelineOrder
  <2>2. QED
    BY <1>1, <1>2, <1>4, <2>1 DEF Unanswered, Responded
<1>5. QED
  BY <1>1, <1>3, <1>4

\* A callback answers the oldest request and takes it off the list.
LEMMA CallbackFacts ==
    ASSUME Types, PipelineOrder, responseQueue # <<>>, NEW next, RunCallback(next)
    PROVE  /\ Front.id = Len(answered) + 1
           /\ Front.id \in Unanswered
           /\ Len(answered') = Len(answered) + 1
           /\ UNCHANGED <<nIssued, wpc>> /\ mpc = "callbacks" /\ mpc' = next
           /\ Unanswered' = Unanswered \ {Front.id}
<1>1. /\ Front.id = Len(answered) + 1 /\ Len(answered) < nIssued
      /\ Len(answered) \in Nat /\ nIssued \in Nat
  BY RequestFacts
<1>2. Len(answered') = Len(answered) + 1
  <2>1. answered \in Seq(Nat) /\ Front.id \in Nat
    BY <1>1 DEF Types, ClientTypes
  <2>2. answered' = Append(answered, Front.id)
    BY DEF RunCallback, Front
  <2>3. QED
    BY <2>1, <2>2, AppendFacts
<1>3. UNCHANGED <<nIssued, wpc>> /\ mpc = "callbacks" /\ mpc' = next
  BY DEF RunCallback
<1>4. Unanswered' = Len(answered) + 2 .. nIssued
  BY <1>1, <1>2, <1>3 DEF Unanswered
<1>5. QED
  BY <1>1, <1>2, <1>3, <1>4 DEF Unanswered

\* A request that is queued is the newest, and the older ones keep their purpose.
LEMMA QueueFacts ==
    ASSUME Types, PipelineOrder, QueueRequest
    PROVE  /\ nIssued' = nIssued + 1 /\ nIssued' \in Unanswered'
           /\ Unanswered' = Unanswered \cup {nIssued'}
           /\ \A n \in Unanswered : purpose'[n] = purpose[n]
           /\ \/ mpc = "get check" /\ purpose'[nIssued'] = 0
              \/ mpc = "get zip" /\ purpose'[nIssued'] = session
           /\ mpc' = "idle"
           /\ Len(purpose') = nIssued' /\ purpose' \in Seq(0..session)
           /\ UNCHANGED <<sessionVars, taskVars, abortRequested, checkInProgress,
                          session, overlapped, cmdVars>>
<1>1. /\ Len(answered) \in Nat /\ nIssued \in Nat /\ Len(answered) <= nIssued
  <2>1. /\ Len(answered) \in Nat /\ Len(responseQueue) \in Nat
        /\ Len(requestQueue) \in Nat /\ nIssued \in Nat
    BY DEF Types, ClientTypes
  <2>2. Len(answered) <= nIssued
    BY <2>1 DEF PipelineOrder, Responded
  <2>3. QED
    BY <2>1, <2>2
<1>a. purpose \in Seq(0..session) /\ Len(purpose) = nIssued
  BY DEF Types, InstallerTypeOK
<1>b. session \in Nat /\ 0 \in 0..session /\ session \in 0..session
  BY DEF Types, InstallerTypeOK
<1>2. PICK s \in {0, session} :
        /\ purpose' = Append(purpose, s)
        /\ \/ mpc = "get check" /\ s = 0
           \/ mpc = "get zip" /\ s = session
  BY DEF QueueRequest, Get
<1>3. nIssued' = nIssued + 1 /\ mpc' = "idle" /\ UNCHANGED answered
  BY DEF QueueRequest, Get
<1>4. /\ purpose' \in Seq(0..session)
      /\ Len(purpose') = nIssued + 1
      /\ \A i \in 1..nIssued : purpose'[i] = purpose[i]
      /\ purpose'[nIssued + 1] = s
  <2>1. s \in 0..session
    BY <1>b
  <2>2. purpose' = Append(purpose, s)
    BY <1>2
  <2>3. QED
    BY <1>a, <2>1, <2>2, AppendFacts
<1>5. /\ Unanswered \subseteq 1..nIssued
      /\ Unanswered' = Unanswered \cup {nIssued'} /\ nIssued' \in Unanswered'
  BY <1>1, <1>3 DEF Unanswered
<1>6. UNCHANGED <<sessionVars, taskVars, abortRequested, checkInProgress,
                  session, overlapped, cmdVars>>
  BY DEF QueueRequest
<1>7. /\ \A n \in Unanswered : purpose'[n] = purpose[n]
      /\ \/ mpc = "get check" /\ purpose'[nIssued'] = 0
         \/ mpc = "get zip" /\ purpose'[nIssued'] = session
      /\ Len(purpose') = nIssued'
  BY <1>2, <1>3, <1>4, <1>5
<1>8. QED
  BY <1>3, <1>4, <1>5, <1>6, <1>7

\* The tasks that a step leaves are tasks.
LEMMA TaskMovesFacts ==
    ASSUME NEW t \in Tasks, NEW u, TaskMoves(t, u)
    PROVE  /\ u \in Tasks /\ u.kind = t.kind
           /\ t.pc \in {"run", "final", "clear"}
           /\ u.pc # "none"
           /\ \/ UNCHANGED <<abortRequested, status>>
              \/ /\ t.pc = "final" /\ u.pc = "clear" /\ abortRequested
                 /\ UNCHANGED abortRequested /\ status' = "None"
              \/ t.pc = "clear" /\ u.pc = "ready" /\ abortRequested' = FALSE /\ UNCHANGED status
           /\ u.pc = "run" => t.pc = "run"
           /\ u.pc = "final" => t.pc = "run"
           /\ u.pc = "clear" => t.pc = "final" /\ abortRequested
           /\ u.pc = "ready" => \/ t.pc = "clear"
                                \/ t.pc = "final" /\ ~abortRequested
<1> USE DEF Tasks, Stages
<1>0. TaskSteps \in Nat
  BY InstallerAssumption
<1>1. CASE TaskWorks(t, u)
  <2>1. CASE u = [t EXCEPT !.left = t.left - 1]
    <3>1. t.left - 1 \in 0..TaskSteps
      BY <1>0, <1>1 DEF TaskWorks
    <3>2. u \in Tasks /\ u.kind = t.kind /\ u.pc = t.pc
      BY <2>1, <3>1
    <3>3. QED
      BY <1>1, <3>2 DEF TaskWorks
  <2>2. CASE u = [t EXCEPT !.ok = FALSE, !.pc = "final"]
    BY <1>1, <2>2 DEF TaskWorks
  <2>3. QED
    BY <1>1, <2>1, <2>2 DEF TaskWorks
<1>2. CASE TaskAborts(t, u)
  BY <1>2 DEF TaskAborts
<1>3. CASE TaskLoopEnds(t, u)
  BY <1>3 DEF TaskLoopEnds
<1>4. CASE TaskReturns(t, u)
  BY <1>4 DEF TaskReturns
<1>5. CASE TaskResetsStatus(t, u)
  BY <1>5 DEF TaskResetsStatus
<1>6. CASE TaskClearsAbort(t, u)
  BY <1>6 DEF TaskClearsAbort
<1>7. QED
  BY <1>1, <1>2, <1>3, <1>4, <1>5, <1>6 DEF TaskMoves

\* A new task has its files before it, and none is a task as well.
LEMMA NewTaskFacts ==
    /\ NoTask \in Tasks /\ NoTask.pc = "none"
    /\ \A kind \in Stages : /\ NewTask(kind) \in Tasks
                            /\ NewTask(kind).kind = kind /\ NewTask(kind).pc = "run"
BY InstallerAssumption DEF NoTask, NewTask, Tasks, Stages

\* The exit commands keep their functions.
LEMMA ExitCommandTypes ==
    ASSUME cmdFn \in [Commands -> Functions], savedFn \in [Commands -> Functions]
    PROVE  /\ DisableExitCommands => cmdFn' \in [Commands -> Functions]
                                     /\ savedFn' \in [Commands -> Functions]
           /\ EnableExitCommands => cmdFn' \in [Commands -> Functions]
                                    /\ savedFn' \in [Commands -> Functions]
BY DEF DisableExitCommands, EnableExitCommands, Functions

\* What the end of a session leaves is of its types.
LEMMA EndSessionTypes ==
    ASSUME zip \in [open : BOOLEAN, data : Seq(1..Chunks)], dirs \subseteq 1..session,
           undeleted \subseteq 1..session, tempDir \in 0..session, session \in Nat,
           EndSession
    PROVE  /\ inProcess' = FALSE /\ status' = "None"
           /\ zip' \in [open : BOOLEAN, data : Seq(1..Chunks)] /\ ~zip'.open
           /\ dirs' \subseteq 1..session /\ undeleted' \subseteq 1..session
           /\ dirs' \subseteq (dirs \ {tempDir}) \cup undeleted'
           /\ undeleted \subseteq undeleted'
           /\ tempDir' = 0 /\ filesToAsk' = 0
<1>1. zip' = [zip EXCEPT !.open = FALSE]
  BY DEF EndSession, CleanUp
<1>2. zip' \in [open : BOOLEAN, data : Seq(1..Chunks)] /\ ~zip'.open
  BY <1>1
<1>3. \/ dirs' = dirs \ {tempDir} /\ undeleted' = undeleted
      \/ tempDir \in 1..session /\ undeleted' = undeleted \cup {tempDir} /\ dirs' = dirs
  BY DEF EndSession, CleanUp
<1>4. QED
  BY <1>2, <1>3 DEF EndSession, CleanUp

\* Numbers up to a session are numbers up to a later one.
LEMMA LaterSession ==
    ASSUME NEW m \in Nat, NEW n \in Nat, m <= n, NEW s \in Seq(0..m)
    PROVE  s \in Seq(0..n)
<1>1. 0..m \subseteq 0..n
  OBVIOUS
<1>2. QED
  BY <1>1

\* Every request has its purpose, also after a new one.
LEMMA PurposeStep ==
    ASSUME Types, PipelineOrder, InstallerStep
    PROVE  purpose' \in Seq(0..session') /\ Len(purpose') = nIssued'
<1>0. purpose \in Seq(0..session) /\ Len(purpose) = nIssued /\ session \in Nat
  BY DEF Types, InstallerTypeOK
<1>1. CASE QueueRequest
  BY <1>1, QueueFacts
<1>2. CASE StartUpdate
  <2>1. session' = session + 1 /\ UNCHANGED <<purpose, nIssued>>
    BY <1>2 DEF StartUpdate, Goto
  <2>2. QED
    BY <1>0, <2>1, LaterSession
<1>3. ASSUME UNCHANGED <<session, purpose, nIssued>>
      PROVE  purpose' \in Seq(0..session') /\ Len(purpose') = nIssued'
  BY <1>0, <1>3
<1>4. CASE Quiet \/ TaskStep \/ ZipSeesAbort \/ ZipWrites
  BY <1>3, <1>4 DEF Quiet, TaskStep, ZipSeesAbort, ZipWrites, WriteData, installerVars,
                    histVars, httpVars
<1>5. CASE CheckAnswered \/ ZipIgnored \/ ZipFailed \/ ZipDownloaded \/ Assigned
  BY <1>3, <1>5 DEF CheckAnswered, ZipIgnored, ZipFailed, ZipDownloaded, Assigned,
                    RunCallback, Goto, histVars
<1>6. CASE \E at \in Polling, next \in Polling :
              \/ PollFailure(at, next) \/ PollExtracted(at, next)
              \/ PollHashed(at, next) \/ PollInstalled(at, next)
  BY <1>3, <1>6 DEF PollFailure, PollExtracted, PollHashed, PollInstalled, Goto, histVars
<1>7. CASE \/ CheckForUpdates \/ PrepareTempDir \/ StartFails \/ StartDownload
           \/ AnswerReplaceDialog
  BY <1>3, <1>7 DEF CheckForUpdates, PrepareTempDir, StartFails, StartDownload, AnswerReplaceDialog,
                    Goto, histVars
<1>8. CASE CancelNow \/ CancelTask \/ CancelTaskDone
  BY <1>3, <1>8 DEF CancelNow, CancelTask, CancelTaskDone, Goto, histVars
<1>9. CASE ShutdownNow \/ ShutdownTask \/ ShutdownTaskDone
  BY <1>3, <1>9 DEF ShutdownNow, ShutdownTask, ShutdownTaskDone, Goto, histVars
<1>10. QED
  BY <1>1, <1>2, <1>4, <1>5, <1>6, <1>7, <1>8, <1>9 DEF InstallerStep

\* Every step keeps the installer's types.
LEMMA TypesStep ==
    Types /\ PipelineOrder /\ Places /\ [Next]_vars => Types'
<1> SUFFICES ASSUME Types, PipelineOrder, Places, InstallerStep, ClientStep PROVE Types'
  BY InstallerStepCases, NextIsClientStep
<1> DEFINE Asks == status = "Confirming" => filesToAsk > 0
<1>0. purpose' \in Seq(0..session') /\ Len(purpose') = nIssued'
  BY PurposeStep
<1>a. ClientTypes'
  BY ClientTypesStep DEF Types
<1>b. SUFFICES InstallerTypeOK' /\ Asks'
  BY <1>0, <1>a DEF Types
<1>c. /\ TaskSteps \in Nat /\ MaxAsk \in Nat /\ Chunks \in Nat
  BY InstallerAssumption, HttpAssumption
<1>t. InstallerTypeOK /\ Asks
  BY DEF Types
<1>d. zip \in [open : BOOLEAN, data : Seq(1..Chunks)] /\ dirs \subseteq 1..session
      /\ undeleted \subseteq 1..session /\ tempDir \in 0..session /\ session \in Nat
  BY <1>t DEF InstallerTypeOK
<1>1. CASE Quiet
  <2>1. UNCHANGED <<inProcess, status, zip, tempDir, dirs, undeleted, filesToAsk, task, oldTask,
                    abortRequested, checkInProgress, session, purpose, overlapped,
                    cmdFn, savedFn>>
    BY <1>1 DEF Quiet, installerVars, sessionVars, taskVars, histVars, cmdVars
  <2>2. mpc' \in MainPlaces
    BY <1>1, <1>t DEF Quiet, Polling, MainPlaces, InstallerTypeOK
  <2>3. QED
    BY <1>t, <2>1, <2>2 DEF InstallerTypeOK
<1>2. CASE TaskStep
  <2>1. UNCHANGED <<mpc, inProcess, zip, tempDir, dirs, undeleted, filesToAsk,
                    checkInProgress, session, purpose, overlapped, cmdFn, savedFn>>
    BY <1>2 DEF TaskStep, httpVars, histVars, cmdVars
  <2>2. /\ task' \in Tasks /\ oldTask' \in Tasks
        /\ abortRequested' \in BOOLEAN
        /\ status' = status \/ status' = "None"
    BY <1>2, <1>t, TaskMovesFacts DEF TaskStep, InstallerTypeOK
  <2>3. QED
    BY <1>t, <2>1, <2>2 DEF InstallerTypeOK, Statuses
<1>3. CASE ZipSeesAbort
  <2>1. UNCHANGED <<mpc, inProcess, status, zip, tempDir, dirs, undeleted, filesToAsk, task, oldTask,
                    checkInProgress, session, purpose, overlapped, cmdFn, savedFn>>
        /\ abortRequested' = FALSE
    BY <1>3 DEF ZipSeesAbort, WriteData, sessionVars, taskVars, histVars, cmdVars
  <2>2. QED
    BY <1>t, <2>1 DEF InstallerTypeOK
<1>4. CASE ZipWrites
  <2>1. UNCHANGED <<mpc, inProcess, status, tempDir, dirs, undeleted, filesToAsk, task, oldTask,
                    abortRequested, checkInProgress, session, purpose, overlapped,
                    cmdFn, savedFn>>
    BY <1>4 DEF ZipWrites, WriteData, taskVars, histVars, cmdVars
  <2>2. zip' \in [open : BOOLEAN, data : Seq(1..Chunks)]
    <3>1. CASE UNCHANGED zip
      BY <1>d, <3>1
    <3>2. CASE zip' = [zip EXCEPT !.data = Append(zip.data, received + 1)]
      <4>1. received < Chunks /\ received \in Nat
        BY <1>4 DEF ZipWrites, WriteData, Types, ClientTypes
      <4>2. received + 1 \in 1..Chunks
        BY <1>c, <4>1
      <4>3. Append(zip.data, received + 1) \in Seq(1..Chunks)
        BY <1>d, <4>2, AppendFacts
      <4>4. QED
        BY <1>d, <3>2, <4>3
    <3>3. QED
      BY <1>4, <3>1, <3>2 DEF ZipWrites
  <2>3. QED
    BY <1>t, <2>1, <2>2 DEF InstallerTypeOK
<1>5. CASE CheckAnswered
  <2>1. UNCHANGED <<inProcess, status, zip, tempDir, dirs, undeleted, filesToAsk, task, oldTask,
                    abortRequested, session, purpose, overlapped, cmdFn, savedFn>>
        /\ checkInProgress' = FALSE /\ mpc' = "callbacks"
    BY <1>5 DEF CheckAnswered, RunCallback, sessionVars, taskVars, histVars, cmdVars
  <2>2. QED
    BY <1>t, <2>1 DEF InstallerTypeOK, MainPlaces
<1>6. CASE ZipIgnored
  <2>1. UNCHANGED <<inProcess, tempDir, dirs, undeleted, filesToAsk, task, oldTask,
                    checkInProgress, session, purpose, overlapped, cmdFn, savedFn>>
        /\ mpc' = "callbacks" /\ (status' = status \/ status' = "None")
    BY <1>6 DEF ZipIgnored, RunCallback, taskVars, histVars, cmdVars
  <2>2. zip' \in [open : BOOLEAN, data : Seq(1..Chunks)]
    BY <1>6, <1>d DEF ZipIgnored
  <2>3. abortRequested' \in BOOLEAN
    BY <1>6, <1>t DEF ZipIgnored, InstallerTypeOK
  <2>4. QED
    BY <1>t, <2>1, <2>2, <2>3 DEF InstallerTypeOK, MainPlaces, Statuses
<1>7. CASE ZipDownloaded
  <2>1. UNCHANGED <<inProcess, tempDir, dirs, undeleted, filesToAsk, abortRequested,
                    checkInProgress, session, purpose, overlapped, cmdFn, savedFn>>
        /\ mpc' \in {"callbacks", "assign"} /\ status' = "Extracting"
    BY <1>7 DEF ZipDownloaded, RunCallback, histVars, cmdVars
  <2>2. zip' \in [open : BOOLEAN, data : Seq(1..Chunks)]
    BY <1>7, <1>d DEF ZipDownloaded
  <2>3. task' \in Tasks /\ oldTask' \in Tasks
    BY <1>7, <1>t, NewTaskFacts DEF ZipDownloaded, InstallerTypeOK, Stages
  <2>4. QED
    BY <1>t, <2>1, <2>2, <2>3 DEF InstallerTypeOK, MainPlaces, Statuses, Stages
<1>8. CASE Assigned
  <2>1. UNCHANGED <<inProcess, status, zip, tempDir, dirs, undeleted, filesToAsk, task,
                    abortRequested, checkInProgress, session, purpose, overlapped,
                    cmdFn, savedFn>>
        /\ mpc' = "callbacks" /\ oldTask' = NoTask
    BY <1>8 DEF Assigned, Goto, sessionVars, histVars, cmdVars
  <2>2. QED
    BY <1>t, <2>1, NewTaskFacts DEF InstallerTypeOK, MainPlaces
<1>9. ASSUME EndSession, mpc' \in MainPlaces, task' = task \/ task' = NoTask,
             UNCHANGED <<oldTask, abortRequested, checkInProgress, session, purpose,
                         overlapped>>,
             EnableExitCommands \/ UNCHANGED <<cmdFn, savedFn>>
      PROVE  InstallerTypeOK' /\ Asks'
  <2>1. /\ inProcess' = FALSE /\ status' = "None" /\ tempDir' = 0 /\ filesToAsk' = 0
        /\ zip' \in [open : BOOLEAN, data : Seq(1..Chunks)]
        /\ dirs' \subseteq 1..session /\ undeleted' \subseteq 1..session
    BY <1>9, <1>d, EndSessionTypes
  <2>2. task' \in Tasks
    BY <1>9, <1>t, NewTaskFacts DEF InstallerTypeOK
  <2>3. cmdFn' \in [Commands -> Functions] /\ savedFn' \in [Commands -> Functions]
    BY <1>9, <1>t, ExitCommandTypes DEF InstallerTypeOK
  <2>4. tempDir' \in 0..session /\ filesToAsk' \in 0..MaxAsk
    BY <1>c, <1>d, <2>1
  <2>5. QED
    BY <1>9, <1>t, <2>1, <2>2, <2>3, <2>4 DEF InstallerTypeOK, Statuses
<1>10. CASE ZipFailed \/ StartFails
  BY <1>9, <1>10 DEF ZipFailed, StartFails, RunCallback, Goto, MainPlaces, taskVars,
                     histVars, cmdVars
<1>11. CASE CancelNow \/ CancelTaskDone \/ ShutdownNow \/ ShutdownTaskDone
  BY <1>9, <1>11, <1>t DEF CancelNow, CancelTaskDone, ShutdownNow, ShutdownTaskDone, Goto,
                           MainPlaces, taskVars, histVars, cmdVars, InstallerTypeOK
<1>12. ASSUME NEW at \in Polling, NEW next \in Polling,
              PollFailure(at, next) \/ PollInstalled(at, next)
       PROVE  InstallerTypeOK' /\ Asks'
  BY <1>9, <1>12 DEF PollFailure, PollInstalled, Goto, Polling, MainPlaces, histVars, cmdVars
<1>13. ASSUME mpc' \in MainPlaces, status' \in Stages, task' = NewTask(status'),
              filesToAsk' \in 0..MaxAsk,
              DisableExitCommands \/ UNCHANGED <<cmdFn, savedFn>>,
              UNCHANGED <<inProcess, zip, tempDir, dirs, undeleted, oldTask, abortRequested,
                          checkInProgress, session, purpose, overlapped>>
       PROVE  InstallerTypeOK' /\ Asks'
  <2>1. task' \in Tasks
    BY <1>13, NewTaskFacts
  <2>2. cmdFn' \in [Commands -> Functions] /\ savedFn' \in [Commands -> Functions]
    BY <1>13, <1>t, ExitCommandTypes DEF InstallerTypeOK
  <2>3. QED
    BY <1>13, <1>t, <2>1, <2>2 DEF InstallerTypeOK, Statuses, Stages
<1>14. ASSUME NEW at \in Polling, NEW next \in Polling, PollExtracted(at, next)
       PROVE  InstallerTypeOK' /\ Asks'
  BY <1>13, <1>14, <1>t DEF PollExtracted, StartTask, Goto, Polling, MainPlaces, Stages,
                            histVars, cmdVars, InstallerTypeOK
<1>15. ASSUME BeginFileUpdating, mpc' \in MainPlaces,
              UNCHANGED <<oldTask, abortRequested, checkInProgress, histVars>>
       PROVE  InstallerTypeOK' /\ Asks'
  BY <1>13, <1>15, <1>c DEF BeginFileUpdating, Stages, histVars
<1>16. ASSUME mpc' \in MainPlaces, status' = "Confirming", filesToAsk' \in 1..MaxAsk,
              task' = task \/ task' = NoTask,
              UNCHANGED <<inProcess, zip, tempDir, dirs, undeleted, oldTask, abortRequested,
                          checkInProgress, session, purpose, overlapped, cmdFn, savedFn>>
       PROVE  InstallerTypeOK' /\ Asks'
  <2>1. task' \in Tasks
    BY <1>16, <1>t, NewTaskFacts DEF InstallerTypeOK
  <2>2. filesToAsk' \in 0..MaxAsk /\ filesToAsk' > 0
    BY <1>c, <1>16
  <2>3. QED
    BY <1>16, <1>t, <2>1, <2>2 DEF InstallerTypeOK, Statuses
<1>17. ASSUME NEW at \in Polling, NEW next \in Polling, PollHashed(at, next)
       PROVE  InstallerTypeOK' /\ Asks'
  <2>1. mpc' \in MainPlaces
    BY <1>17 DEF PollHashed, Goto, Polling, MainPlaces
  <2>2. UNCHANGED <<oldTask, abortRequested, checkInProgress, histVars>>
    BY <1>17 DEF PollHashed
  <2>3. QED
    BY <1>15, <1>16, <1>17, <2>1, <2>2 DEF PollHashed, histVars, cmdVars
<1>18. CASE AnswerReplaceDialog
  <2>1. mpc' \in MainPlaces /\ status = "Confirming"
    BY <1>18 DEF AnswerReplaceDialog, Goto, MainPlaces
  <2>2. UNCHANGED <<oldTask, abortRequested, checkInProgress, histVars>>
    BY <1>18 DEF AnswerReplaceDialog
  <2>3. PICK n \in {1, filesToAsk} :
          IF n = filesToAsk
          THEN BeginFileUpdating
          ELSE /\ filesToAsk' = filesToAsk - n
               /\ UNCHANGED <<inProcess, status, zip, tempDir, dirs, undeleted, task, cmdVars>>
    BY <1>18 DEF AnswerReplaceDialog
  <2>4. CASE n = filesToAsk
    BY <1>15, <2>1, <2>2, <2>3, <2>4
  <2>5. CASE n # filesToAsk
    <3>1. n = 1 /\ filesToAsk \in 0..MaxAsk /\ filesToAsk > 0
      BY <1>t, <2>1, <2>5 DEF InstallerTypeOK
    <3>2. filesToAsk - 1 \in 1..MaxAsk
      BY <1>c, <2>5, <3>1
    <3>3. QED
      BY <1>16, <2>1, <2>2, <2>3, <2>5, <3>1, <3>2 DEF histVars, cmdVars
  <2>6. QED
    BY <2>4, <2>5
<1>19. CASE CheckForUpdates \/ CancelTask \/ ShutdownTask
  <2>1. UNCHANGED <<inProcess, status, zip, tempDir, dirs, undeleted, filesToAsk, task, oldTask,
                    session, purpose, overlapped, cmdFn, savedFn>>
        /\ mpc' \in MainPlaces
    BY <1>19 DEF CheckForUpdates, CancelTask, ShutdownTask, Goto, MainPlaces,
                 sessionVars, taskVars, histVars, cmdVars
  <2>2. checkInProgress' \in BOOLEAN /\ abortRequested' \in BOOLEAN
    BY <1>19, <1>t DEF CheckForUpdates, CancelTask, ShutdownTask, InstallerTypeOK
  <2>3. QED
    BY <1>t, <2>1, <2>2 DEF InstallerTypeOK
<1>20. CASE StartUpdate
  <2>1. UNCHANGED <<zip, dirs, undeleted, task, oldTask, checkInProgress, purpose, cmdFn, savedFn>>
        /\ inProcess' = TRUE /\ abortRequested' = FALSE /\ status' = "None"
        /\ tempDir' = 0 /\ filesToAsk' = 0 /\ session' = session + 1 /\ mpc' = "start"
    BY <1>20 DEF StartUpdate, Goto, taskVars, cmdVars
  <2>2. overlapped' \in BOOLEAN
    BY <1>20 DEF StartUpdate
  <2>3. /\ session' \in Nat /\ tempDir' \in 0..session' /\ filesToAsk' \in 0..MaxAsk
        /\ dirs' \subseteq 1..session' /\ undeleted' \subseteq 1..session'
    BY <1>c, <1>d, <2>1
  <2>4. QED
    BY <1>0, <1>t, <2>1, <2>2, <2>3 DEF InstallerTypeOK, MainPlaces, Statuses
<1>21. CASE StartDownload
  <2>1. UNCHANGED <<inProcess, tempDir, dirs, undeleted, filesToAsk, task, oldTask,
                    abortRequested, checkInProgress, session, purpose, overlapped,
                    cmdFn, savedFn>>
        /\ zip' = [open |-> TRUE, data |-> <<>>] /\ status' = "Downloading"
        /\ mpc' = "get zip"
    BY <1>21 DEF StartDownload, Goto, taskVars, histVars, cmdVars
  <2>2. zip' \in [open : BOOLEAN, data : Seq(1..Chunks)]
    <3>1. <<>> \in Seq(1..Chunks)
      OBVIOUS
    <3>2. QED
      BY <2>1, <3>1
  <2>3. QED
    BY <1>t, <2>1, <2>2 DEF InstallerTypeOK, MainPlaces, Statuses
<1>22. CASE PrepareTempDir
  <2>1. UNCHANGED <<inProcess, status, zip, undeleted, filesToAsk, oldTask, abortRequested,
                    checkInProgress, session, purpose, overlapped, cmdFn, savedFn>>
        /\ task' = NoTask /\ tempDir' = session /\ dirs' = dirs \cup {session}
        /\ mpc' = "prepared"
    BY <1>22 DEF PrepareTempDir, Goto, histVars, cmdVars
  <2>2. session > 0
    BY <1>22 DEF PrepareTempDir, Goto, Places
  <2>3. tempDir' \in 0..session /\ dirs' \subseteq 1..session
    <3>1. session \in 1..session /\ session \in 0..session
      BY <1>d, <2>2
    <3>2. QED
      BY <1>d, <2>1, <3>1
  <2>4. QED
    BY <1>t, <2>1, <2>3, NewTaskFacts DEF InstallerTypeOK, MainPlaces
<1>23. CASE QueueRequest
  <2>1. UNCHANGED <<inProcess, status, zip, tempDir, dirs, undeleted, filesToAsk, task, oldTask,
                    abortRequested, checkInProgress, session, overlapped, cmdFn, savedFn>>
        /\ mpc' = "idle"
    BY <1>23 DEF QueueRequest, Get, sessionVars, taskVars, cmdVars
  <2>2. QED
    BY <1>0, <1>t, <2>1 DEF InstallerTypeOK, MainPlaces
<1>24. QED
  BY <1>1, <1>2, <1>3, <1>4, <1>5, <1>6, <1>7, <1>8, <1>10, <1>11, <1>12, <1>14, <1>17,
     <1>18, <1>19, <1>20, <1>21, <1>22, <1>23 DEF InstallerStep

-----------------------------------------------------------------------------
(* The parts that need no history *)

\* What the end of a session means for the parts below.
LEMMA EndSessionFacts ==
    ASSUME Types, Places, EndSession
    PROVE  /\ inProcess' = FALSE /\ status' = "None" /\ ~zip'.open
           /\ dirs' \subseteq undeleted' /\ tempDir' = 0
<1>1. /\ inProcess' = FALSE /\ status' = "None" /\ ~zip'.open /\ tempDir' = 0
      /\ dirs' \subseteq (dirs \ {tempDir}) \cup undeleted'
      /\ undeleted \subseteq undeleted'
  BY EndSessionTypes DEF Types, InstallerTypeOK
<1>2. QED
  BY <1>1 DEF Places

\* An abort request is raised with the wait for its answer.
LEMMA AwaitStep ==
    Types /\ AbortIsAwaited /\ [Next]_vars => AbortIsAwaited'
<1> SUFFICES ASSUME Types, AbortIsAwaited, InstallerStep PROVE AbortIsAwaited'
  BY InstallerStepCases
<1> USE DEF AbortIsAwaited
<1>1. CASE Quiet
  BY <1>1 DEF Quiet, Polling, installerVars
<1>2. CASE TaskStep
  <2>1. UNCHANGED mpc /\ (abortRequested' => abortRequested)
    BY <1>2, TaskMovesFacts DEF TaskStep, httpVars, Types, InstallerTypeOK
  <2>2. QED
    BY <2>1
<1>3. CASE ZipSeesAbort \/ ZipWrites
  BY <1>3 DEF ZipSeesAbort, ZipWrites, WriteData
<1>4. CASE CheckAnswered \/ ZipIgnored \/ ZipFailed \/ ZipDownloaded \/ Assigned
  BY <1>4 DEF CheckAnswered, ZipIgnored, ZipFailed, ZipDownloaded, Assigned, RunCallback, Goto
<1>5. CASE \E at \in Polling, next \in Polling :
              \/ PollFailure(at, next) \/ PollExtracted(at, next)
              \/ PollHashed(at, next) \/ PollInstalled(at, next)
  BY <1>5 DEF PollFailure, PollExtracted, PollHashed, PollInstalled, Goto, Polling
<1>6. CASE \/ CheckForUpdates \/ StartUpdate \/ PrepareTempDir \/ StartFails
           \/ StartDownload \/ QueueRequest
  BY <1>6 DEF CheckForUpdates, StartUpdate, PrepareTempDir, StartFails, StartDownload, QueueRequest, Goto, Get
<1>7. CASE CancelNow \/ CancelTask \/ CancelTaskDone \/ AnswerReplaceDialog
  BY <1>7 DEF CancelNow, CancelTask, CancelTaskDone, AnswerReplaceDialog, Goto
<1>8. CASE ShutdownNow \/ ShutdownTask \/ ShutdownTaskDone
  BY <1>8 DEF ShutdownNow, ShutdownTask, ShutdownTaskDone, Goto
<1>9. QED
  BY <1>1, <1>2, <1>3, <1>4, <1>5, <1>6, <1>7, <1>8 DEF InstallerStep

\* The main thread's places keep their meaning.
LEMMA PlacesStep ==
    Types /\ AbortIsAwaited /\ Places /\ [Next]_vars => Places'
<1> SUFFICES ASSUME Types, AbortIsAwaited, Places, InstallerStep PROVE Places'
  BY InstallerStepCases
<1>1. CASE Quiet
  <2>1. UNCHANGED <<inProcess, status, zip, tempDir, dirs, undeleted, session>>
    BY <1>1 DEF Quiet, installerVars, sessionVars, histVars
  <2>2. QED
    BY <1>1, <2>1 DEF Quiet, Polling, Places
<1>2. CASE TaskStep
  <2>1. UNCHANGED <<mpc, wpc, inProcess, zip, tempDir, dirs, undeleted, session>>
    BY <1>2 DEF TaskStep, httpVars, histVars
  <2>2. \/ UNCHANGED status
        \/ status' = "None" /\ mpc \in {"spin", "quit spin"}
    BY <1>2, TaskMovesFacts DEF TaskStep, Types, InstallerTypeOK, AbortIsAwaited
  <2>3. QED
    BY <2>1, <2>2 DEF Places
<1>3. CASE ZipSeesAbort \/ ZipWrites
  <2>1. /\ UNCHANGED <<mpc, inProcess, status, tempDir, dirs, undeleted, session>>
        /\ wpc \in {"perform", "write"}
    BY <1>3 DEF ZipSeesAbort, ZipWrites, WriteData, sessionVars, histVars
  <2>2. zip'.open = zip.open
    <3>1. CASE UNCHANGED zip
      BY <3>1
    <3>2. CASE zip' = [zip EXCEPT !.data = Append(zip.data, received + 1)]
      BY <3>2 DEF Types, InstallerTypeOK
    <3>3. QED
      BY <1>3, <3>1, <3>2 DEF ZipSeesAbort, ZipWrites, sessionVars
  <2>3. QED
    BY <2>1, <2>2 DEF Places
<1>4. CASE CheckAnswered \/ Assigned
  <2>1. UNCHANGED <<inProcess, status, zip, tempDir, dirs, undeleted, session>> /\ mpc' = "callbacks"
    BY <1>4 DEF CheckAnswered, Assigned, RunCallback, Goto, sessionVars, histVars
  <2>2. QED
    BY <2>1 DEF Places
<1>5. CASE ZipIgnored
  <2>1. /\ UNCHANGED <<inProcess, tempDir, dirs, undeleted, session>> /\ mpc' = "callbacks"
        /\ zip' = [zip EXCEPT !.open = FALSE]
        /\ ~inProcess => status' = status
    BY <1>5 DEF ZipIgnored, RunCallback, histVars
  <2>2. ~zip'.open
    BY <2>1 DEF Types, InstallerTypeOK
  <2>3. QED
    BY <2>1, <2>2 DEF Places
<1>6. CASE ZipDownloaded
  <2>1. /\ UNCHANGED <<inProcess, tempDir, dirs, undeleted, session>> /\ inProcess
        /\ mpc' \in {"callbacks", "assign"}
    BY <1>6 DEF ZipDownloaded, RunCallback, histVars
  <2>2. QED
    BY <2>1 DEF Places
<1>7. ASSUME EndSession, mpc' \notin {"start", "prepared", "get zip", "gone"}
      PROVE  Places'
  BY <1>7, EndSessionFacts DEF Places
<1>8. CASE \/ ZipFailed \/ StartFails \/ CancelNow \/ CancelTaskDone
           \/ ShutdownNow \/ ShutdownTaskDone
  BY <1>7, <1>8 DEF ZipFailed, StartFails, CancelNow, CancelTaskDone, ShutdownNow,
                    ShutdownTaskDone, RunCallback, Goto
<1>9. ASSUME NEW at \in Polling, NEW next \in Polling,
             PollFailure(at, next) \/ PollInstalled(at, next)
      PROVE  Places'
  BY <1>7, <1>9 DEF PollFailure, PollInstalled, Goto, Polling
<1>10. ASSUME UNCHANGED <<inProcess, zip, tempDir, dirs, undeleted, session>>,
              inProcess \/ UNCHANGED status,
              mpc' \in Polling \cup {"get check"}
       PROVE  Places'
  BY <1>10 DEF Places, Polling
<1>11. ASSUME NEW at \in Polling, NEW next \in Polling,
              PollExtracted(at, next) \/ PollHashed(at, next)
       PROVE  Places'
  BY <1>10, <1>11 DEF PollExtracted, PollHashed, StartTask, BeginFileUpdating, Goto, histVars
<1>12. CASE AnswerReplaceDialog
  <2>1. UNCHANGED <<inProcess, zip, tempDir, dirs, undeleted, session>> /\ mpc' = "idle"
    BY <1>12 DEF AnswerReplaceDialog, BeginFileUpdating, Goto, histVars
  <2>2. inProcess
    BY <1>12 DEF AnswerReplaceDialog, Places
  <2>3. QED
    BY <1>10, <2>1, <2>2 DEF Polling
<1>13. CASE CheckForUpdates \/ QueueRequest
  <2>1. UNCHANGED <<inProcess, status, zip, tempDir, dirs, undeleted, session>>
        /\ mpc' \in {"idle", "get check"}
    BY <1>13 DEF CheckForUpdates, QueueRequest, Goto, Get, sessionVars, histVars
  <2>2. QED
    BY <1>10, <2>1 DEF Polling
<1>14. CASE CancelTask \/ ShutdownTask
  <2>1. UNCHANGED <<inProcess, status, zip, tempDir, dirs, undeleted, session>>
        /\ status \in {"Extracting", "Hashing", "None"} /\ mpc' \in {"spin", "quit spin"}
    BY <1>14 DEF CancelTask, ShutdownTask, Goto, sessionVars, histVars
  <2>2. QED
    BY <2>1 DEF Places
<1>15. CASE StartUpdate
  <2>1. /\ inProcess' = TRUE /\ status' = "None" /\ tempDir' = 0 /\ session' = session + 1
        /\ mpc' = "start" /\ UNCHANGED <<dirs, undeleted>> /\ ~inProcess
    BY <1>15 DEF StartUpdate, Goto
  <2>2. session' > 0
    BY <2>1 DEF Types, InstallerTypeOK
  <2>3. QED
    BY <2>1, <2>2 DEF Places
<1>16. CASE StartDownload
  <2>1. /\ UNCHANGED <<inProcess, tempDir, dirs, undeleted, session>>
        /\ mpc = "prepared" /\ mpc' = "get zip" /\ status' = "Downloading"
    BY <1>16 DEF StartDownload, Goto, histVars
  <2>2. QED
    BY <2>1 DEF Places
<1>17. CASE PrepareTempDir
  <2>1. /\ UNCHANGED <<inProcess, status, undeleted, session>>
        /\ mpc = "start" /\ mpc' = "prepared"
        /\ tempDir' = session /\ dirs' = dirs \cup {session}
    BY <1>17 DEF PrepareTempDir, Goto, histVars
  <2>2. dirs \subseteq undeleted
    <3>1. dirs \subseteq {0} \cup undeleted
      BY <2>1 DEF Places
    <3>2. 0 \notin dirs
      BY DEF Types, InstallerTypeOK
    <3>3. QED
      BY <3>1, <3>2
  <2>3. QED
    BY <2>1, <2>2 DEF Places
<1>18. QED
  BY <1>1, <1>2, <1>3, <1>4, <1>5, <1>6, <1>8, <1>9, <1>11, <1>12, <1>13, <1>14, <1>15, <1>16,
     <1>17 DEF InstallerStep

\* A stage keeps its directory and its task.
LEMMA StagedStep ==
    Types /\ AbortIsAwaited /\ Places /\ Staged /\ [Next]_vars => Staged'
<1> SUFFICES ASSUME Types, AbortIsAwaited, Places, Staged, InstallerStep PROVE Staged'
  BY InstallerStepCases
<1>1. CASE Quiet
  <2>1. UNCHANGED <<inProcess, status, tempDir, dirs, task>>
    BY <1>1 DEF Quiet, installerVars, sessionVars, taskVars
  <2>2. QED
    BY <1>1, <2>1 DEF Quiet, Polling, Staged
<1>2. CASE TaskStep
  <2>1. UNCHANGED <<mpc, inProcess, tempDir, dirs>>
    BY <1>2 DEF TaskStep, httpVars
  <2>2. \/ UNCHANGED status
        \/ status' = "None" /\ mpc \in {"spin", "quit spin"}
    BY <1>2, TaskMovesFacts DEF TaskStep, Types, InstallerTypeOK, AbortIsAwaited
  <2>3. task'.kind = task.kind /\ (task.pc = "none" => task'.pc = "none")
    BY <1>2, TaskMovesFacts DEF TaskStep, Types, InstallerTypeOK
  <2>4. QED
    BY <2>1, <2>2, <2>3 DEF Staged
<1>3. CASE ZipSeesAbort \/ ZipWrites \/ CheckAnswered \/ Assigned
  <2>1. /\ UNCHANGED <<inProcess, status, tempDir, dirs, task>>
        /\ mpc' = mpc \/ mpc \in {"callbacks", "assign"}
    BY <1>3 DEF ZipSeesAbort, ZipWrites, CheckAnswered, Assigned, WriteData, RunCallback, Goto,
                sessionVars, taskVars
  <2>2. QED
    BY <2>1 DEF Staged
<1>4. CASE ZipIgnored
  <2>1. UNCHANGED <<inProcess, tempDir, dirs, task>> /\ ~inProcess
    BY <1>4 DEF ZipIgnored, RunCallback, taskVars, AbortIsAwaited
  <2>2. UNCHANGED status
    BY <1>4, <2>1 DEF ZipIgnored
  <2>3. QED
    BY <2>1, <2>2 DEF Staged
<1>5. CASE ZipDownloaded
  <2>1. /\ UNCHANGED <<inProcess, tempDir, dirs>> /\ inProcess /\ mpc = "callbacks"
        /\ status' = "Extracting" /\ task'.kind = "Extracting"
    BY <1>5 DEF ZipDownloaded, RunCallback, NewTask
  <2>2. QED
    BY <2>1 DEF Staged, Stages
<1>6. ASSUME EndSession, task' = task \/ task' = NoTask
      PROVE  Staged'
  <2>1. inProcess' = FALSE /\ status' = "None"
    BY <1>6, EndSessionFacts
  <2>2. task'.pc # "none" => task'.kind \in Stages
    BY <1>6, NewTaskFacts DEF Staged
  <2>3. QED
    BY <2>1, <2>2 DEF Staged
<1>7. CASE \/ ZipFailed \/ StartFails \/ CancelNow \/ CancelTaskDone
           \/ ShutdownNow \/ ShutdownTaskDone
  BY <1>6, <1>7 DEF ZipFailed, StartFails, CancelNow, CancelTaskDone, ShutdownNow,
                    ShutdownTaskDone, taskVars
<1>8. ASSUME NEW at \in Polling, NEW next \in Polling,
             PollFailure(at, next) \/ PollInstalled(at, next)
      PROVE  Staged'
  BY <1>6, <1>8 DEF PollFailure, PollInstalled
<1>9. ASSUME UNCHANGED <<inProcess, tempDir, dirs>>, status # "None",
             \/ status' \in Stages /\ task' = NewTask(status')
             \/ status' = "Confirming" /\ (task' = NoTask \/ task' = task)
      PROVE  Staged'
  <2>1. tempDir' \in dirs'
    BY <1>9 DEF Staged
  <2>2. CASE status' \in Stages /\ task' = NewTask(status')
    <3>1. task'.kind = status' /\ status' # "None"
      BY <2>2 DEF NewTask, Stages
    <3>2. QED
      BY <2>1, <2>2, <3>1 DEF Staged
  <2>3. CASE status' = "Confirming" /\ (task' = NoTask \/ task' = task)
    <3>1. task'.pc # "none" => task'.kind \in Stages
      BY <2>3, NewTaskFacts DEF Staged
    <3>2. status' \notin Stages /\ status' # "None"
      BY <2>3 DEF Stages
    <3>3. QED
      BY <2>1, <3>1, <3>2 DEF Staged
  <2>4. QED
    BY <1>9, <2>2, <2>3
<1>10. ASSUME NEW at \in Polling, NEW next \in Polling,
              PollExtracted(at, next) \/ PollHashed(at, next)
       PROVE  Staged'
  BY <1>9, <1>10 DEF PollExtracted, PollHashed, StartTask, BeginFileUpdating, Stages
<1>11. CASE AnswerReplaceDialog
  <2>1. UNCHANGED <<inProcess, tempDir, dirs>> /\ status = "Confirming"
    BY <1>11 DEF AnswerReplaceDialog, BeginFileUpdating
  <2>2. \/ status' = "Installing" /\ task' = NewTask("Installing")
        \/ status' = "Confirming" /\ task' = task
    BY <1>11 DEF AnswerReplaceDialog, BeginFileUpdating
  <2>3. QED
    BY <1>9, <2>1, <2>2 DEF Stages
<1>12. CASE CheckForUpdates \/ QueueRequest \/ CancelTask \/ ShutdownTask
  <2>1. UNCHANGED <<inProcess, status, tempDir, dirs, task>>
    BY <1>12 DEF CheckForUpdates, QueueRequest, CancelTask, ShutdownTask, sessionVars, taskVars
  <2>2. \/ mpc \notin {"start", "prepared", "spin", "quit spin"}
        \/ mpc' \in {"spin", "quit spin"}
    BY <1>12 DEF CheckForUpdates, QueueRequest, CancelTask, ShutdownTask, Goto, Get
  <2>3. QED
    BY <2>1, <2>2 DEF Staged
<1>13. CASE StartUpdate
  <2>1. UNCHANGED task /\ status' = "None" /\ mpc' = "start"
    BY <1>13 DEF StartUpdate, Goto, taskVars
  <2>2. QED
    BY <2>1 DEF Staged
<1>14. CASE StartDownload
  <2>1. UNCHANGED <<tempDir, dirs, task>> /\ status' = "Downloading" /\ mpc = "prepared"
    BY <1>14 DEF StartDownload, Goto, taskVars
  <2>2. QED
    BY <2>1 DEF Places, Staged, Stages
<1>15. CASE PrepareTempDir
  <2>1. task' = NoTask /\ UNCHANGED status /\ mpc = "start" /\ mpc' = "prepared"
    BY <1>15 DEF PrepareTempDir, Goto
  <2>2. QED
    BY <2>1, NewTaskFacts DEF Places, Staged
<1>16. QED
  BY <1>1, <1>2, <1>3, <1>4, <1>5, <1>7, <1>8, <1>10, <1>11, <1>12, <1>13, <1>14, <1>15
     DEF InstallerStep

-----------------------------------------------------------------------------
(* Requests on their way *)

\* A step that is neither about requests nor about the places that wait for them.
Unrequested ==
    /\ UNCHANGED <<answered, nIssued, purpose, session, checkInProgress, overlapped>>
    /\ mpc = "get check" => mpc' = "get check"
    /\ mpc = "get zip" => mpc' = "get zip"
    /\ mpc' \notin {"get check", "get zip"} \/ UNCHANGED mpc
    /\ inProcess' => inProcess
    /\ inProcess' => (status' = "Downloading" <=> status = "Downloading")

\* All others are these.
LEMMA RequestCases ==
    ASSUME Types, AbortIsAwaited, Places, InstallerStep
    PROVE  \/ QueueRequest \/ CheckForUpdates \/ StartUpdate \/ StartDownload
           \/ CheckAnswered \/ ZipIgnored \/ ZipFailed \/ ZipDownloaded
           \/ Unrequested
<1> USE DEF Unrequested
<1>1. CASE Quiet
  <2>1. UNCHANGED <<answered, nIssued, purpose, session, checkInProgress, overlapped,
                    inProcess, status>>
    BY <1>1 DEF Quiet, installerVars, sessionVars, histVars
  <2>2. QED
    BY <1>1, <2>1 DEF Quiet, Polling
<1>2. CASE TaskStep
  <2>1. UNCHANGED <<mpc, answered, nIssued, purpose, session, checkInProgress, overlapped,
                    inProcess>>
    BY <1>2 DEF TaskStep, httpVars, histVars
  <2>2. \/ UNCHANGED status
        \/ status' = "None" /\ mpc \in {"spin", "quit spin"}
    BY <1>2, TaskMovesFacts DEF TaskStep, Types, InstallerTypeOK, AbortIsAwaited
  <2>3. QED
    BY <2>1, <2>2 DEF Places
<1>3. CASE ZipSeesAbort \/ ZipWrites
  BY <1>3 DEF ZipSeesAbort, ZipWrites, WriteData, sessionVars, histVars
<1>4. CASE Assigned
  BY <1>4 DEF Assigned, Goto, sessionVars, histVars
<1>5. ASSUME NEW at \in Polling, NEW next \in Polling,
             \/ PollFailure(at, next) \/ PollExtracted(at, next)
             \/ PollHashed(at, next) \/ PollInstalled(at, next)
      PROVE  Unrequested
  <2>1. UNCHANGED <<answered, nIssued, purpose, session, checkInProgress, overlapped>>
        /\ mpc \in Polling /\ mpc' \in Polling
    BY <1>5 DEF PollFailure, PollExtracted, PollHashed, PollInstalled, Goto, histVars
  <2>2. /\ inProcess' => inProcess
        /\ inProcess' => status' # "Downloading" /\ status # "Downloading"
    BY <1>5 DEF PollFailure, PollExtracted, PollHashed, PollInstalled, StartTask,
                BeginFileUpdating, EndSession
  <2>3. QED
    BY <2>1, <2>2 DEF Polling
<1>6. CASE StartFails \/ CancelNow \/ CancelTaskDone \/ ShutdownNow \/ ShutdownTaskDone
  <2>1. UNCHANGED <<answered, nIssued, purpose, session, checkInProgress, overlapped>>
        /\ mpc \notin {"get check", "get zip"} /\ mpc' \notin {"get check", "get zip"}
    BY <1>6 DEF StartFails, CancelNow, CancelTaskDone, ShutdownNow, ShutdownTaskDone, Goto,
                histVars
  <2>2. inProcess' = FALSE
    BY <1>6 DEF StartFails, CancelNow, CancelTaskDone, ShutdownNow, ShutdownTaskDone, EndSession
  <2>3. QED
    BY <2>1, <2>2
<1>7. CASE CancelTask \/ ShutdownTask \/ PrepareTempDir
  BY <1>7 DEF CancelTask, ShutdownTask, PrepareTempDir, Goto, sessionVars, histVars
<1>8. CASE AnswerReplaceDialog
  BY <1>8 DEF AnswerReplaceDialog, BeginFileUpdating, Goto, histVars
<1>9. QED
  BY <1>1, <1>2, <1>3, <1>4, <1>5, <1>6, <1>7, <1>8 DEF InstallerStep

\* What is waited for stays on its way until it arrives.
LEMMA RequestedStep ==
    Types /\ PipelineOrder /\ Places /\ AbortIsAwaited /\ Requested /\ [Next]_vars
      => Requested'
<1> SUFFICES ASSUME Types, PipelineOrder, Places, AbortIsAwaited, Requested, InstallerStep
             PROVE  Requested'
  BY InstallerStepCases
<1> USE DEF Requested, CheckIsUnderway
<1>1. CASE Unrequested
  <2>1. UNCHANGED Unanswered
    BY <1>1 DEF Unrequested, Unanswered
  <2>2. QED
    BY <1>1, <2>1 DEF Unrequested
<1>2. CASE QueueRequest
  <2>1. /\ \A n \in Unanswered : n \in Unanswered' /\ purpose'[n] = purpose[n]
        /\ nIssued' \in Unanswered'
        /\ \/ mpc = "get check" /\ purpose'[nIssued'] = 0
           \/ mpc = "get zip" /\ purpose'[nIssued'] = session
    BY <1>2, QueueFacts
  <2>2. UNCHANGED <<inProcess, status, session, checkInProgress>>
    BY <1>2 DEF QueueRequest, sessionVars
  <2>3. QED
    BY <2>1, <2>2
<1>3. CASE CheckForUpdates
  <2>1. UNCHANGED <<inProcess, status, session, purpose, answered, nIssued>>
        /\ mpc' = "get check" /\ mpc = "idle"
    BY <1>3 DEF CheckForUpdates, Goto, sessionVars, histVars
  <2>2. UNCHANGED Unanswered
    BY <2>1 DEF Unanswered
  <2>3. QED
    BY <2>1, <2>2
<1>4. CASE StartUpdate \/ StartDownload
  <2>1. UNCHANGED <<purpose, checkInProgress, answered, nIssued>>
        /\ mpc # "get check" /\ (status' = "None" \/ mpc' = "get zip")
    BY <1>4 DEF StartUpdate, StartDownload, Goto, histVars
  <2>2. UNCHANGED Unanswered
    BY <2>1 DEF Unanswered
  <2>3. QED
    BY <2>1, <2>2
<1>5. CASE CheckAnswered
  <2>1. responseQueue # <<>> /\ RunCallback("callbacks") /\ purpose[Front.id] = 0
    BY <1>5 DEF CheckAnswered
  <2>2. Unanswered' = Unanswered \ {Front.id} /\ mpc = "callbacks"
    BY <2>1, CallbackFacts
  <2>3. UNCHANGED <<inProcess, status, session, purpose>> /\ checkInProgress' = FALSE
    BY <1>5 DEF CheckAnswered, sessionVars, histVars
  <2>4. ASSUME inProcess PROVE session # 0
    <3> HIDE DEF Requested, CheckIsUnderway
    <3>1. session \in Nat
      BY DEF Types, InstallerTypeOK
    <3>2. session > 0
      BY <2>4 DEF Places
    <3>3. QED
      BY <3>1, <3>2
  <2>5. QED
    BY <2>1, <2>2, <2>3, <2>4
<1>6. CASE ZipIgnored \/ ZipFailed \/ ZipDownloaded
  <2>1. /\ responseQueue # <<>> /\ purpose[Front.id] # 0
        /\ RunCallback("callbacks") \/ RunCallback("assign")
    BY <1>6 DEF ZipIgnored, ZipFailed, ZipDownloaded
  <2>2. Unanswered' = Unanswered \ {Front.id} /\ mpc = "callbacks"
    BY <2>1, CallbackFacts
  <2>3. UNCHANGED <<session, purpose, checkInProgress>>
    BY <1>6 DEF ZipIgnored, ZipFailed, ZipDownloaded, histVars
  <2>4. ~(inProcess' /\ status' = "Downloading")
    <3>1. ~abortRequested
      BY <2>2 DEF AbortIsAwaited
    <3>2. CASE ZipIgnored
      BY <3>1, <3>2 DEF ZipIgnored
    <3>3. CASE ZipFailed \/ ZipDownloaded
      BY <3>3 DEF ZipFailed, ZipDownloaded, EndSession
    <3>4. QED
      BY <1>6, <3>2, <3>3
  <2>5. QED
    BY <2>1, <2>2, <2>3, <2>4
<1>7. QED
  BY <1>1, <1>2, <1>3, <1>4, <1>5, <1>6, RequestCases

-----------------------------------------------------------------------------
(* Sessions that met no older one's download *)

\* Once a session has met an older one's download, it has.
LEMMA OverlapStays ==
    ASSUME Types, AbortIsAwaited, Places, InstallerStep, overlapped
    PROVE  overlapped'
<1>1. ASSUME UNCHANGED overlapped PROVE overlapped'
  BY <1>1
<1>2. CASE StartUpdate
  BY <1>2 DEF StartUpdate
<1>3. CASE Unrequested
  BY <1>1, <1>3 DEF Unrequested
<1>4. CASE QueueRequest \/ CheckForUpdates \/ StartDownload
  BY <1>1, <1>4 DEF QueueRequest, CheckForUpdates, StartDownload, histVars
<1>5. CASE CheckAnswered \/ ZipIgnored \/ ZipFailed \/ ZipDownloaded
  BY <1>1, <1>5 DEF CheckAnswered, ZipIgnored, ZipFailed, ZipDownloaded, histVars
<1>6. QED
  BY <1>2, <1>3, <1>4, <1>5, RequestCases

\* Without an overlap a session has one download at most.
LEMMA OneDownloadStep ==
    ASSUME Types, PipelineOrder, Places, AbortIsAwaited, OneDownload, InstallerStep,
           ~overlapped'
    PROVE  OneDownload'
<1>1. ASSUME UNCHANGED <<answered, nIssued, purpose>> PROVE UNCHANGED Downloads
  BY <1>1 DEF Downloads, Unanswered
<1>2. CASE Unrequested
  <2>1. UNCHANGED Downloads
    BY <1>1, <1>2 DEF Unrequested
  <2>2. QED
    BY <1>2, <2>1 DEF Unrequested, OneDownload
<1>3. CASE QueueRequest
  <2>1. /\ Unanswered' = Unanswered \cup {nIssued'}
        /\ \A n \in Unanswered : purpose'[n] = purpose[n]
        /\ \/ mpc = "get check" /\ purpose'[nIssued'] = 0
           \/ mpc = "get zip" /\ purpose'[nIssued'] = session
        /\ mpc' = "idle"
    BY <1>3, QueueFacts
  <2>2. UNCHANGED <<inProcess, status>>
    BY <1>3 DEF QueueRequest, sessionVars
  <2>3. CASE mpc = "get check"
    <3>1. Downloads' = Downloads
      BY <2>1, <2>3 DEF Downloads
    <3>2. QED
      BY <2>1, <2>2, <3>1 DEF OneDownload
  <2>4. CASE mpc = "get zip"
    <3>1. Downloads = {} /\ status = "Downloading"
      BY <2>4 DEF OneDownload, Places
    <3>2. Downloads' \subseteq {nIssued'}
      BY <2>1, <3>1 DEF Downloads
    <3>3. QED
      BY <2>1, <2>2, <3>1, <3>2 DEF OneDownload
  <2>5. QED
    BY <2>1, <2>3, <2>4
<1>4. CASE CheckForUpdates
  <2>1. UNCHANGED <<answered, nIssued, purpose, inProcess, status>> /\ mpc' = "get check"
    BY <1>4 DEF CheckForUpdates, Goto, sessionVars, histVars
  <2>2. QED
    BY <1>1, <2>1 DEF OneDownload
<1>5. CASE StartUpdate
  <2>1. UNCHANGED <<answered, nIssued, purpose>> /\ ~\E n \in Unanswered : purpose[n] # 0
    BY <1>5 DEF StartUpdate, Goto
  <2>2. Downloads' = {}
    BY <1>1, <2>1 DEF Downloads
  <2>3. QED
    BY <2>2 DEF OneDownload
<1>6. CASE StartDownload
  <2>1. UNCHANGED <<answered, nIssued, purpose>> /\ mpc = "prepared"
    BY <1>6 DEF StartDownload, Goto, histVars
  <2>2. Downloads = {}
    BY <2>1 DEF OneDownload, Places
  <2>3. QED
    BY <1>1, <2>1, <2>2 DEF OneDownload
<1>7. CASE CheckAnswered
  <2>1. responseQueue # <<>> /\ RunCallback("callbacks") /\ purpose[Front.id] = 0
    BY <1>7 DEF CheckAnswered
  <2>2. Unanswered' = Unanswered \ {Front.id} /\ mpc' = "callbacks" /\ mpc = "callbacks"
    BY <2>1, CallbackFacts
  <2>3. UNCHANGED <<inProcess, status, purpose>>
    BY <1>7 DEF CheckAnswered, sessionVars, histVars
  <2>4. Downloads' = Downloads
    BY <2>1, <2>2, <2>3 DEF Downloads
  <2>5. QED
    BY <2>2, <2>3, <2>4 DEF OneDownload
<1>8. CASE ZipIgnored \/ ZipFailed \/ ZipDownloaded
  <2>1. /\ responseQueue # <<>> /\ purpose[Front.id] # 0
        /\ RunCallback("callbacks") \/ RunCallback("assign")
    BY <1>8 DEF ZipIgnored, ZipFailed, ZipDownloaded
  <2>2. Unanswered' = Unanswered \ {Front.id} /\ Front.id \in Unanswered
    BY <2>1, CallbackFacts
  <2>3. UNCHANGED purpose
    BY <1>8 DEF ZipIgnored, ZipFailed, ZipDownloaded, histVars
  <2>4. Front.id \in Downloads /\ Downloads' = Downloads \ {Front.id}
    BY <2>1, <2>2, <2>3 DEF Downloads
  <2>5. Downloads' = {}
    BY <2>4 DEF OneDownload
  <2>6. QED
    BY <2>5 DEF OneDownload
<1>9. QED
  BY <1>2, <1>3, <1>4, <1>5, <1>6, <1>7, <1>8, RequestCases

\* A download is only answered in the stage that waits for it, or after the
\* session was cancelled.
LEMMA AnswerInItsStage ==
    ASSUME Types, PipelineOrder, OneDownload, inProcess, responseQueue # <<>>,
           purpose[Front.id] # 0, mpc = "callbacks"
    PROVE  status = "Downloading"
<1>1. Front.id = Len(answered) + 1 /\ Len(answered) < nIssued
      /\ Len(answered) \in Nat /\ nIssued \in Nat
  BY RequestFacts
<1>2. Front.id \in Downloads
  BY <1>1 DEF Downloads, Unanswered
<1>3. QED
  BY <1>2 DEF OneDownload

\* Without an overlap a task is the session's own until it returns.
LEMMA OwnTaskStep ==
    ASSUME Types, PipelineOrder, Places, Staged, AbortIsAwaited, OneDownload, OwnTask,
           InstallerStep
    PROVE  OwnTask'
<1>0. oldTask = NoTask /\ task \in Tasks
  BY DEF OwnTask, Types, InstallerTypeOK
<1>a. task.pc \notin {"run", "final", "clear"} => Released(task)
  BY <1>0 DEF Released, Tasks
<1>b. ~abortRequested => task.pc # "clear"
  BY DEF OwnTask
<1>1. CASE Quiet
  <2>1. UNCHANGED <<oldTask, task, inProcess, status, abortRequested>>
    BY <1>1 DEF Quiet, installerVars, sessionVars, taskVars
  <2>2. QED
    BY <1>1, <2>1 DEF Quiet, Polling, OwnTask, Released
<1>2. CASE TaskStep
  <2>1. TaskMoves(task, task') /\ UNCHANGED <<oldTask, mpc, inProcess>>
    <3>1. ~TaskMoves(oldTask, oldTask')
      BY <1>0, NewTaskFacts, TaskMovesFacts
    <3>2. QED
      BY <1>2, <3>1 DEF TaskStep, httpVars
  <2>2. /\ task.pc = "run" \/ task.pc = "final" \/ task.pc = "clear"
        /\ task'.kind = task.kind
        /\ \/ UNCHANGED <<abortRequested, status>>
           \/ task.pc = "final" /\ task'.pc = "clear" /\ abortRequested /\ UNCHANGED abortRequested
           \/ task.pc = "clear" /\ task'.pc = "ready" /\ abortRequested' = FALSE
        /\ task'.pc = "run" => task.pc = "run"
        /\ task'.pc = "final" => task.pc = "run"
        /\ task'.pc = "clear" => task.pc = "final" /\ abortRequested
    BY <1>0, <2>1, TaskMovesFacts
  <2>3. oldTask' = NoTask
    BY <1>0, <2>1
  <2>4. ASSUME task'.pc \in {"run", "final"} PROVE inProcess' /\ status' = task'.kind
    <3>1. task.pc = "run" /\ UNCHANGED status
      BY <2>2, <2>4
    <3>2. inProcess /\ status = task.kind
      BY <3>1 DEF OwnTask
    <3>3. QED
      BY <2>1, <2>2, <3>1, <3>2
  <2>5. ASSUME task'.pc = "clear" PROVE inProcess' /\ abortRequested'
    <3>1. task.pc = "final" /\ abortRequested /\ UNCHANGED abortRequested
      BY <2>2, <2>5
    <3>2. inProcess
      BY <3>1 DEF OwnTask
    <3>3. QED
      BY <2>1, <3>1, <3>2
  <2>6. ASSUME mpc' \in {"spin", "quit spin"}, ~abortRequested' PROVE Released(task')
    <3>1. CASE ~abortRequested
      <4>1. Released(task)
        BY <2>1, <2>6, <3>1 DEF OwnTask
      <4>2. QED
        BY <2>2, <4>1 DEF Released
    <3>2. CASE abortRequested
      <4>1. task'.pc = "ready"
        BY <2>2, <2>6, <3>2
      <4>2. QED
        BY <4>1 DEF Released
    <3>3. QED
      BY <3>1, <3>2
  <2>7. QED
    BY <2>3, <2>4, <2>5, <2>6 DEF OwnTask
<1>3. CASE ZipWrites
  <2>1. UNCHANGED <<mpc, oldTask, task, inProcess, status, abortRequested>>
    BY <1>3 DEF ZipWrites, WriteData, taskVars
  <2>2. QED
    BY <2>1 DEF OwnTask, Released
<1>4. CASE ZipSeesAbort
  <2>1. /\ wpc = "perform" /\ purpose[cur] # 0 /\ inProcess
        /\ mpc \in {"spin", "quit spin"}
    BY <1>4 DEF ZipSeesAbort, WriteData, AbortIsAwaited
  <2>2. cur \in Downloads
    BY <2>1, RequestFacts DEF Busy, Transferring, Downloads
  <2>3. status = "Downloading"
    BY <2>1, <2>2 DEF OneDownload
  <2>4. QED
    BY <2>1, <2>3 DEF Places
<1>5. CASE CheckAnswered \/ ZipIgnored
  <2>1. UNCHANGED <<oldTask, task, inProcess>> /\ mpc = "callbacks" /\ mpc' = "callbacks"
    BY <1>5 DEF CheckAnswered, ZipIgnored, RunCallback, sessionVars, taskVars
  <2>2. ~abortRequested
    BY <2>1 DEF AbortIsAwaited
  <2>3. inProcess => UNCHANGED status
    BY <1>5, <2>2 DEF CheckAnswered, ZipIgnored, sessionVars
  <2>4. QED
    BY <1>b, <2>1, <2>2, <2>3 DEF OwnTask
<1>6. ASSUME inProcess, status \notin Stages, ~abortRequested
      PROVE  Released(task)
  <2>1. task.pc \notin {"run", "final"}
    BY <1>6 DEF OwnTask, Staged
  <2>2. QED
    BY <1>a, <1>b, <1>6, <2>1
<1>7. ASSUME Released(task'), oldTask' = NoTask PROVE OwnTask'
  BY <1>7 DEF OwnTask, Released
<1>8. ASSUME NEW kind \in Stages, task' = NewTask(kind), status' = kind, inProcess',
             oldTask' = NoTask, mpc' \notin {"spin", "quit spin"}
      PROVE  OwnTask'
  BY <1>8, NewTaskFacts DEF OwnTask
<1>9. CASE ZipFailed \/ ZipDownloaded
  <2>1. /\ inProcess /\ ~abortRequested /\ responseQueue # <<>> /\ purpose[Front.id] # 0
        /\ mpc = "callbacks" /\ mpc' \in {"callbacks", "assign"}
    BY <1>9 DEF ZipFailed, ZipDownloaded, RunCallback
  <2>2. Released(task)
    BY <1>6, <2>1, AnswerInItsStage DEF Stages
  <2>3. CASE ZipFailed
    BY <1>0, <1>7, <2>2, <2>3 DEF ZipFailed, taskVars
  <2>4. CASE ZipDownloaded
    BY <1>8, <2>1, <2>2, <2>4 DEF ZipDownloaded, Stages
  <2>5. QED
    BY <1>9, <2>3, <2>4
<1>10. CASE Assigned
  <2>1. Ready(oldTask)
    BY <1>10 DEF Assigned
  <2>2. QED
    BY <1>0, <2>1, NewTaskFacts DEF Ready
<1>11. ASSUME NEW at \in Polling, NEW next \in Polling,
              PollFailure(at, next) \/ PollInstalled(at, next)
       PROVE  OwnTask'
  BY <1>0, <1>7, <1>11, NewTaskFacts DEF PollFailure, PollInstalled, Released
<1>12. ASSUME NEW at \in Polling, NEW next \in Polling,
              PollExtracted(at, next) \/ PollHashed(at, next)
       PROVE  OwnTask'
  <2>1. /\ inProcess' /\ oldTask' = NoTask /\ mpc' \notin {"spin", "quit spin"}
        /\ \/ task' = NoTask
           \/ task' = NewTask("Hashing") /\ status' = "Hashing"
           \/ task' = NewTask("Installing") /\ status' = "Installing"
    BY <1>0, <1>12 DEF PollExtracted, PollHashed, StartTask, BeginFileUpdating, Goto, Polling
  <2>2. QED
    BY <1>7, <1>8, <2>1, NewTaskFacts DEF Released, Stages
<1>13. CASE CheckForUpdates \/ QueueRequest \/ CancelTask \/ ShutdownTask
  <2>1. UNCHANGED <<oldTask, task, inProcess, status>>
    BY <1>13 DEF CheckForUpdates, QueueRequest, CancelTask, ShutdownTask, sessionVars, taskVars
  <2>2. abortRequested' \/ (mpc' \notin {"spin", "quit spin"} /\ UNCHANGED abortRequested)
    BY <1>13 DEF CheckForUpdates, QueueRequest, CancelTask, ShutdownTask, Goto, Get
  <2>3. QED
    BY <2>1, <2>2 DEF OwnTask
<1>14. CASE StartUpdate
  <2>1. ~inProcess /\ UNCHANGED <<oldTask, task>>
    BY <1>14 DEF StartUpdate, taskVars
  <2>2. Released(task)
    BY <1>a, <2>1 DEF OwnTask
  <2>3. QED
    BY <1>0, <1>7, <2>1, <2>2
<1>15. CASE StartFails \/ PrepareTempDir
  BY <1>0, <1>7, <1>15, NewTaskFacts DEF StartFails, PrepareTempDir, Released
<1>16. CASE StartDownload
  <2>1. mpc = "prepared" /\ UNCHANGED <<oldTask, task>>
    BY <1>16 DEF StartDownload, Goto, taskVars
  <2>2. inProcess /\ status \notin Stages /\ ~abortRequested
    BY <2>1 DEF Places, Stages, AbortIsAwaited
  <2>3. QED
    BY <1>0, <1>6, <1>7, <2>1, <2>2
<1>17. CASE CancelNow \/ ShutdownNow
  <2>1. inProcess /\ status \notin Stages /\ mpc = "idle" /\ UNCHANGED <<oldTask, task>>
    BY <1>17 DEF CancelNow, ShutdownNow, Stages, taskVars
  <2>2. Released(task)
    BY <1>6, <2>1 DEF AbortIsAwaited
  <2>3. QED
    BY <1>0, <1>7, <2>1, <2>2
<1>18. CASE CancelTaskDone \/ ShutdownTaskDone
  <2>1. mpc \in {"spin", "quit spin"} /\ ~abortRequested /\ UNCHANGED <<oldTask, task>>
    BY <1>18 DEF CancelTaskDone, ShutdownTaskDone, Goto, taskVars
  <2>2. QED
    BY <1>0, <1>7, <2>1 DEF OwnTask
<1>19. CASE AnswerReplaceDialog
  <2>1. /\ status = "Confirming" /\ mpc = "idle" /\ mpc' = "idle"
        /\ UNCHANGED <<oldTask, inProcess>>
        /\ \/ task' = NewTask("Installing") /\ status' = "Installing"
           \/ task' = task /\ status' = status
    BY <1>19 DEF AnswerReplaceDialog, BeginFileUpdating, Goto
  <2>2. inProcess /\ ~abortRequested /\ status \notin Stages
    BY <2>1 DEF Places, AbortIsAwaited, Stages
  <2>3. Released(task)
    BY <1>6, <2>2
  <2>4. QED
    BY <1>0, <1>7, <1>8, <2>1, <2>2, <2>3 DEF Stages
<1>20. QED
  BY <1>1, <1>2, <1>3, <1>4, <1>5, <1>9, <1>10, <1>11, <1>12, <1>13, <1>14, <1>15, <1>16,
     <1>17, <1>18, <1>19 DEF InstallerStep

\* Disabling replaces both commands; enabling puts "quit" back.
LEMMA ExitCommandFacts ==
    /\ DisableExitCommands /\ Original("quit") /\ (Replaced("_restart") \/ Original("_restart"))
         => Replaced("quit")' /\ Replaced("_restart")'
    /\ EnableExitCommands /\ Replaced("quit") /\ Replaced("_restart")
         => Original("quit")' /\ Replaced("_restart")'
<1>1. ASSUME DisableExitCommands, NEW c \in Commands, Replaced(c) \/ Original(c)
      PROVE  Replaced(c)'
  BY <1>1 DEF DisableExitCommands, Replaced, Original
<1>2. ASSUME EnableExitCommands, Replaced("quit"), Replaced("_restart")
      PROVE  Original("quit")' /\ Replaced("_restart")'
  <2>1. "quit" \in Reenabled /\ "_restart" \notin Reenabled
    BY <1>2 DEF Reenabled, Replaced, Commands
  <2>2. /\ cmdFn' = [c \in Commands |-> IF c \in Reenabled THEN savedFn[c] ELSE cmdFn[c]]
        /\ savedFn' = [c \in Commands |-> IF c \in Reenabled THEN "null" ELSE savedFn[c]]
    BY <1>2 DEF EnableExitCommands
  <2>3. cmdFn'["quit"] = savedFn["quit"] /\ savedFn'["quit"] = "null"
    BY <2>1, <2>2 DEF Commands
  <2>4. cmdFn'["_restart"] = cmdFn["_restart"] /\ savedFn'["_restart"] = savedFn["_restart"]
    BY <2>1, <2>2 DEF Commands
  <2>5. QED
    BY <1>2, <2>3, <2>4 DEF Replaced, Original
<1>3. "quit" \in Commands /\ "_restart" \in Commands
  BY DEF Commands
<1>4. QED
  BY <1>1, <1>2, <1>3

\* Without an overlap the exit commands are replaced while files are installed.
LEMMA ExitBlockedStep ==
    ASSUME Types, PipelineOrder, Places, AbortIsAwaited, OneDownload, ExitBlocked,
           InstallerStep
    PROVE  ExitBlocked'
<1>1. ASSUME UNCHANGED <<cmdFn, savedFn>>, status' = "Installing" <=> status = "Installing"
      PROVE  ExitBlocked'
  BY <1>1 DEF ExitBlocked, Replaced, Original
<1>2. ASSUME DisableExitCommands, status # "Installing", status' = "Installing"
      PROVE  ExitBlocked'
  BY <1>2, ExitCommandFacts DEF ExitBlocked
<1>3. ASSUME EnableExitCommands, status = "Installing", status' # "Installing"
      PROVE  ExitBlocked'
  BY <1>3, ExitCommandFacts DEF ExitBlocked
<1>4. CASE Quiet
  <2>1. UNCHANGED <<cmdFn, savedFn, status>>
    BY <1>4 DEF Quiet, installerVars, sessionVars, cmdVars
  <2>2. QED
    BY <1>1, <2>1
<1>5. CASE TaskStep
  <2>1. UNCHANGED <<cmdFn, savedFn>>
    BY <1>5 DEF TaskStep, cmdVars
  <2>2. \/ UNCHANGED status
        \/ status' = "None" /\ mpc \in {"spin", "quit spin"}
    BY <1>5, TaskMovesFacts DEF TaskStep, Types, InstallerTypeOK, AbortIsAwaited
  <2>3. QED
    BY <1>1, <2>1, <2>2 DEF Places
<1>6. CASE ZipSeesAbort \/ ZipWrites \/ CheckAnswered \/ Assigned
  <2>1. UNCHANGED <<cmdFn, savedFn, status>>
    BY <1>6 DEF ZipSeesAbort, ZipWrites, CheckAnswered, Assigned, sessionVars, cmdVars
  <2>2. QED
    BY <1>1, <2>1
<1>7. CASE ZipIgnored
  <2>1. UNCHANGED <<cmdFn, savedFn>> /\ ~inProcess
    BY <1>7 DEF ZipIgnored, RunCallback, cmdVars, AbortIsAwaited
  <2>2. UNCHANGED status
    BY <1>7, <2>1 DEF ZipIgnored
  <2>3. QED
    BY <1>1, <2>1, <2>2
<1>8. CASE ZipFailed \/ ZipDownloaded
  <2>1. /\ inProcess /\ responseQueue # <<>> /\ purpose[Front.id] # 0 /\ mpc = "callbacks"
        /\ UNCHANGED <<cmdFn, savedFn>> /\ status' \in {"None", "Extracting"}
    BY <1>8 DEF ZipFailed, ZipDownloaded, RunCallback, EndSession, cmdVars
  <2>2. status = "Downloading"
    BY <2>1, AnswerInItsStage
  <2>3. QED
    BY <1>1, <2>1, <2>2
<1>9. ASSUME NEW at \in Polling, NEW next \in Polling,
             PollFailure(at, next) \/ PollExtracted(at, next)
      PROVE  ExitBlocked'
  <2>1. UNCHANGED <<cmdFn, savedFn>> /\ status # "Installing" /\ status' # "Installing"
    BY <1>9 DEF PollFailure, PollExtracted, StartTask, EndSession, cmdVars
  <2>2. QED
    BY <1>1, <2>1
<1>10. ASSUME NEW at \in Polling, NEW next \in Polling, PollHashed(at, next)
       PROVE  ExitBlocked'
  <2>1. /\ status = "Hashing"
        /\ \/ DisableExitCommands /\ status' = "Installing"
           \/ UNCHANGED <<cmdFn, savedFn>> /\ status' = "Confirming"
    BY <1>10 DEF PollHashed, BeginFileUpdating, cmdVars
  <2>2. QED
    BY <1>1, <1>2, <2>1
<1>11. ASSUME NEW at \in Polling, NEW next \in Polling, PollInstalled(at, next)
       PROVE  ExitBlocked'
  BY <1>3, <1>11 DEF PollInstalled, EndSession
<1>12. CASE AnswerReplaceDialog
  <2>1. /\ status = "Confirming"
        /\ \/ DisableExitCommands /\ status' = "Installing"
           \/ UNCHANGED <<cmdFn, savedFn>> /\ status' = "Confirming"
    BY <1>12 DEF AnswerReplaceDialog, BeginFileUpdating, cmdVars
  <2>2. QED
    BY <1>1, <1>2, <2>1
<1>13. CASE CheckForUpdates \/ QueueRequest \/ CancelTask \/ ShutdownTask
  <2>1. UNCHANGED <<cmdFn, savedFn, status>>
    BY <1>13 DEF CheckForUpdates, QueueRequest, CancelTask, ShutdownTask, sessionVars, cmdVars
  <2>2. QED
    BY <1>1, <2>1
<1>14. CASE StartUpdate \/ PrepareTempDir \/ StartFails \/ StartDownload
  <2>1. /\ UNCHANGED <<cmdFn, savedFn>> /\ status' \in {"None", "Downloading", status}
        /\ ~inProcess \/ mpc \in {"start", "prepared"}
    BY <1>14 DEF StartUpdate, PrepareTempDir, StartFails, StartDownload, Goto, EndSession, cmdVars
  <2>2. status = "None"
    BY <2>1 DEF Places
  <2>3. QED
    BY <1>1, <2>1, <2>2
<1>15. CASE CancelNow \/ ShutdownNow \/ CancelTaskDone \/ ShutdownTaskDone
  <2>1. /\ UNCHANGED <<cmdFn, savedFn>> /\ status' = "None"
        /\ status \in {"Downloading", "Confirming"} \/ mpc \in {"spin", "quit spin"}
    BY <1>15 DEF CancelNow, ShutdownNow, CancelTaskDone, ShutdownTaskDone, Goto, EndSession,
                 cmdVars
  <2>2. status # "Installing"
    BY <2>1 DEF Places
  <2>3. QED
    BY <1>1, <2>1, <2>2
<1>16. QED
  BY <1>4, <1>5, <1>6, <1>7, <1>8, <1>9, <1>10, <1>11, <1>12, <1>13, <1>14, <1>15
     DEF InstallerStep

-----------------------------------------------------------------------------
(* The invariant and what it says *)

\* Before the first session the invariant holds.
LEMMA InstallerInvInit == InstallerInit => InstallerInv
<1> SUFFICES ASSUME InstallerInit PROVE InstallerInv
  OBVIOUS
<1>1. HttpTypeOK /\ PipelineOrder
  BY TypeInit, PipelineInit DEF InstallerInit
<1>2. mpc = "idle" /\ wpc = "lock" /\ nIssued = 0
  BY DEF InstallerInit, HttpInit
<1>3. cmdFn = [c \in Commands |-> "engine"] /\ savedFn = [c \in Commands |-> "null"]
  BY DEF InstallerInit, ExitCommandsInit
<1>4. cmdFn \in [Commands -> Functions] /\ savedFn \in [Commands -> Functions]
  BY <1>3 DEF Functions
<1>5. <<>> \in Seq(1..Chunks) /\ <<>> \in Seq(0..0) /\ Len(<<>>) = 0
  OBVIOUS
<1>6. zip \in [open : BOOLEAN, data : Seq(1..Chunks)] /\ ~zip.open
  BY <1>5 DEF InstallerInit
<1>7. purpose \in Seq(0..session) /\ Len(purpose) = nIssued
  BY <1>2, <1>5 DEF InstallerInit
<1>8. MaxAsk \in Nat
  BY InstallerAssumption
<1>9. InstallerTypeOK
  <2>1. /\ inProcess = FALSE /\ abortRequested = FALSE /\ checkInProgress = FALSE
        /\ overlapped = FALSE
    BY DEF InstallerInit
  <2>2. /\ status = "None" /\ task = NoTask /\ oldTask = NoTask
        /\ tempDir = 0 /\ dirs = {} /\ undeleted = {} /\ filesToAsk = 0 /\ session = 0
    BY DEF InstallerInit
  <2>3. /\ tempDir \in 0..session
        /\ dirs \subseteq 1..session /\ undeleted \subseteq 1..session
        /\ filesToAsk \in 0..MaxAsk /\ session \in Nat
    BY <1>8, <2>2
  <2>4. task \in Tasks /\ oldTask \in Tasks
    BY <2>2, NewTaskFacts
  <2>5. mpc \in MainPlaces /\ status \in Statuses
    BY <1>2, <2>2 DEF MainPlaces, Statuses
  <2>6. QED
    BY <1>4, <1>6, <1>7, <2>1, <2>3, <2>4, <2>5 DEF InstallerTypeOK
<1>10. Types
  BY <1>1, <1>7, <1>9 DEF Types, HttpTypeOK, ClientTypes, InstallerInit
<1>11. Places /\ Staged /\ Requested /\ AbortIsAwaited
  BY <1>2, <1>6, NewTaskFacts
     DEF InstallerInit, Places, Staged, Requested, CheckIsUnderway, AbortIsAwaited
<1>12. OneDownload /\ OwnTask
  <2>1. Downloads = {}
    <3>1. answered = <<>>
      BY DEF InstallerInit, HttpInit
    <3>2. Unanswered = {}
      BY <1>2, <3>1 DEF Unanswered
    <3>3. QED
      BY <3>2 DEF Downloads
  <2>2. QED
    BY <1>2, <2>1, NewTaskFacts DEF InstallerInit, OneDownload, OwnTask
<1>13. ExitBlocked
  BY <1>3 DEF InstallerInit, ExitBlocked, Original, Commands
<1>14. QED
  BY <1>1, <1>10, <1>11, <1>12, <1>13 DEF InstallerInv

\* Every step of any thread keeps it.
LEMMA InstallerInvStep == InstallerInv /\ [Next]_vars => InstallerInv'
<1> SUFFICES ASSUME InstallerInv, [Next]_vars PROVE InstallerInv'
  OBVIOUS
<1>1. /\ Types /\ PipelineOrder /\ AbortIsAwaited /\ Places /\ Staged /\ Requested
      /\ ClientTypes
  BY DEF InstallerInv, Types
<1>2. InstallerStep /\ ClientStep
  BY InstallerStepCases, NextIsClientStep
<1>3. Types' /\ PipelineOrder'
  BY <1>1, <1>2, TypesStep, ClientPipelineStep
<1>4. AbortIsAwaited' /\ Places' /\ Staged' /\ Requested'
  BY <1>1, AwaitStep, PlacesStep, StagedStep, RequestedStep
<1>5. ASSUME ~overlapped' PROVE OneDownload' /\ OwnTask' /\ ExitBlocked'
  <2>1. ~overlapped
    BY <1>1, <1>2, <1>5, OverlapStays
  <2>2. OneDownload /\ OwnTask /\ ExitBlocked
    BY <2>1 DEF InstallerInv
  <2>3. QED
    BY <1>1, <1>2, <1>5, <2>2, OneDownloadStep, OwnTaskStep, ExitBlockedStep
<1>6. QED
  BY <1>3, <1>4, <1>5 DEF InstallerInv

\* Whatever the threads and the user do, the invariant holds.
THEOREM InstallerInvariant == Spec => []InstallerInv
BY InstallerInvInit, InstallerInvStep, PTL DEF Spec

\* The installer's state keeps its types, however many sessions there are.
THEOREM InstallerTypeCorrect == Spec => []InstallerTypeOK
<1>1. InstallerInv => InstallerTypeOK
  BY DEF InstallerInv, Types
<1>2. QED
  BY <1>1, InstallerInvariant, PTL

\* The installer's use of the HTTP client keeps the order of its requests.
THEOREM InstallerKeepsPipeline == Spec => []PipelineOrder
<1>1. InstallerInv => PipelineOrder
  BY DEF InstallerInv
<1>2. QED
  BY <1>1, InstallerInvariant, PTL

\* No abort request outlives the wait for its answer.
THEOREM AbortsAreAwaited == Spec => []AbortIsAwaited
<1>1. InstallerInv => AbortIsAwaited
  BY DEF InstallerInv
<1>2. QED
  BY <1>1, InstallerInvariant, PTL

\* A running task is the session's, and the session's directory is there.
THEOREM TasksAreOwned == Spec => []TaskOwnsSession
<1>1. ASSUME InstallerInv, ~overlapped
      PROVE  /\ oldTask = NoTask
             /\ task.pc = "run" => inProcess /\ status = task.kind /\ tempDir \in dirs
  <2>1. Staged /\ OwnTask
    BY <1>1 DEF InstallerInv
  <2>2. task.pc = "run" => inProcess /\ status = task.kind /\ task.kind \in Stages
    BY <2>1 DEF Staged, OwnTask
  <2>3. task.kind \in Stages => task.kind # "None"
    BY DEF Stages
  <2>4. QED
    BY <2>1, <2>2, <2>3 DEF Staged, OwnTask
<1>2. InstallerInv => TaskOwnsSession
  BY <1>1 DEF TaskOwnsSession
<1>3. QED
  BY <1>2, InstallerInvariant, PTL

\* Quitting is blocked exactly while files are installed.
THEOREM QuittingIsBlocked == Spec => []QuitBlockedWhileInstalling
<1>1. InstallerInv => QuitBlockedWhileInstalling
  BY DEF InstallerInv, ExitBlocked, Replaced, Original, QuitBlockedWhileInstalling, Commands
<1>2. QED
  BY <1>1, InstallerInvariant, PTL

\* A session in process always has what drives it on.
THEOREM StagesAreDriven == Spec => []StageIsDriven
<1>1. ASSUME InstallerInv, inProcess, mpc \in {"idle", "callbacks", "poll"}
      PROVE  \/ status = "Downloading" /\ \E n \in Unanswered : purpose[n] = session
             \/ status \in Stages /\ task.kind = status
             \/ status = "Confirming" /\ filesToAsk > 0
  <2>1. Staged /\ Requested /\ Types
    BY <1>1 DEF InstallerInv
  <2>2. status # "None" /\ (status \in Stages => task.kind = status)
    BY <1>1, <2>1 DEF Staged
  <2>3. CASE status = "Downloading"
    BY <1>1, <2>1, <2>3 DEF Requested
  <2>4. status \in Stages \cup {"None", "Downloading", "Confirming"}
    BY <2>1 DEF Types, InstallerTypeOK, Statuses
  <2>5. QED
    BY <2>1, <2>2, <2>3, <2>4 DEF Types
<1>2. InstallerInv => StageIsDriven
  BY <1>1 DEF StageIsDriven
<1>3. QED
  BY <1>2, InstallerInvariant, PTL

\* No open file outlives its session, and no directory does but one whose removal
\* CleanUp has tried: also when sessions meet older ones' downloads.
THEOREM NothingIsLeft == Spec => []NothingLeftBehind
<1>1. InstallerInv => NothingLeftBehind
  BY DEF InstallerInv, Places, NothingLeftBehind
<1>2. QED
  BY <1>1, InstallerInvariant, PTL

\* While the checker is shown at work its request is on its way.
THEOREM ChecksAreUnderway == Spec => []CheckIsUnderway
<1>1. InstallerInv => CheckIsUnderway
  BY DEF InstallerInv, Requested
<1>2. QED
  BY <1>1, InstallerInvariant, PTL

\* After CHud::Shutdown nothing of the updater runs.
THEOREM ShutdownIsQuiet == Spec => []ShutdownQuiesces
<1>1. ASSUME InstallerInv, mpc = "gone"
      PROVE  wpc = "exit" /\ ~inProcess /\ (~overlapped => Released(task))
  <2>1. wpc = "exit" /\ ~inProcess /\ ~abortRequested
    BY <1>1 DEF InstallerInv, Places, AbortIsAwaited
  <2>2. ASSUME ~overlapped PROVE Released(task)
    <3>1. OwnTask
      BY <1>1, <2>2 DEF InstallerInv
    <3>2. task.pc \in {"none", "run", "final", "clear", "ready"}
      BY <1>1 DEF InstallerInv, Types, InstallerTypeOK, Tasks
    <3>3. QED
      BY <2>1, <3>1, <3>2 DEF OwnTask, Released
  <2>3. QED
    BY <2>1, <2>2
<1>2. InstallerInv => ShutdownQuiesces
  BY <1>1 DEF ShutdownQuiesces
<1>3. QED
  BY <1>2, InstallerInvariant, PTL

=============================================================================
