--------------------------- MODULE UpdateInstaller ---------------------------
(***************************************************************************)
(* CUpdateInstaller (src/game/client/updater/update_installer.cpp) together *)
(* with the HTTP client it downloads with, the exit commands it blocks and *)
(* the update checker's use of the same client.                            *)
(*                                                                         *)
(* Three kinds of threads: the game's main thread (the operations called   *)
(* from dialogs, RunFrame, the response callbacks, Shutdown), the client's *)
(* worker (the write callback), and the std::async task of the stage in    *)
(* progress (extracting, hashing, installing).  They share m_bIsInProcess, *)
(* m_bAbortRequested and m_Status without a lock, and the download file.   *)
(*                                                                         *)
(* A session is one StartUpdate, numbered 1, 2, ...  Every frame of the    *)
(* main thread goes idle -> (http frame) -> callbacks -> poll -> idle, the *)
(* order of hud.cpp:559-561; dialogs and Shutdown act when it is idle.     *)
(* What happens to single files is in module UpdateFiles.                  *)
(***************************************************************************)
EXTENDS HttpClient, ExitCommands, FiniteSets

CONSTANTS
    MaxSessions,    \* bound on the number of update sessions
    MaxChecks,      \* bound on the number of update checks
    TaskSteps,      \* files an async task works through
    MaxAsk          \* most files the user is asked about

ASSUME InstallerAssumption ==
    /\ {MaxSessions, MaxChecks, TaskSteps, MaxAsk} \subseteq Nat
    /\ MaxSessions + MaxChecks <= MaxRequests

VARIABLES
    inProcess,      \* m_bIsInProcess
    abortRequested, \* m_bAbortRequested
    status,         \* m_Status
    task,           \* the std::async task m_AsyncResult refers to
    oldTask,        \* the task m_AsyncResult still waits for while being assigned
    zip,            \* m_ZipDownloadFile: is it open, and the chunks in update.zip
    tempDir,        \* m_TempDir: the session that made it, 0 when empty
    dirs,           \* temporary directories that exist
    undeleted,      \* history: those that CleanUp could not remove
    filesToAsk,     \* m_FilesToAsk from m_iFileToAskIdx on: how many
    checkInProgress,\* CUpdateChecker::m_bInProgress
    session,        \* sessions started so far
    purpose,        \* history: session of each request, 0 for an update check
    overlapped      \* history: a session began while an older download lived

sessionVars == <<inProcess, status, zip, tempDir, dirs, undeleted, filesToAsk>>
taskVars == <<task, oldTask>>
histVars == <<session, purpose, overlapped>>
installerVars == <<sessionVars, taskVars, abortRequested, checkInProgress, histVars, cmdVars>>
vars == <<httpVars, installerVars>>

Stages == {"Extracting", "Hashing", "Installing"}
Statuses == Stages \cup {"None", "Downloading", "Confirming"}

\* An invalid std::future refers to no task.
NoTask == [kind |-> "None", pc |-> "none", left |-> 0, ok |-> FALSE]
NewTask(kind) == [kind |-> kind, pc |-> "run", left |-> TaskSteps, ok |-> TRUE]

\* IsFutureReady
Ready(t) == t.pc = "ready"

\* No task runs whose result the future's destructor or assignment waits for.
Released(t) == t.pc \in {"none", "ready"}

InstallerInit ==
    /\ HttpInit
    /\ ExitCommandsInit
    /\ inProcess = FALSE
    /\ abortRequested = FALSE
    /\ status = "None"
    /\ task = NoTask
    /\ oldTask = NoTask
    /\ zip = [open |-> FALSE, data |-> <<>>]
    /\ tempDir = 0
    /\ dirs = {}
    /\ undeleted = {}
    /\ filesToAsk = 0
    /\ checkInProgress = FALSE
    /\ session = 0
    /\ purpose = <<>>
    /\ overlapped = FALSE

\* The main thread moves from one place to another and leaves the client alone.
Goto(at, next) ==
    /\ mpc = at
    /\ mpc' = next
    /\ UNCHANGED <<wpc, mutex, requestQueue, responseQueue, cur, received,
                   outcome, bShutdown, bAbort, nIssued, answered, abortCalls>>

\* Requests whose callback has not been called.
Unanswered == Len(answered) + 1 .. nIssued

-----------------------------------------------------------------------------
(* The end of a session.                                                   *)

\* Mutant: the path is cleared before the directory it names is removed.
CleanUp_ForgetsDirectory ==
    /\ zip' = [zip EXCEPT !.open = FALSE]
    /\ tempDir' = 0
    /\ filesToAsk' = 0
    /\ UNCHANGED <<dirs, undeleted>>

\* CleanUp: the file is closed and the lists are cleared.  The temporary
\* directory is removed, or fs::remove_all throws (or update_keep_temp is set),
\* nothing is said of it, and the path is cleared all the same.
CleanUp ==
    /\ zip' = [zip EXCEPT !.open = FALSE]
    /\ \/ dirs' = dirs \ {tempDir} /\ UNCHANGED undeleted
       \/ tempDir # 0 /\ undeleted' = undeleted \cup {tempDir} /\ UNCHANGED dirs
    /\ tempDir' = 0
    /\ filesToAsk' = 0

\* ErrorOccured, and the same steps spelled out in UpdateInstallStatus and
\* Shutdown: the session is over.
EndSession ==
    /\ status' = "None"
    /\ CleanUp
    /\ inProcess' = FALSE

-----------------------------------------------------------------------------
(* The async tasks.  An extracting or hashing task looks at the abort flag  *)
(* before each file; every task looks at it once more when it is done.     *)

\* One file is extracted, hashed or copied, or that throws and ends the loop.
TaskWorks(t, u) ==
    /\ t.pc = "run" /\ t.left > 0
    /\ t.kind = "Installing" \/ ~abortRequested
    /\ \/ u = [t EXCEPT !.left = @ - 1]
       \/ u = [t EXCEPT !.ok = FALSE, !.pc = "final"]
    /\ UNCHANGED <<abortRequested, status>>

\* The loop sees the abort flag and breaks.
TaskAborts(t, u) ==
    /\ t.pc = "run" /\ t.left > 0
    /\ t.kind # "Installing" /\ abortRequested
    /\ u = [t EXCEPT !.ok = FALSE, !.pc = "final"]
    /\ UNCHANGED <<abortRequested, status>>

\* The loop is over; what follows it (directory checks, closing the archive)
\* may still throw.
TaskLoopEnds(t, u) ==
    /\ t.pc = "run" /\ t.left = 0
    /\ \E ok \in BOOLEAN : u = [t EXCEPT !.ok = ok, !.pc = "final"]
    /\ UNCHANGED <<abortRequested, status>>

\* The last look at the abort flag: without one the task returns its result.
TaskReturns(t, u) ==
    /\ t.pc = "final" /\ ~abortRequested
    /\ u = [t EXCEPT !.pc = "ready"]
    /\ UNCHANGED <<abortRequested, status>>

\* With one, the status is reset ...
TaskResetsStatus(t, u) ==
    /\ t.pc = "final" /\ abortRequested
    /\ u = [t EXCEPT !.pc = "clear"]
    /\ status' = "None"
    /\ UNCHANGED abortRequested

\* ... and then the flag the main thread waits for.
TaskClearsAbort(t, u) ==
    /\ t.pc = "clear"
    /\ u = [t EXCEPT !.pc = "ready"]
    /\ abortRequested' = FALSE
    /\ UNCHANGED status

TaskMoves(t, u) ==
    \/ TaskWorks(t, u) \/ TaskAborts(t, u) \/ TaskLoopEnds(t, u)
    \/ TaskReturns(t, u) \/ TaskResetsStatus(t, u) \/ TaskClearsAbort(t, u)

TaskStep ==
    /\ \/ TaskMoves(task, task') /\ UNCHANGED oldTask
       \/ TaskMoves(oldTask, oldTask') /\ UNCHANGED task
    /\ UNCHANGED <<httpVars, inProcess, zip, tempDir, dirs, undeleted, filesToAsk,
                   checkInProgress, histVars, cmdVars>>

-----------------------------------------------------------------------------
(* The worker's callback.                                                  *)

\* An update check collects its data in memory and takes every chunk.
CheckWrites ==
    /\ WriteData("perform", TRUE)
    /\ purpose[cur] = 0
    /\ UNCHANGED installerVars

\* The write callback of DownloadZipFile, whatever session it was made for: it
\* refuses the chunk when nothing is in process or an abort is requested (which
\* it clears) ...
ZipRefused ==
    /\ WriteData("perform", FALSE)
    /\ purpose[cur] # 0
    /\ ~inProcess
    /\ UNCHANGED installerVars

ZipSeesAbort ==
    /\ WriteData("perform", FALSE)
    /\ purpose[cur] # 0
    /\ inProcess /\ abortRequested
    /\ abortRequested' = FALSE
    /\ UNCHANGED <<sessionVars, taskVars, checkInProgress, histVars, cmdVars>>

\* ... and otherwise goes on to write it: before it does, the main thread may
\* end the session it has found in process, and begin another.
ZipTested ==
    /\ WriteBegins
    /\ purpose[cur] # 0
    /\ inProcess /\ ~abortRequested
    /\ UNCHANGED installerVars

\* The chunk goes to the file that is open now; the write fails when the stream
\* has been closed meanwhile or the disk is full.
ZipWrites ==
    /\ \/ /\ WriteData("write", TRUE)
          /\ zip.open
          /\ zip' = [zip EXCEPT !.data = Append(@, received + 1)]
       \/ /\ WriteData("write", FALSE)
          /\ UNCHANGED zip
    /\ UNCHANGED <<inProcess, status, tempDir, dirs, undeleted, filesToAsk, taskVars,
                   abortRequested, checkInProgress, histVars, cmdVars>>

\* The steps of the client's worker.
Worker ==
    \/ WorkerStep /\ UNCHANGED installerVars
    \/ CheckWrites \/ ZipRefused \/ ZipSeesAbort \/ ZipTested \/ ZipWrites

-----------------------------------------------------------------------------
(* The response callbacks, on the main thread inside CHttpClient::RunFrame. *)

Front == Head(responseQueue)

\* Mutant: m_bInProgress is only reset when the request succeeded.
CheckAnswered_OnSuccess ==
    /\ responseQueue # <<>> /\ purpose[Front.id] = 0
    /\ RunCallback("callbacks")
    /\ checkInProgress' = (Front.outcome # "ok")
    /\ UNCHANGED <<sessionVars, taskVars, abortRequested, histVars, cmdVars>>

\* CUpdateChecker::OnDataLoaded
CheckAnswered ==
    /\ responseQueue # <<>> /\ purpose[Front.id] = 0
    /\ RunCallback("callbacks")
    /\ checkInProgress' = FALSE
    /\ UNCHANGED <<sessionVars, taskVars, abortRequested, histVars, cmdVars>>

\* The download file is closed.  Without an update in process that is all; the
\* abort flag, which the main thread reads here too, would be cleared.
ZipIgnored ==
    /\ responseQueue # <<>> /\ purpose[Front.id] # 0
    /\ ~inProcess \/ abortRequested
    /\ RunCallback("callbacks")
    /\ zip' = [zip EXCEPT !.open = FALSE]
    /\ status' = IF inProcess THEN "None" ELSE status
    /\ abortRequested' = (abortRequested /\ ~inProcess)
    /\ UNCHANGED <<inProcess, tempDir, dirs, undeleted, filesToAsk, taskVars,
                   checkInProgress, histVars, cmdVars>>

\* The download failed, or ExtractZipFile cannot open the archive.
ZipFailed ==
    /\ responseQueue # <<>> /\ purpose[Front.id] # 0
    /\ inProcess /\ ~abortRequested
    /\ RunCallback("callbacks")
    /\ EndSession
    /\ UNCHANGED <<taskVars, abortRequested, checkInProgress, histVars, cmdVars>>

\* The archive is all there and ExtractZipFile starts its task: assigning the
\* new future to m_AsyncResult waits for the task of the one it replaces.
ZipDownloaded ==
    /\ responseQueue # <<>> /\ purpose[Front.id] # 0
    /\ inProcess /\ ~abortRequested
    /\ Front.outcome = "ok"
    /\ zip.data = [i \in 1..Chunks |-> i]
    /\ RunCallback(IF Released(task) THEN "callbacks" ELSE "assign")
    /\ zip' = [zip EXCEPT !.open = FALSE]
    /\ status' = "Extracting"
    /\ task' = NewTask("Extracting")
    /\ oldTask' = IF Released(task) THEN NoTask ELSE task
    /\ UNCHANGED <<inProcess, tempDir, dirs, undeleted, filesToAsk, abortRequested,
                   checkInProgress, histVars, cmdVars>>

\* The old task has returned and the assignment goes on.
Assigned ==
    /\ Ready(oldTask)
    /\ Goto("assign", "callbacks")
    /\ oldTask' = NoTask
    /\ UNCHANGED <<sessionVars, task, abortRequested, checkInProgress, histVars, cmdVars>>

Callback ==
    \/ CheckAnswered \/ ZipIgnored \/ ZipFailed \/ ZipDownloaded \/ Assigned

\* The client's part of the frame around the callbacks.
HttpFrame ==
    /\ RunFrameLock("idle") \/ RunFrameReturn("poll")
    /\ UNCHANGED installerVars

-----------------------------------------------------------------------------
(* CUpdateInstaller::RunFrame, from the frame or from a loop that waits for *)
(* the installation (`at`), with the polling of the stage in progress.     *)

\* HashFiles, after ReadUpdateMetadata and PrepareFileList.
StartTask(kind) ==
    /\ status' = kind
    /\ task' = NewTask(kind)
    /\ UNCHANGED <<inProcess, zip, tempDir, dirs, undeleted, filesToAsk>>

\* BeginFileUpdating
BeginFileUpdating ==
    /\ status' = "Installing"
    /\ task' = NewTask("Installing")
    /\ filesToAsk' = 0
    /\ DisableExitCommands
    /\ UNCHANGED <<inProcess, zip, tempDir, dirs, undeleted>>

\* Nothing to poll, or the task is not ready and only the dialog is updated.
PollNothing(at, next) ==
    /\ Goto(at, next)
    /\ ~inProcess \/ status \notin Stages \/ ~Ready(task)
    /\ UNCHANGED installerVars

PollFailure(at, next) ==
    /\ Goto(at, next)
    /\ inProcess /\ status \in Stages \ {"Installing"} /\ Ready(task)
    /\ task' = NoTask
    /\ EndSession
    /\ UNCHANGED <<oldTask, abortRequested, checkInProgress, histVars, cmdVars>>

\* UpdateExtractionStatus
PollExtracted(at, next) ==
    /\ Goto(at, next)
    /\ inProcess /\ status = "Extracting" /\ Ready(task) /\ task.ok
    /\ StartTask("Hashing")
    /\ UNCHANGED <<oldTask, abortRequested, checkInProgress, histVars, cmdVars>>

\* Mutant: the replace dialog is opened without looking for files to ask about.
PollHashed_AlwaysAsks(at, next) ==
    /\ Goto(at, next)
    /\ inProcess /\ status = "Hashing" /\ Ready(task) /\ task.ok
    /\ filesToAsk' \in 0..MaxAsk
    /\ status' = "Confirming"
    /\ task' = NoTask
    /\ UNCHANGED <<inProcess, zip, tempDir, dirs, undeleted, cmdVars, oldTask, abortRequested,
                   checkInProgress, histVars>>

\* UpdateHashingStatus: ValidateUpdateFiles leaves files to ask about or none.
PollHashed(at, next) ==
    /\ Goto(at, next)
    /\ inProcess /\ status = "Hashing" /\ Ready(task) /\ task.ok
    /\ \/ BeginFileUpdating
       \/ /\ filesToAsk' \in 1..MaxAsk
          /\ status' = "Confirming"
          /\ task' = NoTask
          /\ UNCHANGED <<inProcess, zip, tempDir, dirs, undeleted, cmdVars>>
    /\ UNCHANGED <<oldTask, abortRequested, checkInProgress, histVars>>

\* Mutants: the exit commands are only enabled after a success; a failure leaves
\* the session in process.
PollInstalled_EnablesOnSuccess(at, next) ==
    /\ Goto(at, next)
    /\ inProcess /\ status = "Installing" /\ Ready(task)
    /\ task' = NoTask
    /\ IF task.ok THEN EnableExitCommands ELSE UNCHANGED cmdVars
    /\ EndSession
    /\ UNCHANGED <<oldTask, abortRequested, checkInProgress, histVars>>

PollInstalled_OnSuccess(at, next) ==
    /\ Goto(at, next)
    /\ inProcess /\ status = "Installing" /\ Ready(task) /\ task.ok
    /\ task' = NoTask
    /\ EnableExitCommands
    /\ EndSession
    /\ UNCHANGED <<oldTask, abortRequested, checkInProgress, histVars>>

\* UpdateInstallStatus: success and failure both end the session.
PollInstalled(at, next) ==
    /\ Goto(at, next)
    /\ inProcess /\ status = "Installing" /\ Ready(task)
    /\ task' = NoTask
    /\ EnableExitCommands
    /\ EndSession
    /\ UNCHANGED <<oldTask, abortRequested, checkInProgress, histVars>>

InstallerRunFrame(at, next) ==
    \/ PollNothing(at, next) \/ PollFailure(at, next) \/ PollExtracted(at, next)
    \/ PollHashed(at, next) \/ PollInstalled(at, next)

-----------------------------------------------------------------------------
(* What the dialogs and the console call.                                  *)

\* CUpdateChecker::FetchReleaseList up to the call of Get.
CheckForUpdates ==
    /\ Goto("idle", "get check")
    /\ ~checkInProgress
    /\ Cardinality({n \in 1..nIssued : purpose[n] = 0}) < MaxChecks
    /\ checkInProgress' = TRUE
    /\ UNCHANGED <<sessionVars, taskVars, abortRequested, histVars, cmdVars>>

\* StartUpdate up to the reset of m_AsyncResult, which waits for the task an
\* earlier session left behind.
StartUpdate ==
    /\ Goto("idle", "start")
    /\ ~inProcess
    /\ session < MaxSessions
    /\ session' = session + 1
    /\ overlapped' = (overlapped \/ \E n \in Unanswered : purpose[n] # 0)
    /\ inProcess' = TRUE
    /\ abortRequested' = FALSE
    /\ status' = "None"
    /\ tempDir' = 0
    /\ filesToAsk' = 0
    /\ UNCHANGED <<zip, dirs, undeleted, taskVars, checkInProgress, purpose, cmdVars>>

\* PrepareTempDir makes a directory under a name that no existing one has.
PrepareTempDir ==
    /\ Goto("start", "prepared")
    /\ Released(task)
    /\ task' = NoTask
    /\ tempDir' = session
    /\ dirs' = dirs \cup {session}
    /\ UNCHANGED <<inProcess, status, zip, undeleted, filesToAsk, oldTask, abortRequested,
                   checkInProgress, histVars, cmdVars>>

\* The updater is disabled, or ReadMetadata or PrepareTempDir fails; or, with a
\* directory to clean up, DownloadZipFile does.
StartFails ==
    /\ Goto("start", "idle") \/ Goto("prepared", "idle")
    /\ Released(task)
    /\ task' = NoTask
    /\ EndSession
    /\ UNCHANGED <<oldTask, abortRequested, checkInProgress, histVars, cmdVars>>

\* DownloadZipFile opens the download file and the request is ready to be queued.
StartDownload ==
    /\ Goto("prepared", "get zip")
    /\ zip' = [open |-> TRUE, data |-> <<>>]
    /\ status' = "Downloading"
    /\ UNCHANGED <<inProcess, tempDir, dirs, undeleted, filesToAsk, taskVars,
                   abortRequested, checkInProgress, histVars, cmdVars>>

QueueRequest ==
    /\ \/ Get("get check", "idle") /\ purpose' = Append(purpose, 0)
       \/ Get("get zip", "idle") /\ purpose' = Append(purpose, session)
    /\ UNCHANGED <<sessionVars, taskVars, abortRequested, checkInProgress,
                   session, overlapped, cmdVars>>

\* CancelInstallation in the stages without an async task: only a download has
\* something to abort.
CancelNow ==
    /\ inProcess /\ status \in {"Downloading", "Confirming"}
    /\ mpc = "idle"
    /\ IF status = "Downloading" THEN RaiseAbort ELSE UNCHANGED <<bAbort, abortCalls>>
    /\ EndSession
    /\ UNCHANGED <<mpc, wpc, mutex, requestQueue, responseQueue, cur, received,
                   outcome, bShutdown, nIssued, answered>>
    /\ UNCHANGED <<taskVars, abortRequested, checkInProgress, histVars, cmdVars>>

\* Mutant: the abort is requested, and nobody waits for the task to see it.
CancelTask_NoWait ==
    /\ mpc = "idle"
    /\ inProcess /\ status \in {"Extracting", "Hashing"}
    /\ abortRequested' = TRUE
    /\ EndSession
    /\ UNCHANGED <<httpVars, taskVars, checkInProgress, histVars, cmdVars>>

\* While extracting or hashing it asks the task to stop and spins on the flag.
CancelTask ==
    /\ Goto("idle", "spin")
    /\ inProcess /\ status \in {"Extracting", "Hashing"}
    /\ abortRequested' = TRUE
    /\ UNCHANGED <<sessionVars, taskVars, checkInProgress, histVars, cmdVars>>

\* Mutant: the session is cleaned up while its task may still be running.
CancelTaskDone_Early ==
    /\ Goto("spin", "idle")
    /\ EndSession
    /\ abortRequested' = FALSE
    /\ UNCHANGED <<taskVars, checkInProgress, histVars, cmdVars>>

CancelTaskDone ==
    /\ Goto("spin", "idle")
    /\ ~abortRequested
    /\ EndSession
    /\ UNCHANGED <<taskVars, abortRequested, checkInProgress, histVars, cmdVars>>

\* While installing it waits for the end in a loop around RunFrame.
CancelInstalling ==
    /\ Goto("idle", "wait install")
    /\ inProcess /\ status = "Installing"
    /\ UNCHANGED installerVars

InstallWait ==
    \/ inProcess /\ InstallerRunFrame("wait install", "wait install")
    \/ /\ ~inProcess
       /\ Goto("wait install", "idle")
       /\ UNCHANGED installerVars

\* Mutant: the index is advanced without looking whether it was the last file.
AnswerReplaceDialog_NeverLast ==
    /\ Goto("idle", "idle")
    /\ status = "Confirming"
    /\ filesToAsk' = filesToAsk - 1
    /\ UNCHANGED <<inProcess, status, zip, tempDir, dirs, undeleted, taskVars, cmdVars,
                   abortRequested, checkInProgress, histVars>>

\* CUpdateFileReplaceDialog's buttons: ShowNextReplaceDialog for one file or for
\* all that are left.
AnswerReplaceDialog ==
    /\ Goto("idle", "idle")
    /\ status = "Confirming"
    /\ \E n \in {1, filesToAsk} :
          IF n = filesToAsk
          THEN BeginFileUpdating
          ELSE /\ filesToAsk' = filesToAsk - n
               /\ UNCHANGED <<inProcess, status, zip, tempDir, dirs, undeleted, task, cmdVars>>
    /\ UNCHANGED <<oldTask, abortRequested, checkInProgress, histVars>>

-----------------------------------------------------------------------------
(* CHud::Shutdown: the installer first, then the HTTP client.              *)

ShutdownIdle ==
    /\ Goto("idle", "shutdown")
    /\ ~inProcess
    /\ UNCHANGED installerVars

ShutdownNow ==
    /\ mpc = "idle" /\ mpc' = "shutdown"
    /\ inProcess /\ status \in {"Downloading", "Confirming"}
    /\ IF status = "Downloading" THEN RaiseAbort ELSE UNCHANGED <<bAbort, abortCalls>>
    /\ EndSession
    /\ UNCHANGED <<wpc, mutex, requestQueue, responseQueue, cur, received,
                   outcome, bShutdown, nIssued, answered>>
    /\ UNCHANGED <<taskVars, abortRequested, checkInProgress, histVars, cmdVars>>

ShutdownTask ==
    /\ Goto("idle", "quit spin")
    /\ inProcess /\ status \in {"Extracting", "Hashing", "None"}
    /\ abortRequested' = TRUE
    /\ UNCHANGED <<sessionVars, taskVars, checkInProgress, histVars, cmdVars>>

\* Mutant: Shutdown does not wait for the task.
ShutdownTaskDone_Early ==
    /\ Goto("quit spin", "shutdown")
    /\ EndSession
    /\ abortRequested' = FALSE
    /\ UNCHANGED <<taskVars, checkInProgress, histVars, cmdVars>>

ShutdownTaskDone ==
    /\ Goto("quit spin", "shutdown")
    /\ ~abortRequested
    /\ EndSession
    /\ UNCHANGED <<taskVars, abortRequested, checkInProgress, histVars, cmdVars>>

ShutdownInstalling ==
    /\ Goto("idle", "quit install")
    /\ inProcess /\ status = "Installing"
    /\ UNCHANGED installerVars

QuitWait ==
    \/ inProcess /\ InstallerRunFrame("quit install", "quit install")
    \/ /\ ~inProcess
       /\ Goto("quit install", "shutdown")
       /\ UNCHANGED installerVars

HttpShutdown ==
    /\ ShutdownSignal("shutdown") \/ Join
    /\ UNCHANGED installerVars

\* The main thread is gone and so are the threads it waited for.
GameOver ==
    /\ mpc = "gone" /\ Released(task)
    /\ UNCHANGED vars

-----------------------------------------------------------------------------
Command ==
    \/ CheckForUpdates \/ StartUpdate \/ CancelNow \/ CancelTask \/ CancelInstalling
    \/ AnswerReplaceDialog
    \/ ShutdownIdle \/ ShutdownNow \/ ShutdownTask \/ ShutdownInstalling

\* What the main thread goes on with by itself.
Main ==
    \/ HttpFrame \/ Callback \/ InstallerRunFrame("poll", "idle")
    \/ PrepareTempDir \/ StartFails \/ StartDownload \/ QueueRequest
    \/ CancelTaskDone \/ InstallWait
    \/ ShutdownTaskDone \/ QuitWait \/ HttpShutdown

Next == Command \/ Main \/ Worker \/ TaskStep \/ GameOver

Spec == InstallerInit /\ [][Next]_vars

(***************************************************************************)
(* The main thread and the async tasks keep running, and so does the       *)
(* worker except for the network, which may leave a transfer unfinished    *)
(* for ever.  HttpFrame and the like take the mutex: see FairHttpSpec.     *)
(***************************************************************************)
FairSpec ==
    /\ Spec
    /\ SF_vars(Main)
    /\ WF_vars(TaskStep)
    /\ SF_vars((WorkerExit \/ WorkerPop \/ WorkerRespond) /\ UNCHANGED installerVars)
    /\ WF_vars(\/ (WorkerSleep \/ WorkerPerform \/ ProgressSees \/ ProgressCallback)
                  /\ UNCHANGED installerVars
               \/ ZipWrites)

-----------------------------------------------------------------------------
(* Properties.  Those that start with ~overlapped do not hold once a       *)
(* session has begun while the download of a cancelled one was alive: the   *)
(* counterexample of CancelledDownloadIsInert shows why.                   *)

MainPlaces ==
    {"idle", "callbacks", "assign", "poll", "get check", "get zip", "start", "prepared",
     "spin", "wait install", "quit spin", "quit install", "shutdown", "join", "gone"}

Tasks == [kind : Stages \cup {"None"},
          pc : {"none", "run", "final", "clear", "ready"},
          left : 0..TaskSteps, ok : BOOLEAN]

\* The types of the installer's state, and that the directories are those of
\* sessions that were started.
InstallerTypeOK ==
    /\ mpc \in MainPlaces
    /\ inProcess \in BOOLEAN /\ abortRequested \in BOOLEAN
    /\ status \in Statuses
    /\ task \in Tasks /\ oldTask \in Tasks
    /\ zip \in [open : BOOLEAN, data : Seq(1..Chunks)]
    /\ tempDir \in 0..session
    /\ dirs \subseteq 1..session /\ undeleted \subseteq 1..session
    /\ filesToAsk \in 0..MaxAsk
    /\ checkInProgress \in BOOLEAN
    /\ session \in Nat
    /\ purpose \in Seq(0..session)
    /\ overlapped \in BOOLEAN
    /\ cmdFn \in [Commands -> Functions] /\ savedFn \in [Commands -> Functions]

\* An abort request never outlives the wait for its answer: whenever the main
\* thread is not waiting in CancelInstallation or Shutdown the flag is down, so
\* no later stage or session starts with an abort pending (the asserts at
\* update_installer.cpp:240, 1399 and 1427).
AbortIsAwaited == abortRequested => mpc \in {"spin", "quit spin"}

\* A task that still works on files belongs to the session in process and to its
\* stage, and works in a temporary directory that exists: nothing is cleaned up
\* under a running extraction, hashing or installation.
TaskOwnsSession ==
    ~overlapped =>
        /\ oldTask = NoTask
        /\ task.pc = "run" =>
              /\ inProcess
              /\ status = task.kind
              /\ tempDir \in dirs

\* Quitting is blocked exactly while files are being installed: the stub is in
\* place for the whole stage and the engine's own command is back after it,
\* however the installation ends.
QuitBlockedWhileInstalling ==
    ~overlapped =>
        /\ inProcess /\ status = "Installing" => \A c \in Commands : cmdFn[c] = "stub"
        /\ status # "Installing" => cmdFn["quit"] = "engine"

\* A session in process is never stranded: between the main thread's steps its
\* stage has what drives it on (its own request, a task of its kind to poll, a
\* file to ask about).
StageIsDriven ==
    inProcess /\ mpc \in {"idle", "callbacks", "poll"} =>
        \/ status = "Downloading" /\ \E n \in Unanswered : purpose[n] = session
        \/ status \in Stages /\ task.kind = status
        \/ status = "Confirming" /\ filesToAsk > 0

\* Outside a session no file is open, and the only temporary directories that
\* are left are those whose removal was tried and refused: however a session
\* ends, and whatever an older one's download does meanwhile, the path of its
\* directory is not lost before CleanUp has been at it.
NothingLeftBehind ==
    ~inProcess => dirs \subseteq undeleted /\ ~zip.open

\* "Checking for updates" is never stuck: while it is shown, a request of the
\* checker is on its way.
CheckIsUnderway ==
    checkInProgress => mpc = "get check" \/ \E n \in Unanswered : purpose[n] = 0

\* When CHud::Shutdown has returned nothing of the updater runs: no worker, no
\* session and no async task ("Stops all async tasks", update_installer.h:31).
ShutdownQuiesces ==
    mpc = "gone" =>
        /\ wpc = "exit"
        /\ ~inProcess
        /\ ~overlapped => Released(task)

\* An installation comes to its end, whatever the user cancels, answers or quits.
InstallationEnds ==
    (~overlapped /\ inProcess /\ status = "Installing") ~> ~inProcess

\* CancelInstallation returns ("Cancels the installation", update_installer.h:51).
CancelReturns == mpc = "spin" ~> mpc # "spin"

\* What a cancelled session has left in the HTTP client does nothing to a later
\* one: when a request is answered that is not the current session's, that
\* session goes on ("Cancels the installation", update_installer.h:51).
CancelledDownloadIsInert ==
    [][answered' # answered /\ purpose[Len(answered')] \notin {0, session}
         => UNCHANGED <<inProcess, status, task>>]_vars
=============================================================================
