----------------------------- MODULE UpdateFiles -----------------------------
(***************************************************************************)
(* What an update does to the files of the installation: the hashing,      *)
(* validation, replace dialog and copying of CUpdateInstaller              *)
(* (src/game/client/updater/update_installer.cpp), over several attempts   *)
(* to install the same release, with failures, a crash of the game and     *)
(* edits by the user in between.  The threads and the download are in      *)
(* module UpdateInstaller.                                                 *)
(*                                                                         *)
(* A file's content stands for its SHA-1 hash: "a" and "b" are contents    *)
(* that releases ship, "user" is an edit, "torn" a copy that was cut off,  *)
(* and "none" means there is no such file, or no entry in the metadata.    *)
(* Files are numbered in the order of m_FileHashes, a std::map.            *)
(***************************************************************************)
EXTENDS Naturals, Sequences, FiniteSets

CONSTANTS
    NumFiles,       \* files in the new release's metadata
    MaxAttempts,    \* bound on the number of sessions
    MaxEdits        \* bound on the number of edits by the user

ASSUME FilesAssumption == {NumFiles, MaxAttempts, MaxEdits} \subseteq Nat

Files == 1..NumFiles

Shipped == {"a", "b"}
Contents == Shipped \cup {"user", "torn", "none"}

\* "special" files are locked while the game runs (Plat_IsSpecialFile) and are
\* platform files as well; "modifiable" is the metadata's user_modifiable flag.
Kinds == {"plain", "plat", "special", "modifiable"}

VARIABLES
    kind,           \* what each file is
    metaNew,        \* the new release's metadata: content of each file
    metaDisk,       \* metadata of the installation, on disk
    fs,             \* the installation's files
    phase,          \* where the session is
    metaOld,        \* m_CurrentMetadata, as read when the session began
    newFiles,       \* the files in m_UpdateDir, as downloaded
    oldPath,        \* FileHash::oldPath is not empty: the file existed
    realOld,        \* FileHash::realOldHash
    realNew,        \* FileHash::realNewHash
    pos,            \* position of the loop over the files (0: the metadata)
    copying,        \* the file at pos is partly copied
    filesToAsk,     \* m_FilesToAsk
    askIdx,         \* m_iFileToAskIdx
    filesToUpdate,  \* m_FilesToUpdate
    attempts,       \* sessions started
    edits,          \* edits made
    confirmed,      \* history: files the user agreed to replace
    declined,       \* history: files the user wants to keep
    editedLate,     \* history: files edited after they were hashed
    pristine,       \* history: files that were as installed and never edited
    interrupted     \* history: an installation failed or crashed before

release == <<kind, metaNew>>
hashes == <<oldPath, realOld, realNew>>
lists == <<filesToAsk, askIdx, filesToUpdate>>
answers == <<confirmed, declined>>
session == <<metaOld, newFiles, hashes, lists, answers>>
filesVars == <<release, metaDisk, fs, phase, session, pos, copying, attempts,
               edits, editedLate, pristine, interrupted>>

NoFile == [f \in Files |-> "none"]
IsTorn(meta) == \E f \in DOMAIN meta : meta[f] = "torn"

FilesInit ==
    /\ kind \in [Files -> Kinds]
    /\ metaNew \in [Files -> Shipped]
    /\ metaDisk \in [Files -> {"a", "none"}]
    /\ fs \in [Files -> {"a", "b", "user", "none"}]
    /\ phase = "idle"
    /\ metaOld = NoFile /\ newFiles = NoFile
    /\ oldPath = [f \in Files |-> FALSE]
    /\ realOld = NoFile /\ realNew = NoFile
    /\ pos = 0 /\ copying = FALSE
    /\ filesToAsk = <<>> /\ askIdx = 1 /\ filesToUpdate = <<>>
    /\ attempts = 0 /\ edits = 0
    /\ confirmed = {} /\ declined = {} /\ editedLate = {}
    /\ pristine = {f \in Files : fs[f] = metaDisk[f]}
    /\ interrupted = FALSE

-----------------------------------------------------------------------------
(* The decision of ValidateUpdateFiles, file by file.                      *)

IsPlatFile(f) == oldPath[f] /\ kind[f] \in {"plat", "special"}

UpToDate(f) == realOld[f] # "none" /\ metaNew[f] = realOld[f]

\* Mutant: the flag only protects a file that is not there.
UserModifiable_Missing(f) == realOld[f] = "none" /\ kind[f] = "modifiable"

UserModifiable(f) == realOld[f] # "none" /\ kind[f] = "modifiable"

\* Mutant: a file that was deleted is not restored.
Outdated_NotMissing(f) ==
    \/ IsPlatFile(f)
    \/ metaOld[f] = "none"
    \/ metaOld[f] # metaNew[f]

\* Updated in the new release, a platform file, or missing on disk.
Outdated(f) ==
    \/ IsPlatFile(f)
    \/ metaOld[f] = "none"
    \/ metaOld[f] # metaNew[f]
    \/ realOld[f] = "none"

Candidate(f) == ~UpToDate(f) /\ ~UserModifiable(f) /\ Outdated(f)

\* Mutant: a file that is new in the release is never asked about.
NeedToAsk_OnlyUpdated(f) ==
    /\ ~IsPlatFile(f)
    /\ metaOld[f] # "none"
    /\ metaOld[f] # realOld[f] /\ metaNew[f] # realOld[f]

NeedToAsk(f) ==
    /\ ~IsPlatFile(f)
    /\ IF metaOld[f] = "none"
       THEN realOld[f] # "none" /\ metaNew[f] # realOld[f]
       ELSE metaOld[f] # realOld[f] /\ metaNew[f] # realOld[f]

\* The files in S, in the order of the map.
InOrder(S) ==
    LET upTo[n \in Nat] ==
            IF n = 0 THEN <<>>
            ELSE IF n \in S THEN Append(upTo[n - 1], n) ELSE upTo[n - 1]
    IN  upTo[NumFiles]

\* Mutant: the new files only have to exist.
HashMismatch_Missing == \E f \in Files : realNew[f] = "none"

HashMismatch == \E f \in Files : realNew[f] # metaNew[f]

-----------------------------------------------------------------------------
\* The session is over (CleanUp, or the end of the process).
Leave ==
    /\ phase' = "idle"
    /\ filesToAsk' = <<>> /\ filesToUpdate' = <<>>
    /\ oldPath' = [f \in Files |-> FALSE]
    /\ realOld' = NoFile /\ realNew' = NoFile
    /\ metaOld' = NoFile /\ newFiles' = NoFile
    /\ confirmed' = {} /\ declined' = {} /\ editedLate' = {}
    /\ pos' = 0 /\ copying' = FALSE

\* ReadMetadata and, once the archive is unpacked, PrepareFileList.  What was
\* downloaded may not be what the metadata says.  Metadata that is not JSON any
\* more ends the session at once.
StartSession ==
    /\ phase = "idle"
    /\ attempts < MaxAttempts
    /\ ~IsTorn(metaDisk)
    /\ attempts' = attempts + 1
    /\ metaOld' = metaDisk
    /\ \/ newFiles' = metaNew
       \/ \E f \in Files : newFiles' = [metaNew EXCEPT ![f] = "torn"]
    /\ oldPath' = [f \in Files |-> fs[f] # "none"]
    /\ phase' = "hashing"
    /\ pos' = 1
    /\ askIdx' = 1
    /\ UNCHANGED <<release, metaDisk, fs, realOld, realNew, copying, filesToAsk,
                   filesToUpdate, answers, edits, editedLate, pristine, interrupted>>

\* HashFiles, one file: an old file that has gone since throws.
HashFile ==
    /\ phase = "hashing" /\ pos <= NumFiles
    /\ oldPath[pos] => fs[pos] # "none"
    /\ realNew' = [realNew EXCEPT ![pos] = newFiles[pos]]
    /\ realOld' = [realOld EXCEPT ![pos] = IF oldPath[pos] THEN fs[pos] ELSE "none"]
    /\ pos' = pos + 1
    /\ UNCHANGED <<release, metaDisk, fs, phase, metaOld, newFiles, oldPath,
                   lists, answers, copying, attempts, edits, editedLate, pristine, interrupted>>

\* Hashing or validation fails, or the user cancels before anything is copied.
GiveUp ==
    /\ phase \in {"hashing", "confirming"}
    /\ Leave
    /\ askIdx' = askIdx
    /\ UNCHANGED <<release, metaDisk, fs, attempts, edits, pristine, interrupted>>

\* ValidateUpdateFiles, then the replace dialog or the copying.
Validate ==
    /\ phase = "hashing" /\ pos > NumFiles
    /\ ~HashMismatch
    /\ LET asked == {f \in Files : Candidate(f) /\ NeedToAsk(f)}
           updated == {f \in Files : Candidate(f) /\ ~NeedToAsk(f)}
       IN  /\ filesToAsk' = InOrder(asked)
           /\ filesToUpdate' = InOrder(updated)
           /\ phase' = IF asked = {} THEN "installing" ELSE "confirming"
    /\ pos' = 0
    /\ UNCHANGED <<release, metaDisk, fs, metaOld, newFiles, hashes, askIdx,
                   answers, copying, attempts, edits, editedLate, pristine, interrupted>>

\* Mutants: "for all" starts over at the first file; the last file is not noticed.
Answer_FromFirst(replace, forAll) ==
    /\ phase = "confirming"
    /\ LET chosen == SubSeq(filesToAsk, IF forAll THEN 1 ELSE askIdx,
                            IF forAll THEN Len(filesToAsk) ELSE askIdx)
           files == {chosen[i] : i \in 1..Len(chosen)}
       IN  IF replace
           THEN /\ filesToUpdate' = filesToUpdate \o chosen
                /\ confirmed' = confirmed \cup files
                /\ UNCHANGED declined
           ELSE /\ declined' = declined \cup files
                /\ UNCHANGED <<filesToUpdate, confirmed>>
    /\ IF forAll \/ askIdx = Len(filesToAsk)
       THEN phase' = "installing" /\ askIdx' = 1
       ELSE askIdx' = askIdx + 1 /\ UNCHANGED phase
    /\ UNCHANGED <<release, metaDisk, fs, metaOld, newFiles, hashes, filesToAsk,
                   pos, copying, attempts, edits, editedLate, pristine, interrupted>>

Answer_NeverLast(replace, forAll) ==
    /\ phase = "confirming"
    /\ askIdx' = askIdx + 1
    /\ UNCHANGED <<release, metaDisk, fs, phase, metaOld, newFiles, hashes,
                   filesToAsk, filesToUpdate, answers, pos, copying, attempts,
                   edits, editedLate, pristine, interrupted>>

\* ShowNextReplaceDialog(replace, forAll)
Answer(replace, forAll) ==
    /\ phase = "confirming"
    /\ LET last == IF forAll THEN Len(filesToAsk) ELSE askIdx
           chosen == SubSeq(filesToAsk, askIdx, last)
           files == {chosen[i] : i \in 1..Len(chosen)}
       IN  IF replace
           THEN /\ filesToUpdate' = filesToUpdate \o chosen
                /\ confirmed' = confirmed \cup files
                /\ UNCHANGED declined
           ELSE /\ declined' = declined \cup files
                /\ UNCHANGED <<filesToUpdate, confirmed>>
    /\ IF forAll \/ askIdx = Len(filesToAsk)
       THEN phase' = "installing" /\ askIdx' = 1
       ELSE askIdx' = askIdx + 1 /\ UNCHANGED phase
    /\ UNCHANGED <<release, metaDisk, fs, metaOld, newFiles, hashes, filesToAsk,
                   pos, copying, attempts, edits, editedLate, pristine, interrupted>>

-----------------------------------------------------------------------------
(* BeginFileUpdating: the metadata first, then the files in the list.       *)

Target == filesToUpdate[pos]

\* A special file that exists is removed or renamed away (Plat_CopySpecialFile).
Moved(f) == oldPath[f] /\ kind[f] = "special" /\ fs[f] # "none"

\* Until a copy is complete its target is cut off, or gone if it was moved.
CopyBegins ==
    /\ phase = "installing" /\ ~copying /\ pos <= Len(filesToUpdate)
    /\ copying' = TRUE
    /\ IF pos = 0
       THEN metaDisk' = [f \in Files |-> "torn"] /\ UNCHANGED fs
       ELSE /\ \E c \in IF Moved(Target) THEN {"none", "torn"} ELSE {"torn"} :
                  fs' = [fs EXCEPT ![Target] = c]
            /\ UNCHANGED metaDisk
    /\ UNCHANGED <<release, phase, session, pos, attempts, edits, editedLate, pristine, interrupted>>

CopyEnds ==
    /\ phase = "installing" /\ copying
    /\ copying' = FALSE
    /\ pos' = pos + 1
    /\ IF pos = 0
       THEN metaDisk' = metaNew /\ UNCHANGED fs
       ELSE fs' = [fs EXCEPT ![Target] = newFiles[Target]] /\ UNCHANGED metaDisk
    /\ UNCHANGED <<release, phase, session, attempts, edits, editedLate, pristine, interrupted>>

\* A copy throws, and the loop ends at the first error; or the game is killed.
\* Either way what was copied stays.
CopyFails ==
    /\ phase = "installing" /\ pos <= Len(filesToUpdate)
    /\ interrupted' = TRUE
    /\ Leave
    /\ askIdx' = askIdx
    /\ UNCHANGED <<release, metaDisk, fs, attempts, edits, pristine>>

\* UpdateInstallStatus reports success ("update finished successfully").
Succeed ==
    /\ phase = "installing" /\ pos > Len(filesToUpdate)
    /\ phase' = "installed"
    /\ UNCHANGED <<release, metaDisk, fs, session, pos, copying, attempts, edits,
                   editedLate, pristine, interrupted>>

CleanUp ==
    /\ phase = "installed"
    /\ Leave
    /\ askIdx' = askIdx
    /\ UNCHANGED <<release, metaDisk, fs, attempts, edits, pristine, interrupted>>

-----------------------------------------------------------------------------
\* The user edits or deletes a file while no task works on the files.
UserEdits(f) ==
    /\ phase \in {"idle", "confirming"}
    /\ edits < MaxEdits
    /\ edits' = edits + 1
    /\ \E c \in {"user", "none"} \ {fs[f]} : fs' = [fs EXCEPT ![f] = c]
    /\ editedLate' = IF phase = "confirming" THEN editedLate \cup {f} ELSE editedLate
    /\ pristine' = pristine \ {f}
    /\ UNCHANGED <<release, metaDisk, phase, session, pos, copying, attempts, interrupted>>

\* No session can be started any more.
NothingToDo ==
    /\ phase = "idle"
    /\ attempts = MaxAttempts \/ IsTorn(metaDisk)
    /\ UNCHANGED filesVars

FilesNext ==
    \/ StartSession \/ HashFile \/ GiveUp \/ Validate
    \/ \E replace \in BOOLEAN, forAll \in BOOLEAN : Answer(replace, forAll)
    \/ CopyBegins \/ CopyEnds \/ CopyFails \/ Succeed \/ CleanUp
    \/ \E f \in Files : UserEdits(f)
    \/ NothingToDo

FilesSpec == FilesInit /\ [][FilesNext]_filesVars

-----------------------------------------------------------------------------
(* Properties.                                                             *)

\* The types of the state; the lists hold files of the release, and
\* the replace dialog never indexes m_FilesToAsk out of its bounds.
FilesTypeOK ==
    /\ kind \in [Files -> Kinds] /\ metaNew \in [Files -> Shipped]
    /\ metaDisk \in [Files -> Contents] /\ fs \in [Files -> Contents]
    /\ phase \in {"idle", "hashing", "confirming", "installing", "installed"}
    /\ metaOld \in [Files -> Contents] /\ newFiles \in [Files -> Contents]
    /\ oldPath \in [Files -> BOOLEAN]
    /\ realOld \in [Files -> Contents] /\ realNew \in [Files -> Contents]
    /\ pos \in Nat /\ copying \in BOOLEAN
    /\ filesToAsk \in Seq(Files) /\ filesToUpdate \in Seq(Files)
    /\ askIdx \in Nat \ {0}
    /\ phase = "confirming" => askIdx <= Len(filesToAsk)
    /\ attempts \in Nat /\ edits \in Nat
    /\ confirmed \subseteq Files /\ declined \subseteq Files
    /\ editedLate \subseteq Files /\ pristine \subseteq Files
    /\ interrupted \in BOOLEAN

ToAsk == {filesToAsk[i] : i \in 1..Len(filesToAsk)}
ToUpdate == {filesToUpdate[i] : i \in 1..Len(filesToUpdate)}

\* Each file is copied at most once, and the replace dialog settles every file it
\* was opened for exactly once: before the copying begins each of them was
\* either confirmed, and is in the list, or declined, and is not.
EveryQuestionSettled ==
    /\ Cardinality(ToUpdate) = Len(filesToUpdate)
    /\ confirmed \cap declined = {}
    /\ phase = "installing" =>
          /\ confirmed \cup declined = ToAsk
          /\ confirmed \subseteq ToUpdate
          /\ declined \cap ToUpdate = {}

\* Nothing is installed that the release's metadata does not vouch for: a copy is
\* only ever completed with the content the metadata names, whatever was
\* downloaded.
OnlyVerifiedFilesInstalled ==
    [][phase = "installing" /\ copying /\ pos > 0 /\ pos' = pos + 1
         => fs'[Target] = metaNew[Target]]_filesVars

\* A file the user has edited is only overwritten or removed with consent: when
\* it differed from both releases as it was hashed, the user confirmed it, or it
\* is a platform file ("Only ask if it was maually edited AND it's different from
\* new file", update_installer.cpp:1163).
EditsOverwrittenOnConsent ==
    [][\A f \in Files :
         phase = "installing" /\ fs'[f] # fs[f] /\ ~copying /\ f \notin editedLate =>
            \/ realOld[f] \in {"none", metaOld[f], metaNew[f]}
            \/ kind[f] \in {"plat", "special"}
            \/ f \in confirmed]_filesVars

\* "If true and file exists, it must not be modified" (update_installer.h:102).
UserModifiableKept ==
    [][\A f \in Files :
         phase = "installing" /\ kind[f] = "modifiable" /\ realOld[f] # "none"
            => fs'[f] = fs[f]]_filesVars

\* What may be left of the old installation once the update has succeeded: files
\* the user keeps or edits during the update, files that did not come from the
\* old release, and files that are the user's own.
Kept(f) ==
    \/ f \in declined \cup editedLate
    \/ f \notin pristine /\ realOld[f] \notin {"none", metaOld[f]}
    \/ kind[f] = "modifiable" /\ realOld[f] # "none"

\* "update finished successfully" is only reported when every other file is the
\* new release's, unless an earlier installation was cut off.
SuccessIsComplete ==
    phase = "installed" /\ ~interrupted =>
        \A f \in Files : fs[f] = metaNew[f] \/ Kept(f)

\* The same without the exception: "update finished successfully"
\* (update_installer.cpp:1356) means that a file the user never touched is the new
\* release's, also when an earlier attempt to install it was cut off.
RetryCompletesUpdate ==
    phase = "installed" =>
        \A f \in pristine :
            fs[f] = metaNew[f] \/ f \in declined \/ kind[f] = "modifiable"

=============================================================================
