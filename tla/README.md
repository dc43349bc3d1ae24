# BugfixedHL-Rebased: a TLA+ development

TLA+ models of the parts of BugfixedHL-Rebased whose correctness depends on the
order of events: threads, callbacks, cancellations, failures and restarts. Source
paths are relative to the repository's root.

The first part covers the client's self-updater (`src/game/client/updater`), the only
place in the program where several threads share mutable state, where a partial
failure is persistent, and where a user can act at any point of a long operation. The
second covers the game server, where one thread runs everything but entities act on each
other's records in any order: the sounds and squads of its AI, the players of a
multiplayer match, and doors and buttons.

## Inventory

| Component | State | Operations | Interacts with |
|---|---|---|---|
| HTTP client (`http_client.cpp`) | request and response queue, mutex, condition variable, `m_bShutdown`, `m_bAbortCurrentDownload` | `Get`, `RunFrame`, `AbortCurrentDownload`, `Shutdown`; the worker thread; libcurl's write and progress callbacks | update checker and installer (requests, callbacks), `CHud::Frame` and `CHud::Shutdown` |
| Update installer (`update_installer.cpp`) | `m_bIsInProcess`, `m_bAbortRequested`, `m_Status`, the future of the async task, the download file, the temporary directory, file lists | `StartUpdate`, `CancelInstallation`, `RunFrame`, `ShowNextReplaceDialog`, `Shutdown`; async tasks that extract, hash and copy | HTTP client, dialogs, exit commands, the file system |
| Update checker (`update_checker.cpp`) | `m_bInProgress`, latest version, `m_bDisableInstaller` | `FetchReleaseList`, `OnDataLoaded` | HTTP client, installer (asset URL, disabling) |
| Exit commands (`engine_patches.cpp:89-137`) | the functions of `quit` and `_restart`, the saved functions | disable, enable | installer |
| Update dialogs (`update_dialogs.cpp`) | widgets | buttons that start, cancel, answer | installer |
| Squads (`squadmonster.cpp`) | leader, member array, slots | recruit, add, remove, death, slot occupation | schedules |
| AI sounds (`soundent.cpp`) | a pool with an active and a free list | insert, free, think, per-client sounds | monsters' senses |
| Observer mode (`observer.cpp`) | mode, target, what the physics code is told of them (`iuser1`, `iuser2`) | start, stop, set mode, next player or spot, check of the target | players, client commands, the visibility set |
| Players and clients (`player.cpp`, `client.cpp`) | connection, life, cameras | put in server, think, die, spawn, disconnect, commands | game rules, observer mode, AI sounds |
| Game rules (`multiplay_gamerules.cpp`, `teamplay_gamerules.cpp`) | `g_fGameOver`, the times of the intermission | think, go to intermission, change level | players, world |
| Doors and buttons (`doors.cpp`, `buttons.cpp`, `subs.cpp`) | toggle state, origin, touch and think functions | use, touch, shot, blocked, end of a move, return | masters, targets, players, the engine's pushers |
| Schedules (`schedule.cpp`) | schedule, task | maintain, change | squads |
| Platforms (`plats.cpp`), triggers (`triggers.cpp`), voice masks (`voice_gamemgr.cpp`) | see `PROJECT.json` | per-frame and event handlers | the engine's callbacks |
| Player movement, HUD, game UI, message parsing, engine patching | | | not candidates, see below |

What is hard, and the property each component must have:

* **HTTP client.** Two threads, a condition variable, flags read outside the lock. Each
  request gets one callback, in order, on the main thread; the worker misses no
  notification; an abort ends the transfer it was meant for and no other; shutting down
  ends in every state.
* **Installer.** Four parties (main thread, client worker, async task, user) share flags
  without a lock. Each session must end with its file closed and the removal of its directory tried; each stage must have
  something that drives it on; a task's data must live as long as the task; cancelling
  and quitting must return.
* **Files of an update.** Failures and crashes persist. Only verified files may be
  installed, edits are overwritten with consent only, and a reported success must be
  complete, also after a retry.
* **Exit commands.** Disabled exactly while files are copied.
* **AI sounds.** Lists without cycles that lose no slot.
* **Squads.** A leader and its members each record the squad and the slots; deaths, removals
  and schedule changes must keep the records in step, so that no slot has two holders
  and none is lost.
* **Match.** Players come, die, watch and leave in any order. A spectator is out of play whatever
  it was before, and what it watches is a player who is there and plays.
* **Doors and buttons.** One think function for everything a mover waits for, and moves that end
  inside the call that starts them. None may be left half way, or deaf to touches.

The hazards with their lines are in `PROJECT.json`.

## Modules

| Module | Models |
|---|---|
| `HttpService` | what the HTTP client promises: requests accepted, answered once each in order, none after closing |
| `HttpClient` | `CHttpClient`: the main thread's operations and the worker, one action per step between two points where the other thread can interfere |
| `HttpClientProofs`, `UpdateInstallerProofs`, `UpdateFilesProofs`, `SquadsProofs`, `MatchProofs`, `MoversProofs` | theorems about the module they are named after |
| `SoundProofs` | theorems about `SoundEnt` and `MonsterSenses` |
| `NatLemmas` | what the proofs share about natural numbers: the least of a set, bounds of finite sets, functions defined by recursion |
| `ExitCommands` | `DisableExitCommands`, `EnableExitCommands` |
| `UpdateInstaller` | `CUpdateInstaller` over `HttpClient` (EXTENDS) and `ExitCommands`, and the update checker as the client's other user |
| `UpdateFiles` | what an update does to the installation's files, over several attempts |
| `SoundBoard` | what `CSoundEnt` promises: a sound is up until its time is over, then gone |
| `SoundEnt` | the pool of `CSoundEnt` as linked lists in an array, and the players' reserved slots |
| `MonsterSenses` | `CBaseMonster::Listen` over `SoundEnt` (EXTENDS): the lists of audible sounds |
| `Squads` | `CSquadMonster`: squads, slots and enemies over spawning, recruiting, deaths, removal and loading |
| `Match` | players, observer mode and intermission of a multiplayer match |
| `Movers` | `CBaseDoor` and `CBaseButton` with linear moves, targets, masters and blockages |
| `MCHttpClient`, `MCUpdateInstaller`, `MCUpdateFiles`, `MCSoundEnt`, `MCMonsterSenses`, `MCSquads`, `MCMatch`, `MCMovers` | the instances TLC checks |

Operators named `X_Y` with the comment "Mutant" are faulty versions of the definition
that follows them; they are not part of any specification and only serve to show
that the properties can fail.

### HttpClient

`mpc` and `wpc` are the places of the two threads; `mutex` is held between steps only by
the worker on its way to sleep (it has tested the predicate and not yet blocked) and by
`RunFrame`, which calls every callback with the mutex held. Every other critical section
touches shared state once and is a single step. libcurl's callbacks run without the mutex: a write
callback begins (`write`) and returns, and the progress callback sees a flag (`aborting`) and
then clears it, in two steps each, between which the main thread may do anything. `Get(at, next)` and
the other main-thread operations take the caller's place as parameters, so that
`UpdateInstaller` can call them from its own places. A request is its number in the order of
`Get`. `answered` and `abortCalls` are history variables; nothing in the model reads them
except properties.

libcurl is modelled by its contract: it calls `WriteData` for each chunk, calls
`ProgressCallback` repeatedly and once more when the transfer completes, fails the transfer
if a callback says so, and may fail or hang by itself at any time. A transfer is therefore
over at its last progress callback: an abort raised after that is one raised when nothing
is being transferred. A failed transfer is taken to leave a non-empty error message
(`IsSuccess` tests that).

### UpdateInstaller

The main thread goes from `idle` through the HTTP frame (`callbacks`), the installer's poll
(`poll`) and back, the order of `hud.cpp:559-561`. Dialog buttons and `CHud::Shutdown` act
at `idle`. `spin` and `quit spin` are the two loops on `m_bAbortRequested`, `wait install`
and `quit install` the loops around `RunFrame`, `assign` the wait hidden in the assignment
of a new `std::future`, whose old value waits for its task.

An async task is `run` (with files left), `final` (before its last test of the abort flag),
`clear` (between the two assignments that answer an abort) or `ready`. Extracting, hashing
and copying share it: they differ in whether the loop looks at the abort flag.
`std::async` is taken to start a thread at once. The test cvars (`update_*_error`,
`update_*_sleep`, `update_dry_run`, `update_no_quit`) have their default
values, except that the game need not quit after an update; the errors they would inject
happen anyway.

`StartUpdate` is three steps: `start` (the session is in process), `prepared` (its temporary
directory exists) and `get zip` (its file is open, the request waits to be queued); each may fail and
clean up. `dirs` are the directories on disk. `CleanUp` may fail to remove one: `fs::remove_all`
throws, or `update_keep_temp` is set; the path is cleared all the same, and the history variable
`undeleted` keeps the directory. `NothingLeftBehind` says that no other is left outside a session.

The write callback of the download tests the flags (`ZipTested`) and then writes (`ZipWrites`) without
looking again, to the file that is open by then. The main thread may have closed it, or have opened the next
session's, in between. The two use one `std::ofstream` without a lock; the model has their calls
take effect one after the other, in either order.

In the response callback the branch for a raised abort flag is folded into
`ZipIgnored`; the flag is never up there (`AbortIsAwaited`).

`overlapped` records that a session was started while the download of a cancelled one
still lived in the client. Some guarantees are lost then, because the response callback and
the write callback do not know their session; the run `cancelled_download` shows the first
step of that, and the properties that need it carry `~overlapped`. Those that hold regardless
(`AbortIsAwaited`, `StageIsDriven`, `NothingLeftBehind`, `CheckIsUnderway`) do not.

### UpdateFiles

A file is its content, which stands for its hash. Each session reads the metadata, hashes
(one step per file), validates, asks and copies (metadata first, then the list, one step to
begin and one to end each copy). A copy can fail at every point, which also covers a crash
of the game. The user edits or deletes files between sessions and while the replace
dialog is open. A platform file (`IsPlatFile`) is replaced without asking; a special one
(`Plat_IsSpecialFile`) is removed or renamed before it is copied.

### SoundEnt and MonsterSenses

`lists` holds `m_iActiveSound`, `m_iFreeSound` and the `m_iNext` of all slots; `Walk` follows links
and is cut off after one step more than there are slots, which only a cycle reaches. The loops of the
code are recursive functions over what a round reads and writes: `Checked` is a round of
`Think`, on the lists, the slot it is at and the previous one; `Collected` a round of `Listen`,
on the list of audible sounds and its head; `ClientReserve` the loop that reserves the clients'
slots. `Posted` is the refinement mapping to `SoundBoard`: the sounds that are active and not
reserved, by type and whether they are due. A sound is its type, and its expiry is one of *later*, *due* and
*never*. Players join, think, die (from outside, or in their own `PostThink`), respawn and
leave; each event is one action, since the server has one thread. `PostThink` always sets the sound's type
and stands for `UpdatePlayerSound`; the volume, which `Reset` clears as well, is not modelled.

Every monster's list of audible sounds runs through the one field `m_iNextAudible` of a
slot. A monster that no player may see keeps its list without renewing it, so instead of
monsters the model has `heads`, all slots that any list ever began with:
`AudibleListEnds` then holds for any number of monsters and lists of any age. It holds because
all links that a walk meets were written no earlier than the one it started from,
and one call of `Listen` writes links in one direction of the active list
(`RankedBy` in `SoundProofs` is this argument).

The pool lives as long as a map. Saved games are not modelled.

### Squads

An action is one handler of one monster. `ChangeSchedule` is the part of `MaintainSchedule` that
touches the squad: `ScheduleChange` vacates the slot, `GetIdealState` may turn the squad against
the monster's enemy, and `GetSchedule` asks for slots; what a monster sees and which slots it asks
for are choices. A corpse stays an entity until it is freed, and handles to a freed one
read `NULL` (`Removed`). `Restore` is the loading of a saved game, which keeps `m_iMySlot` and not
`m_afSquadSlots`. A slot is its number; several slots at once are never held.

`staleSlots` records that a monster came into a squad, or a game was loaded, with a slot from
before. Slots are not exclusive then (without the exclusion TLC finds two holders), so
`SlotsExclusive` is stated for the other histories. A member that dies is never taken off its
leader's list, since `SquadRemove` looks for the leader there; the model does as the code does.

### Match

The engine calls `Think` once a frame and `PreThink`, commands, `ClientPutInServer` and
`ClientDisconnect` for each client in any order; each is an action. `pl` keeps what the code has
in `CBasePlayer` and in the entvars: `iuser1` and `iuser2` are the mode and target the physics code
reads, `mode` and `target` those the observer code keeps. `here` is the engine's view of who is
connected, `connected` the game's; they differ for who leaves in an intermission
(`client.cpp:103`). Time is a choice except for the phases of an intermission, which `clock`
orders. Teams, scores, items and damage are left out: any player may be killed at any time.

### Movers

`ms` is the toggle state, place, touch and think function of every door and button. A place is
`bottom`, `top` or `between`. Arriving and returning are `MoveDone` and `Think`; what runs
inside a handler (arrival when already there, targets fired, the pieces that `Blocked` reverses
one after the other) is computed by operators on the whole of `ms`. A fired door only ever starts
to move, so firing does not nest. The model has one targetname, `Team`; every other source of
a use is `FireTargets` at any time. What `UTIL_IsMasterTriggered` answers for the movers that have a master
is chosen in every step (`LockedSets`), since the masters' own state is not modelled; a mover
without a master always passes.

## Runs

| Run | Question | Instance | Result |
|---|---|---|---|
| `http_client` | Do the two threads keep the client's promises? | 3 requests, 1 chunk | passes, 14 238 states |
| `update_installer` | Do sessions keep their guarantees over the client, with cancels and quits everywhere? | 2 sessions, 1 check, 1 file per task, 2 questions | passes, 511 130 states |
| `update_files` | What does an update do to files? | 2 files, 2 attempts, 1 edit, every kind and history | passes, 848 019 states |
| `sound_ent` | Do the sound lists keep their slots, and serve as a board? | 5 slots, 2 of them for clients | passes, 10 800 states |
| `monster_senses` | Does every walk along a list of audible sounds end? | 4 slots, 2 of them for clients | passes, 507 832 states |
| `squads` | Do leader and members agree on squad and slots? | 4 monsters, 1 enemy, lists of 2, 2 slots | passes, 225 805 states |
| `match` | Is a spectator out of play, and does it watch one player who is there? | 3 clients, 2 of them may spectate, modes 3, 4 and an invalid one | passes, 3 099 864 states |
| `movers` | Is no mover left half way, deaf or open? | 3 linked doors, 1 touched, 2 buttons, 2 blockages | passes, 37 676 states |
| `cancel_returns` | Does `CancelInstallation` return? | 1 session | violated |
| `cancelled_download` | Is a cancelled download without effect on a later session? | 2 sessions | violated |
| `retry_update` | Does a retried update complete the release? | 2 files, 2 attempts, no edits | violated |
| `reserved_sounds` | Do reserved sounds stay in the active list? | 4 slots, 2 of them for clients | violated |

**Bounds.** Three requests suffice for one in each of request queue, worker and response
queue; one chunk separates "some data" from "all". Two sessions give every interaction of a
session with an older one's leftovers; the check is the third request. One file per task
leaves a state before and after it, and the task's ends are the same for more. Two files make
order in the list and "one failed, one did not" visible; two attempts make a retry. The
initial states of `UpdateFiles` are all combinations of kinds, metadata and contents. Two clients are needed
for one's slot to be behind the other's, three other slots for a due sound to follow two that
stay. One type of inserted sound tells them from players' sounds. The counters
(`MaxRequests`, `MaxSessions`, `MaxChecks`, `MaxAttempts`, `MaxEdits`, `MaxBlocked`) are only tested in the
guards of the actions that start something. Four monsters make a squad with its list full, a
monster left over, and a second squad; two slots, asked for together, are enough to be taken
by two members and refused to the third. Three clients give an observer a target to lose and
another to find, and two observers who could watch each other; `AskedModes` has a mode that
tracks a player, one that does not and one that is none; modes that track are alike to the model.
Linked doors differ in everything that `Blocked` distinguishes: one returns, one stays open, one
is a toggle that starts open. Two blockages put them out of step and meet them so.

**Deadlock** is checked in every run: terminal states have explicit steps
(`Terminated`, `GameOver`, `NothingToDo`), and the server's models never stop.

**Fairness.** Both threads and the async tasks keep running (weak fairness). Steps that
take the mutex get strong fairness: each holder gives it up in a bounded number of its
own steps, and a mutex contended by two threads is granted eventually. Nothing is assumed
of the network: a transfer may stay in `perform` for ever. libcurl calls the progress
callback all along (at least once per second), hence fairness of `ProgressSees`, and a callback that
has begun returns, hence fairness of `ProgressCallback` and of the end of a write. The
user's commands are not fair. `RequestsAnswered` therefore has the assumption that no
transfer hangs for ever in its statement; `ShutdownJoins` and `InstallationEnds` do not need it.
`CSoundEnt::Think` sets its next think whenever it runs, and time passes every sound's expiry.
In `Movers` the engine runs every pusher's think when its time comes (weak fairness of `MoveDone`
and `Think`); uses, touches and blockages are not fair. `Squads` and `Match` have safety and action
properties only. `MainFairness` includes `Call`, since the engine calls the frame function all the time.

### What the violated runs show

* `CancelReturns`: the task's last test of the abort flag may come before
  `CancelInstallation` raises it (`update_installer.cpp:327-330` against 799 and 1030). Nobody
  clears the flag then, and the main thread, which would notice the ready future, is the one
  that spins. `Shutdown` has the same loop (203).
* `CancelledDownloadIsInert`: `update_installer.cpp:548-578` only asks whether *an* update is in
  process.
* `RetryCompletesUpdate`: the metadata is copied before the files it describes
  (`update_installer.cpp:1265`), and `ValidateUpdateFiles` trusts it on the next attempt.
* `ReservedStayActive`: `CSound::Reset` (`soundent.cpp:47`) ends the active list at the slot it
  clears. Slots of clients are at the end of the list, in descending order, so other sounds are
  safe (`ImplementsBoard`), but the clients with lower numbers are not heard again on this map.

Smaller divergences met while modelling, without a run: a file that the user deleted is
asked about as if it had been edited when the metadata knows it and it was updated
(`update_installer.cpp:1164`); an edit made while the replace dialog is open is overwritten
unasked (`editedLate`); `CleanUp` swallows a failed `fs::remove_all` and forgets the path
(`update_installer.cpp:1456`), so that the directory stays for ever and its name is used up for
`PrepareTempDir` (469); a player who dies in his own `PostThink` stays audible until he
respawns (`diedThinking`, `player.cpp:2878`); metadata torn by a crash stops every later update; `_restart` is never put back after an
installation (the inverted test at `engine_patches.cpp:130`, modelled in `ExitCommands`). On the
server: stale slots and dead members in squads (above); `spectate` before the first `InitHUD`
announces a spectator that is none, since `Observer_SetMode` aborts at mode 0; clients that leave in an
intermission count as players for the map cycle (`client.cpp:103`); a button whose master
closes while it moves is stuck (`buttons.cpp:771`), and one that is shot while its master is
closed loses its touch function (430); a linked door that is at rest is reversed too when
another one is blocked, and fires its targets again (`doors.cpp:794`). Read but not modelled:
`SortSpots` (`player.cpp:3018`) does not count the last valid spot and may exchange it for a
heavier one that is not valid; the map cycle's loop never looks at the last item of the list
(`multiplay_gamerules.cpp:1655`).

## Proofs

Every invariant, action property and refinement that a passing run checks is also proved, for every
value of the constants that the modules' assumptions allow. The theorems need no fairness. Each
component has one inductive invariant; its proof is one lemma for the initial states and one
per action, and the properties are corollaries. The assumptions are:

| Assumption | Says | Why the code justifies it |
|---|---|---|
| `HttpAssumption`, `FilesAssumption` | the bounds are natural numbers | they count |
| `InstallerAssumption` | so are the installer's; `MaxSessions + MaxChecks <= MaxRequests` | a session and a check make one request each, and `Get` refuses none: the bound on requests must not stop what `StartUpdate` has begun |
| `SquadsAssumption` | `MaxSquadMembers` is at least 2, monsters are finite, slots are naturals, `NULL` is nobody | `MAX_SQUAD_MEMBERS` is 5 with the leader |
| `MatchAssumption` | there is a client; `NULL` and spots are no players | as in the engine |
| `MoversAssumption` | finitely many movers, numbered; a door is no button; each flag is a set of the entities it is for | spawn flags are read by class |
| `SoundAssumption` | fewer clients than slots; no inserted sound has a player's type | 32 of 64, and `UpdatePlayerSound` writes the client's own slot |

**How induction is done.** Induction theorems with an operator parameter cannot be used with the
installed provers. `NatLemmas` has two substitutes. `LeastNat`: a nonempty set of naturals has a least
element; a proof by induction takes the least counterexample. `RecursionExists`: a function defined by
recursion over the naturals exists; its proof builds the finite approximations and glues them. What the
recursive functions of the models compute (`Walk`, the loops of `Initialize`, `Think` and `Listen`,
`InOrder`, the doors that `Blocked` reverses) is proved with these for lists and sets of any size.

**`HttpClientProofs`**, six theorems about `HttpSpec`:

1. `TypeCorrect`: `HttpTypeOK` is inductive.
2. `PipelineCorrect`: `PipelineOrder` is inductive relative to the types. It says where each
   request is by arithmetic on the lengths of the three sequences, so that each move of a
   request (push, pop, respond, answer) is one lemma about `Append` or `Tail`.
3. `WakeupCorrect`: `NoLostWakeup` is not inductive; `LockInv` adds who holds the mutex and that
   the worker, from its test of the predicate until it is woken, knows the queue to be
   empty. A `Get` in between is excluded because the worker holds the mutex.
4. `AbortIsTargeted` and 5. `AbortIsHonoured`: `AbortInv` ties the flag to the history: while a
   transfer runs the flag is up exactly if the running request is marked, a progress callback that
   saw a flag is inside a marked transfer or a shutdown, and no request
   is marked before its transfer begins. It rests on `PipelineOrder`, which makes the running
   request newer than every response that waits.
6. `Implementation`: `HttpSpec => ImplementsService`. `Get` is `Accept`, a callback is
   `Answer` (by `PipelineOrder` it is the next number), `ShutdownSignal` is `Close`, every other step
   stutters; `LockInv` gives that nothing is accepted or answered after closing.

The lemmas about types and pipeline are stated of `ClientStep`, a step of the client for *any* user,
wherever the user's main thread is; `HttpSpec` and the installer are two such users.

**`UpdateInstallerProofs`** shows that every step of the installer is a `ClientStep`, which carries the
pipeline over, and proves `InstallerInv` inductive. Its parts answer one question each:
`Places`, what the place of the main thread says of the session, and that the directories on disk are those
that could not be removed and, in a session that has one, its own; `Staged`, which task and directory
a stage has; `Requested`, that what is waited for is in the client; and, as long as no
session has met an older one's download, `OneDownload` (at most one download is alive, and only in the
stage that waits for it), `OwnTask` (a task is the session's own, or has returned, or answers an
abort) and `ExitBlocked`. `OneDownload` is what makes `OwnTask` inductive: the callback of a download
starts a task and does not know its session, and `AnswerInItsStage` needs that no older download
can answer. The rest holds with overlaps too, so `StageIsDriven`, `AbortIsAwaited`,
`NothingLeftBehind`, `CheckIsUnderway` and the part of `ShutdownQuiesces` about the worker are proved without `~overlapped`.

**`UpdateFilesProofs`**: `FilesInv` says of every phase how disk, hashes and lists fit together.
`HashesRight`: the files before the current one were hashed as they are. `ListsRight`: the two
lists share out the candidates without repetition, and the answers are those to the first files
of the list of questions; `EveryQuestionSettled` is its end. `CopiesRight`: a file is as it was
hashed, edited in the dialog, or replaced. `PristineRight`: a file that nobody edited is what
the *installed* metadata says. The last is what `SuccessIsComplete` needs, and it is the invariant that an
interrupted installation breaks (`retry_update`), since the metadata is copied first. The action properties
follow from the same invariant.

**`SquadsProofs`**: `MembersListed` and `SlotsExclusive` become inductive with `Fresh` (a
monster that has not started holds nothing, only the living lead) and `Strays` (whoever is on a list
without following its leader died as a member and holds no slot). `Strays` states exactly what the
divergence about dead members leaves behind; without it the death of one leader could turn a
member out of another one's squad, slot in hand.

**`MatchProofs`**: lemmas say of each operator of `observer.cpp` how it changes one player
(`ObserverStep`), so that an action's proof is about one player and `OnePlayerChanges` does the rest.
`JoinsFresh` is the strengthening: `ClientPutInServer` finds no flags of a former life on a
client that joins, except in an intermission. By `FindNextPlayerFacts` a target that the search around the
clients finds may be watched, for any number of clients.

**`MoversProofs`**: operators take and return the whole of `ms`, so the lemmas are about sets of
states: `SoundStates`, where every mover is consistent and deaf to touches only when it may be, and
`SoundBut(e)`, where all but `e` are. A handler first unsettles its own mover, fires the others, and
settles it: `SoundBut(e)` is what holds in between. `BlockedDoorsFacts` is the induction over the linked
doors. `Opened` never shrinks along any operator, which is `OpenStaysOpen`.

**`SoundProofs`**: a list in an array is a `Row`: numbers 1 to n to distinct slots, each linked to the
next. `RowWalk` (by induction) says that `Walk` returns a row; after that the operations are
arithmetic on rows: push, drop, unlink, cut. `Partition` is two rows without a common slot, with every slot that
is not reserved in one of them, no reserved one free, and only reserved slots behind a reserved one. The last
conjunct is not in `ListsPartition` and is why it is not inductive: `Reset` cuts the active list at a
client's slot, and would lose other sounds if they could be behind. `ThinkAt` is the invariant
of `Think`'s loop: what is before the current slot stays, the previous slot is its predecessor, and
who has left was due. In the refinement `PoolImplementsBoard` an insertion is the board's `Put`, `Elapse`
is `TimeOver`, `Think` is `TakeDown` of all that are due, and players' events stutter;
`ActiveHoldSounds` tells an active sound from an empty place.

For the senses, `RankedBy` gives all slots of all held lists a rank such that links lead to lower ranks:
`Listen` gives the sounds it collects ranks below all older ones, in the order of the active
list, and relinks no other. `DownWalk` (by induction) concludes that a walk ends.

TLC has checked every inductive invariant on the instances of the runs, except the rows and ranks
of `SoundProofs`, whose existential quantifiers range over sequences of slots: there it has checked
`ListsPartition`, `ActiveHoldSounds` and `AudibleListEnds`.

**Only model-checked:** the five liveness properties (`ShutdownJoins`, `RequestsAnswered`,
`InstallationEnds`, `SoundsLeave`, `DoorsReturn`), since liveness under fairness is out of the proof system's
reach, and the four refutations, which are TLC's counterexamples. `StageIsDriven` and
`CheckIsUnderway` are the proved safety halves of "a session ends" and "a check ends".

## Not modelled

* Contents: URLs, JSON, version strings, archive entries, hashes as bytes, progress figures,
  dialogs' texts. `bhl_validate_files` is a read-only report.
* The log queue of the HTTP client: it has a mutex of its own and no control depends on it.
* Player movement and the behaviour of single monsters: floating-point geometry.
* Squads: the enemy's last known position, cover and lines of fire. Match: the map cycle, teams,
  scores, items. Movers: rotating and momentary ones, platforms, trains; doors that fire buttons.
* HUD, game UI, message parsing, engine patching, configuration files: drawing, parsing and I/O without
  interleavings.
* Vendored code (`external`), assets (`gamedir`), build scripts.

## Plan

The proofs that were planned for the modules so far are done. In this order:

1. `UpdateChecker`: the choice of the latest release from the list (`OnDataLoaded`), the version
   comparison of `CGameVersion`, the flag that disables the installer.
2. `SpawnSpots`: `SortSpots` against its specification, and the map cycle's choice of the next map.
3. Rotating doors and platforms in `Movers`, whose lemmas are about single operators on `ms` and
   extend to new ones.
