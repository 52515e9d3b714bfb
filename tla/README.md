# STManager: a TLA+ model of restore, sync, pairing and update

STManager backs up the user data of a SillyTavern installation into a tar.zst
archive, restores such archives, lets one device pull a backup from another
over the local network, and updates the program from packaged releases. This
directory holds TLA+ modules translated from `src/`, configurations that check
them with TLC, and theorems that the TLA+ proof system checks. Source lines
below are those of `src/src/`.

## 1. Inventory

| component | state it keeps | operations | talks to |
|---|---|---|---|
| restore transaction (`archive_stream.cpp`, `fs_ops.cpp`) | the root's `data`, `third-party`, git manifest; a staging directory under the root; flags `had_existing_*`, `installed_*` | `restore_backup_archive`: extract, move aside, move in, manifest, rollback, clean up | file system |
| backup writer (`archive_stream.cpp`, `fd_stream.cpp`, `sync.cpp`) | a temporary archive, the export file | `export_backup`, `write_backup_archive`, `validate_backup_archive` | reads the directories a restore replaces |
| locate, identity (`locate.cpp`, `sync.cpp`) | `.stmanager/device_id` | `locate_silly_tavern_paths` (creates `third-party`), `load_or_create_device_id`, `resolve_pair_target` | every operation of `Manager` goes through it |
| sync task handle (`sync.cpp`) | worker thread, task state, status, stop flag, published device info | start, `stop`, `wait`, `is_running`, `info`, destructor | runs the sync server on its thread |
| sync server (`sync_server.cpp`) | listening socket, one connection | `serve_sync_server`, pair and auth requests | trust store, backup writer, discovery responder |
| pairing client (`sync.cpp`) | none between calls | `pair_sync`, `pair_device`, `authorize_remote`, `pull_from_device` | server over TCP, trust store, restore |
| trusted device store (`trusted_device_store.cpp`) | `trusted_devices.json` and a copy in memory per store object | load, trust, save | shared by all processes of a root, without a lock |
| TCP transport (`tcp_transport.cpp`) | one socket | connect, framed send and receive | |
| discovery (`discovery_mdns.cpp`) | one responder per process: thread, socket, two flags | start, stop, list | started by the server loop |
| Raze updater (`raze_update.cpp`, `cli/main.cpp`) | `version.json`, package cache | fetch, plan, download, verify, extract, write manifest | file system, network |
| path safety, git manifest, data manager | none | pure checks and a facade | restore, backup |
| command line (`cli/`) | SIGINT flag, saved root | argument parsing, polling loop of `serve-backup` | `Manager` |

What is hard in this code, and what makes each part correct:

* **Restore.** Five moves and a rollback of four steps, each of which may fail
  (after others succeeded, or during the rollback), a move across devices that
  is copy, delete and maybe delete again, a staging directory that is removed
  unconditionally, and a kill anywhere. Correct: all or nothing, except where a
  failed rollback says so; user data is never silently gone; two archives are
  never seen side by side.
* **Task handle.** `stop`, `wait`, the destructor and the worker write one state
  from several threads, and `wait` gives the thread to the first caller only.
  Correct: whoever has joined finds everything released; the state never moves
  back; a stop is final.
* **Server loop.** One thread, blocking reads and writes, error exits with
  different clean-ups. Correct: nothing leaks on any exit; what is advertised
  can be connected to; after a stop at most one more connection is served.
* **Pairing.** Two files on two devices are updated one after the other over a
  connection that may break, by processes that may be killed, with a save that
  truncates first. Correct: a client trusts only who trusts it; no pairing
  forgets another; a pull needs a pairing with the right code; trying again is
  always enough.
* **Updater.** Packages are overwritten in place, one after the other, and
  `version.json` is written last; a run may fail or be killed anywhere and
  releases move on meanwhile. Correct: success means that the release is there
  as a whole, with the packages that were skipped; only verified packages are
  extracted; trying again is enough.
* **Discovery.** All servers of a process share one responder, started and
  stopped under one mutex, with the thread joined inside it; its loop may die
  while it counts as running. Correct: a server keeps its responder until it
  leaves, nothing answers for a server that is gone, nobody waits for ever.
* **Concurrent backup.** Nothing keeps an export (or a server that answers a
  pull) apart from a restore of the same root, nor from another process whose
  `locate` creates a missing directory. Correct: ok means that the file was
  written to its end; a mixture is possible, but only of old and then new; files
  may be missing without an error, but only of a version that was replaced.
* **Serve command.** A SIGINT handler sets a flag that a polling loop reads,
  clears and turns into `stop`. Correct: no request is lost, wherever it comes;
  it ends the command; the exit code tells a stop from a failure.

The hazards are listed one by one in `PROJECT.json`, with the line where each
bites and the properties that look for it.

## 2. Modules

| module | models | state |
|---|---|---|
| `RestoreContent` | what can be at a path: absent, empty, whole, part of an archive's files | |
| `AtomicRestore` | abstract: what a caller of restore may rely on | the root, the outcome of the last call |
| `RestoreTxn` | `restore_backup_archive` and the file operations below it | contents of root, staging and old directory, the operation under way, the transaction's flags |
| `BackupExport` | `export_backup` beside a restore of the same root | `RestoreTxn`'s; the walk, what it has met, the directory it has open, temporary archive, export file |
| `ServeLoop` | `serve_sync_server` and its clients | the loop's position, socket, responder, connections |
| `SyncTask` | the task handle around `ServeLoop` | task state, thread, callers |
| `ServeCommand` | `serve_backup_command` with its SIGINT scope, or a library program, around a task | `SyncTask`'s; the command's position, handler, flags, exit code |
| `PairSync` | `pair_sync` against the server's request handlers and both trust files | files, stores in memory, links, positions |
| `RazeUpdate` | `update_sillytavern_command` with the functions of `raze_update.cpp` | the newest release, packages under the root, `version.json`, the run under way |
| `Discovery` | the responder of a process, its servers' starts and stops, `list_mdns_devices` | flags and mutex, the thread's position, requests and answers under way |
| `RestoreTxnProofs` | types, loss and the facts that the next two build on | |
| `RestoreOutcomeProofs` | what a restore returns; the refinement of `AtomicRestore` | |
| `RestoreSeenProofs` | what readers see of the root meanwhile | |
| `BackupExportProofs` | the export, and the restore beside exports and `locate` | |
| `ServeCommandProofs` (the task and the command), `PairSyncProofs`, `RazeUpdateProofs`, `DiscoveryProofs` | theorems about these modules | |
| `MCRestore`, `MCBackupExport`, `MCSyncTask`, `MCServeCommand`, `MCPairSync`, `MCRazeUpdate`, `MCDiscovery` | constants for TLC | |

`SyncTask` extends `ServeLoop`: the step `Serve` of the worker thread is one
step of the loop. `ServeCommand` extends `SyncTask`: its steps call `stop` and
`wait` as the one caller of the task. `BackupExport` extends `RestoreTxn`: the
steps of the export and those of the restore interleave on one root.
`RestoreTxn` implements `AtomicRestore` under the refinement
mapping at its end. `RestoreTxn` and `PairSync` meet where a pull was accepted
(`AuthAnswer`, outcome "ok"): the restore follows there.

### RestoreTxn and the code

The tables `Moves`, `Removals`, `OnDone` and `OnFail` are the control flow of
`restore_from_staging_directory` (archive_stream.cpp:662-761) and of its two
lambdas: which operation comes after which, after success and after failure.
`Needed` is the condition under which the code carries an operation out at all;
`Skip` passes over the others. `Rename`, `CopyBegins` ... `ScrapEnds` are the
phases of `move_or_copy_path` (fs_ops.cpp:239-276), with `CrossDevice` the parts
whose `rename` answers EXDEV. `RemoveProgress`, `CleanProgress` and
`UnlinkProgress` let the process be seen, or killed, in the middle of
`remove_path_recursive`. Contents are abstracted to the number of the archive
they came from and to whether they are complete. `Begin` has both ways in: a
`Manager` works only on a root that `locate` accepted (and may have created the
extensions directory in), `destination_root` is taken as it is.

### BackupExport and the code

`OpenFile` truncates the export file (sync.cpp:1099) before anything is read.
The walk goes through git metadata (git mode only), `data` and extensions in the
order of `write_backup_archive` (archive_stream.cpp:805-844). `Visit` is one
look at a path, which finds what the restore has put there by then. The list of
names is read from a directory that stays open while a restore moves it: `held`
is that directory, and `Follow` takes it along when the restore renames it, to a
staging directory that is given up, or to "lost" when files are deleted from it.
`CloseDirectory` ends the listing; `readdir` returns NULL at the end, in a
directory that was emptied and for an error, and nobody asks which
(archive_stream.cpp:383), so that an export may return ok and lack files. Only
complete directories are followed, as a torn one lacks files anyway, and not the
listing of the git manifest (an extension missing there is archived with its
files). A `readdir` that fails by itself, on a bad disk, is not told from the
end of the listing. `Abandon` is every error exit: a listed name that is gone, a
file shorter than its header says, a failed write. `CloseArchive`, `CopyOut`,
`CopyOutEnds` take the archive from the temporary file to the stream, whose last
bytes are written only by `Flush`. `CreateManager` is a third process whose
`locate` makes a missing extensions directory (locate.cpp:44), also in the
middle of a restore.

### ServeLoop, SyncTask and the code

A step of the loop lies between two system calls. A client may be silent, may
have sent its request, may be reading, and may leave; that is all that keeps the
thread in `receive` or `stream`. A step of `SyncTask` is a critical section of
`Impl::mutex_`, a store to the stop flag or a join; `stop` is two steps because
the flag is stored before the lock is taken (sync.cpp:264-279). The destructor
may run only when no other thread is inside a call, as the language demands.
That a client's leaving ends only its connection is the case of a system without
SIGPIPE, or a program that ignores it; the other one is `BrokenPipe` of
`ServeCommand`.

### ServeCommand and the code

`EnterScope` is the constructor of `SignalScope` (cli/main.cpp:190): first the
flag is cleared, then the handler installed; a SIGINT before that kills. `Poll`
is `is_running`, `Look` reads the flag, `StopServer` and `Acknowledge` are
`stop`, the clearing of the flag and `stop_requested_by_user`; `WaitForServer`
and `Exit` are `wait` and what is printed and returned. A SIGINT after the scope
was left cuts off the destructor of the handle and nothing else, and is not
modelled. The value "library" of `command` stands for any other program; then
the callers of `SyncTask` do what they like. `BrokenPipe` ends either: `send` is
called without MSG_NOSIGNAL (tcp_transport.cpp:38, sync_server.cpp:115) and
nothing changes the default of SIGPIPE, so that a client which leaves while it
is being answered may end the server's process. `StopEnds` and `InterruptEnds`
name that end beside the ordinary one. In `PairSync` the same is among the kills
of a server or a client.

### PairSync and the code

`file[d]` is `trusted_devices.json` of device `d`. A save is `Truncate` and then
`Write`, a load is atomic; a truncated file does not parse and stays like that,
as every later writer loads first. Each client process works on the root of one
device and pulls from another; it calls `pair_sync` again and again. The server
of a device handles one connection at a time, with one store object. `End` is
every return of `pair_sync`; it closes the connection, and the server then works
for nobody. Faults are broken connections, lost writes and killed processes (a
killed server is started again).

### RazeUpdate and the code

A package is the number of the build its SHA-256 stands for; `Manifest` and
`Assets` give every release's packages and the files it offers. `Needs` is
`needs_download` (raze_update.cpp:658-668), which looks at `version.json` and
not at the files. `Plan` fails as a whole if an asset that is needed is missing,
and it also fails if `version.json` does not parse. `Download` may deliver
something else than the manifest names (an asset replaced meanwhile), which
`Verify` finds. Extraction overwrites in place: `Torn` is a package of which
some files are already those of the new build, and not the same as `None`, no
package, whatever build it is of. `WriteBegins` truncates `version.json`,
`WriteEnds` writes it. With `Lossy` an extraction may lose data when the file is
closed, which extract_regular_file does not look at (raze_update.cpp:224); the
runs have `Lossy` FALSE, and with TRUE neither `UpdatedMeansInstalled` nor
`BrokenIsReplaced` holds. The cache directory needs no state: a file in it is
downloaded and hashed by the run that extracts it. Files of packages that a
release dropped stay under the root.

### Discovery and the code

`scope[s]` is where server `s` is between the start of its
`DiscoveryResponderScope` (sync_server.cpp:35) and its end; what it does
meanwhile is `ServeLoop`. Several servers of one process share the globals of
discovery_mdns.cpp:46-50. `Lock` ... `Started` is start_discovery_responder
under `g_responder_mutex`, `RequestStop` and `Stopped` are
stop_discovery_responder, which holds the mutex while it joins. The thread runs
as soon as it is created, before `g_responder_running` is set. `Deliver` is the
network: each copy of a request may arrive at any time during the window, or
never, and an answer may be lost. `Collect` is one turn of the loop of
list_mdns_devices: it counts an interval even when a datagram ends the wait
early.

## 3. What the runs show

| run | instance | result |
|---|---|---|
| `restore_same_device` | 2 restores, 2 failing operations in each, a kill anywhere | `LossIsReported`, `NeverMixed` and the refinement of `AtomicRestore` hold |
| `restore_cross_device` | extensions on another device, 2 restores, 1 failure in each, kills | `LossIsReported` holds for `data`, `OkMeansReplaced` holds |
| `export_beside_restore` | 1 export, 1 restore with `data` on another device, 1 failure, a kill of the export, `locate` of a third process | files are missing without an error only of a version that was replaced, the export never goes back from new to old, half a part means a failed restore; `LossIsReported` holds for extensions, `OkMeansReplaced` holds |
| `restore_full_replacement` | `data` on another device, 1 failure, no kill | violated: one failed unlink loses data without a reported rollback failure |
| `serve_task` | a program with 2 threads, or the serve command with SIGINT at any point; 2 clients, advertising | whoever joins finds all released, states move forward, one more connection at most, no interrupt is lost, the exit code is right, `StopEnds` and `InterruptEnds` hold (every end is reached, or SIGPIPE ends the process) |
| `serve_idle_client` | 1 client, only the scheduler fair | violated: a silent client keeps stop and wait from ending |
| `serve_wait_twice` | 2 callers | violated: the second `wait` returns "ok" of a running task |
| `pair_star` | 2 clients of every kind, one server, 2 faults | trust is mutual, nothing is forgotten, only paired clients pull, retries succeed unless a trust file was left half-written |
| `pair_chain` | a device that serves and pulls, no fault | violated: two writers of one trust file undo each other |
| `raze_forward` | 4 releases that never go back, 2 packages, 3 faults | success means installed, only verified packages lie under the root, in part or whole, what is broken is replaced, retries succeed |
| `raze_revert` | the third release undoes the second, 1 fault | violated: success is reported with a package left half extracted |
| `discovery` | 3 servers, 1 seeker, a window of 3 intervals | servers do not disturb each other, the responder answers for its owner only, lists are fresh, the mutex is freed |

**Findings.** (1) After a failed delete of the source of a cross-device move the
complete copy is deleted as well (fs_ops.cpp:271), then the staging directory,
and with them what was left of the user's data. (2) The server has no timeout:
`stop(); wait();` hangs on an idle client (sync_server.cpp:778). (3) A second
`wait` does not wait (sync.cpp:298). (4) The trust file is read before a network
round trip and written back after it, so that pairings made meanwhile by the
server of the same root vanish, and the other way round (sync.cpp:488, 540).
(5) A release that goes back to an earlier build is not installed over an update
that was interrupted in between (raze_update.cpp:665): the plan compares it with
`version.json`, which still names that earlier build, and skips the package.
Two smaller ones have no run of their own: `remember_device = false` makes
`pair_sync` fail always (sync.cpp:531, 556), which `PulledMeansPaired` says in
other words; and `is_running` stays true while the state is
`kStopping`, where manager.h:152 speaks of "starting or running".

**Bounds.** `MaxRestores` = 2: a second restore meets whatever the first left
(root without data, torn parts, litter); a third meets nothing new, as a restore
reads only the root and the flags start afresh. `MaxFaults` = 2 in one restore:
one to start the rollback and one to break it. `export_beside_restore` has one
export beside one restore with one failure: an export remembers nothing of an
earlier one, and what a second restore finds is covered by the other runs and by
the proofs about `ExportSpec`, which have no bounds. The restore is not killed
there: to an export, a restore that was killed is one that stands still, and
what a kill does to a restore is in `restore_same_device`. In `serve_task` two
callers put one thread inside each call while the other makes another, and two
clients put one in the backlog while the other is served. In `pair_star` two
clients let a pairing fall between the load and the save of another; two faults
let a retry fail too. In `raze_forward` a package changes, another stays while
its asset is no longer offered, is dropped and comes back; three faults let two
runs break differently and a third fail too. In `discovery` three servers let
one leave, one be refused and one wait; two values of the count would do, as
nothing depends on its length. The proofs do not depend on these bounds.

**Fairness.** `SyncTask`: the scheduler runs the worker and every thread inside
a call, and nobody has to call anything. `ServeCommand`: `StopEnds` and
`InterruptEnds` need also that each client sends, reads or leaves (the last
conjunct of `CommandFairSpec`), which the code does not enforce: that is finding
2. In addition the main thread of the command is scheduled, which polls every
100 ms; nobody has to press Ctrl-C, and a process that was killed takes no step
(`Beside`). `PairSync`: every process is scheduled, the user tries again after a
failure, and the accept queue of a socket is first in first out, hence strong
fairness of `Accept` for each client. `Discovery`: the scheduler runs every
server and the responder; the mutex need not be fair, as `MutexIsFreed` speaks
of whoever holds it. `RazeUpdate`: the user runs the command again after a
failure, as often as faults happen. `RestoreTxn` and `BackupExport` have no
fairness: a call may be killed at any point, so that nothing has to happen.

**Deadlock** is checked in `PairSync`, `RazeUpdate` and `Discovery`.
`RestoreTxn` and `BackupExport` stop when their restores and exports are used
up, `SyncTask` and `ServeCommand` when the handle is destroyed, or the process
killed, and the clients have connected once: there the check is off.

Each property of a passing run has a mutant, a definition beside the one it
mutates (`..._NoRollback`, `..._Leak`, `Remember_AnswerFirst`, ...) that changes
it as a plausible bug would.

## 4. What is proved

For every value of the constants:

* `RestoreTxnProofs!TypeCorrect`: `Spec => []TypeOK`.
* `RestoreTxnProofs!LossReported`: `Spec => []LossIsReported`. The property says
  that a complete part keeps a complete copy somewhere; to be inductive the
  invariant `IInv` must say where, at every operation: the old version still
  under the root before its backup and in the old directory from then on, the
  new one in the stage or the root; that `installed` and `had` tell the truth
  about those places; and that the cleanup is entered only with a complete copy
  in the root or a failed rollback. Crashes go through `litter`.
* `RestoreOutcomeProofs!OkIsReplaced`: `Spec => []OkMeansReplaced`, whichever
  parts are on another device. `OInv` follows each part of this archive: from
  the extraction it waits complete in the stage, is under way at its own
  operation, and is under the root after it, as long as no error has occurred.
* `RestoreOutcomeProofs!RestoreIsAtomic`: `RestoreTxn` implements
  `AtomicRestore` where `rename` can move every part (`CrossDevice = {}`; with
  a copying move the run `restore_full_replacement` refutes all-or-nothing).
  The proof adds to `IInv` and `OInv` that the manifest is the one found, this
  archive's, or absent (`ManifestKept`), and maps each return of the call to a
  step of the abstract one and everything before it to a stutter.
* `RestoreOutcomeProofs!EachReplacedOrKept`: a part that `rename` can move is
  the archive's or what it was when a call returns without a failed rollback,
  whatever becomes of the other part. `ReplacesOrRestores`: `FullReplacement`,
  which the run `restore_full_replacement` refutes, holds where this is so of
  both parts.
* `RestoreSeenProofs!OneArchiveShown`: `Spec => []NeverMixed`. `OneVersion` says
  which version is in place at each operation: both old parts are out before a
  new one comes in, both new ones before an old one comes back.
* `BackupExportProofs`, of `ExportSpec`: exports beside restores, and `locate`
  calls that create the extensions directory at any point. `ExportTypeCorrect`.
  `ShortIsReplaced` (`ShortMeansReplaced`): `SInv` says that the open directory
  is where `held` has it (`HandleInv`), that a version is in one place at a time
  (`Apart`), that what was moved aside is not of this restore (`OldIsEarlier`),
  and that a complete directory of which files were deleted does not come back
  (`Gone`): so files are lost either after a failure, or from the old part when
  `OInv` has both new ones in place. `SeenInOrder` (`NothingOlderLater`),
  whichever parts are on another device: the invariant says that no version on
  disk or in the walk is later than this restore's (`VersionInv`); that as long
  as no error is recorded nothing new is shown before both old parts are out,
  and nothing old afterwards (`ShownInv`); and that a walk which has met
  something new sees a root of new parts only (`MetInv`). What a walk met of one
  restore counts as old when the next begins, so that it may span several.
  `HalfIsFailure` (`HalfMeansFailure`): a part of this archive comes out of the
  extraction complete, and `rename` takes it to the root as it is (`HalfInv`).
  `OkIsReplacedBeside`, `OneArchiveBeside` and `LossReportedBeside` are
  `OkMeansReplaced`, `NeverMixed` and `LossIsReported` with `locate` in between.
  `OInv` and `OldOrNew` are kept by it, as it creates a directory only where
  nothing is and an empty one is of no version. `IInv` is not: the directory can
  be in the place of the part that was moved aside. `WhereBeside` is what is
  left of it, where the old part is if it was complete; a rollback that finds
  the new directory in its way reports that it failed. `FullReplacement` and the
  refinement do not hold there, as an absent directory may come back empty.
* `ServeCommandProofs`, of the task: `TypeCorrect`, `JoinReleases`
  (`JoinedMeansReleased`), `AdvertisesOpenPort` (`AdvertisedIsOpen`),
  `StopsAccepting` (`AtMostOneMore`) and `StatesAdvance` (`StateMovesForward`),
  for any number of callers and clients, with advertising or without. `IInv` is
  the conjunction of `LoopInv` (over which stretch of the loop each resource is
  held), `LateInv` (after a late accept the flag is read before the next
  `select`), `WorkerInv` (how the task state follows the thread) and `CallInv`
  (who holds the thread: whoever does not find it is inside `wait`, or it has
  been joined). `OneWaiterIsTold`: `WaitReturnsFinalStatus`, which the run
  `serve_wait_twice` refutes, holds in programs in which one thread uses the
  handle (`Callers = {Owner}`).
* `ServeCommandProofs`, of the command: `CommandIsProgram` (`CommandSpec =>
  Spec`), so that all of the former holds of the command; `CommandIsTold`: so
  does `WaitReturnsFinalStatus`, as long as its process is there;
  `CommandTypeCorrect`, `InterruptKept` (`NoInterruptLost`) and
  `ExitsAsExpected` (`NeverUnexpected`). `CInv` adds that a server ends well
  only when it was asked to (`AskedInv`), and that the command knows of the
  request whenever it may wait (`CommandInv`).
* `PairSyncProofs`: `TypeCorrect`; and, where every trust file has one writer
  (`SingleWriter`: no device both serves and pulls, no root has two clients),
  `TrustMutual` (`TrustIsMutual`), `NothingLost` (`NothingForgotten`) and
  `OnlyPairedPull` (`PulledMeansPaired`). `IInv` says what a file and the list
  in memory of its writer have in common (`FileInv`), that the server remembers
  first (`TrustInv`), whom it works for while it saves (`ServingInv`), and what
  an accepted request rests on (`PullInv`). A truncated file is `Unreadable` for
  good. `PairedIfNeeded`: with one writer and no client that was told not to
  remember, no call ends for lack of trust (`PairsIfNeeded`); `NeededInv` says
  that from its save on a client finds its target in its own file, and is turned
  down only while it is pairing. Without `SingleWriter` the run `pair_chain`
  refutes it.
* `RazeUpdateProofs`: `TypeCorrect`; `Verified` (`OnlyVerified`: whatever is in
  a package's place, half extracted or whole, passed verification); and, for
  releases that do not go back (`NeverReverts`, which the instance `Forward`
  satisfies) and files that are closed without loss (`~Lossy`),
  `SuccessMeansInstalled` (`UpdatedMeansInstalled`) and `BrokenReplaced`
  (`BrokenIsReplaced`). The invariant has to say of every package on disk which
  release it came from and that `version.json`'s release is not later
  (`TraceInv`), and of the run under way that everything that is not in `todo`
  is in place (`PlanInv`). Without `NeverReverts` the run `raze_revert` refutes
  it; with a lost write the skipped package stays broken until its next change.
* `DiscoveryProofs`: `TypeCorrect`, `Stays`, `OwnerAnswers`, `OwnerRuns` and
  `ListIsFresh`, for any number of servers and seekers. `IInv` adds to the types
  who owns the responder (`OwnerInv`: one server, from start to join), what the
  mutex protects (`MutexInv`: nobody opens while there is a responder, and only
  who joins has asked it to stop) and where answers come from (`SeekInv`).

The assumptions are those of the modules (`RestoreAssumption`,
`ServeAssumption`, `TaskAssumption`, `RazeAssumption`, `DiscoveryAssumption`):
the bounds are naturals and the flags Booleans, `ExportAssumption` likewise;
`PairAssumption` also gives every client a home and a target. `SingleWriter`,
`NeverReverts`, `~Lossy`, `CrossDevice = {}` and `Callers = {Owner}` are
hypotheses of the theorems that need them, and each of them but `~Lossy` is what
separates a theorem from a run that expects a violation: where it does not hold,
the code does not do what its documentation says.

Only model-checked: what needs fairness (`StopEnds`, `InterruptEnds`,
`RetriesSucceed`, `MutexIsFreed`), which is out of reach of the prover, and with
it the finding of `serve_idle_client`, which is about liveness. Every other
property that a run checks is the subject of a theorem.

## 5. Not modelled

* The bytes of archives, JSON and frames; argument parsing, prompts, printing
  and the platform layer; path checks, which are pure and appear only as
  archives that are refused.
* `push_to_device` exists in the client, but the server turns down every
  direction but pull (sync_server.cpp:408-416), so that no push ever succeeds.
* Two restores of one root at the same time: nothing locks the root, and the
  code makes no promise for them. One restore is modelled beside an export and
  beside any `locate`.
* `load_or_create_device_id` (sync.cpp:61): two processes on a fresh root can
  each generate an id, of which one is forgotten. The devices of `PairSync` have
  their id.
* The close of a file that was written (archive_stream.cpp:513, fs_ops.cpp:89):
  its result is ignored, but the data went out by `write`, which is checked. A
  file system that reports a full disk at the close only is left out.
* SillyTavern itself, which writes its data during an export or a restore.
* `resolve_pair_target`: a choice from the list that `Discovery` delivers.

## 6. Plan

Done: the restore transaction, the export beside it, the task, its server and
the serve command, pairing, the updater, discovery, with proofs about each of
them.

1. Proofs: what is left of `FullReplacement` and of the refinement beside
   `locate`, where an absent directory may come back empty.
2. The creation of the device id by several processes, and what `PairSync` makes
   of a client that comes back under another one.
