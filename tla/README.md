# Formal models of windows-face-unlock

TLA+ modules for the parts of windows-face-unlock whose correctness depends on
order: who may act when, what survives a crash, what a late or lost answer
leaves behind. TLC checks them on small instances; TLAPS proves the main
properties of the core for every value of the constants.

## The system

A Windows machine is unlocked with a face. A **credential provider** DLL, loaded
by LogonUI as SYSTEM, asks a per-user **service** over a named pipe; the service
owns the webcam and the enrolled gallery, decides, and hands back the stored
password. A **presence monitor** asks the same service whether somebody is still
there and locks the workstation; a **tray** and an **enrollment wizard**
configure it; a **watchdog** restarts a dead service.

| Component | Source | State | Modules | Status |
|---|---|---|---|---|
| Lockout | `face_service/lockout.py` | failure count, deadline, `lockout.json` | `Lockout` | modelled |
| Unlock service | `face_service/service.py` | the connection, the request, the armed grant, the gesture slot, the camera lease and handle, the posture floor, `_stop` | `UnlockService` | partly |
| Liveness and gestures | `liveness.py`, `lowlight.py`, the judging half of `service.py` | burst tallies, blink and pose tasks | `FaceJudge` | partly |
| Gallery | `recognizer.py`, `adaptive.py`, the enrollment commands | references, adaptive ring, two files, photographs | `Gallery` | partly |
| Pipe clients | `PipeClient.cpp`, `pipe_io.py`, `tools/pipe_client.py` | one call with a total budget, one reply being read | `PipeCall`, `ReplyParser` | partly |
| Camera opener | `camera_open.py`, `camera.py`, `camera_boost.py` | one open attempt and its thread | `CameraOpener` | modelled |
| Credential tile | `FaceCredential.cpp` | worker thread, lock, published credential | `FaceTile` | modelled |
| Presence monitor | `presence_monitor/monitor.py`, `remote_session.py` | strikes, doubts, pause, last lockout seen | `Presence`, `Surroundings` | partly |
| Tray | `presence_monitor/tray.py`, `gui.py`, `updater.py`, `__main__.py` | threads and windows, the wizards it started, update checks | `Tray` | partly |
| Watchdog | `tools/watchdog.py`, `face_service/watchdog.py` | pause marker, failure count | `Watchdog` | modelled |
| Enrollment wizard | `presence_monitor/enroll_gui.py` | lease, camera thread, session, pending photographs | `Wizard` | partly |
| Settings | `face_service/config.py` and the windows | `config.toml`, what each window holds | `ConfigFile` | partly |
| Credential store | `credentials.py` | `credentials.bin`, the secret it is encrypted with | `CredentialStore` | partly |
| Data directory custody | `datadir.py` | owners, links and rights of the tree | `Custody` | partly |
| Audit log, diagnostic frames | `audit.py`, `service.py` | log with backups, ring of frames | `AuditLog`, `FrameDumps` | modelled |
| Release | `installer/build.py`, `tools/verify_frozen_entrypoints.py`, `packaging_selftest.py` | bundle, gate stamp, installers and checksums | `Release`, `BundleGate` | partly |
| Setup and uninstaller | `installer/installer.iss`, `tools/register_tasks.ps1`, `tools/uninstall.ps1`, `credential_provider/register.ps1` | tasks, processes, files | `Setup` | partly |

What makes the code hard to test: one sequential server shared by clients that
give up at any moment; a password that may be released while nobody listens any
more; a lockout that has to survive being killed; a token good for one use over
two connections; a camera handed back and forth between processes; a stop that
comes from a thread of its own; a tile written by two threads; one pause marker
with two writers; several files replaced one after the other. The hazards are
listed with their lines in `PROJECT.json`, each with the properties that would
catch it.

## Modules

| Module | What it is |
|---|---|
| `LockoutOps` | the arithmetic of one recorded attempt |
| `StrikeLedger` | abstract: a ledger of failures that no restart can rewrite |
| `Lockout` | the lockout object, its file, process death and restart; refines `StrikeLedger` |
| `UnlockService` | the serve loop, its clients, the credential and control commands, crash and restart |
| `CameraHandle`, `CameraOpener` | abstract: who answers for the webcam; the bounded open, its threads, their hand-over, which refines it |
| `TileOffer`, `FaceTile` | abstract: at most one credential, for the selection that asked; LogonUI's calls against the scan's thread, which refines it |
| `Watchdog` | the iteration, the pause marker, the processes it supervises, the wizard's pause |
| `Surroundings`, `Presence` | what the machine may be asked in a tick, and what each probe says when it fails; the tick, the event polls, the tray's operations on them |
| `Tray` | the tray's process: its windows and their workers, the wizards, the update checks, Quit, death and restart |
| `BundleGate`, `Release` | what the gate asks of a frozen bundle beside what its EXEs need; the runs of the build, the stamp, the installers |
| `FaceJudge`, `Gallery`, `CredentialStore`, `Wizard`, `Setup`, `PipeCall`, `ConfigFile`, `ReplyParser`, `Custody`, `AuditLog`, `FrameDumps` | one component each, safety only; `Traces` joins the last two |
| `MCParts` | those eleven side by side: a behaviour exercises one (the wizard counts for two) and leaves the others in an initial state, so that their states add up |
| `MCOnDisk` | `Lockout` and `Release` in one run in the same way: two programs whose state outlives them in a file |
| `MC...` (others) | values of the constants for TLC |
| `...Proofs` | theorems and proofs of the module they are named after; `EnrollmentProofs`: of `Gallery` and `Wizard`; `PartsProofs`: of `CredentialStore`, `PipeCall`, `Setup`, `ConfigFile`, `FaceJudge` and `Custody`; `RecordsProofs`: of `Lockout` and `Traces`; `ProviderProofs`: of `FaceTile` and `ReplyParser`; `DeploymentProofs`: of `Watchdog` and `Release`; `PresenceProofs`: of `Presence`, `Surroundings` and `Tray` |

`UnlockService` composes the lockout (through `LockoutOps`) with the rest of the
service. `Lockout` looks at the same object from closer by: an adjustable wall
clock, live thresholds, an unreadable file, failing saves. `CameraOpener` is the
inside of what `UnlockService` takes as one step, a capture opened or "busy", and
`FaceJudge` is the inside of its verdicts. `Watchdog` contains the wizard's pause
and the service up to its serve loop; `Wizard` contains the service's lease.

### Lockout

`mem` is `_fails` and `_locked_until`, `disk` and `readable` are the file. Each
call of `record` is one action, since the code holds one lock over the judgement
and the save: a failure during a lockout is neither counted nor saved, a success
that finds the state clean is not saved again. `Save` either replaces the file
atomically or, if `SaveCanFail`, meets the `OSError` that the code swallows.
`last` is a history variable that makes a refund visible to the refinement.

### UnlockService

`pc` follows `serve_forever` and `_serve_one`: look at `_stop` (`check`), create
the pipe (`bind`), wait for a client (`accept`), `read`, then the handler
(`gates`, and `capture` while it owns the camera), then `reply`, the outcome of
`WriteFile` (`delivered` or `undelivered`), and `flush` until the client is done.
Between any two of these steps clients call and leave, the clock ticks, the
console handler stops the service, or the process dies.

* A handler that opens the camera is two actions: its gates and the opening
  (`StartBurst`, `StartRound`, `StartProbe`), and its verdict with every change
  it makes (`BurstMisses`, `RoundPasses`, ...). A refusal at a gate is one action.
* What the engine sees is a nondeterministic choice among the verdicts the code
  tells apart; so is the custody of the data directory, and the SYSTEM gate in
  the configuration file at every start and reload.
* `pending` is `_pending_grant`; `Settle` is `_finish_grant`.
* A gesture token is a number, a request may carry any token issued so far.
* `presence` stands for the probe commands `presence`, `verify` and `challenge`,
  none of which touches the ledger; `ping`, `status`, an unknown command and a
  malformed request change nothing and are left out.
* One clock stands for wall and monotonic time here.
* `Stop` sets the flag and, as `_wake_accept` does, wakes the loop only if it is
  waiting for a client at that moment.
* A reload that cannot be applied has raised the posture floor already, before
  the roll-back: the floor may be stronger than the gate in force, never weaker.
* A lease is granted even while an abandoned open attempt is still in the driver
  (`service.py:1438`); the opener's documentation accepts this, and no property
  excludes it.
* Against the docstring of `_drain_until_client_closes` ("can't wedge the serve
  loop", `service.py:2082-2084`), `FlushFileBuffers` before it (`service.py:1923`)
  waits without a bound for a client that keeps its end open and never reads;
  `BackToAccept` therefore assumes that clients leave.

### CameraOpener

One caller, the pipe server, and the threads its attempts leave behind. `caller`
is where `open` is, or that a camera is in hand; `current` is `_worker`. Per
thread there is its place in `_run`, the published `outcome`, the `abandoned`
event, and whether its Camera has a capture. `Publish` and `Abandon` are one
action each because the code takes the lock around both. `join(cap_s)` may return
at any time: `Abandon` has no clock, it needs only that the lock finds no result.
The three backends and the reads of `open_fast` are one `Grab` or `GiveUp`.
`open_fast` is taken at its word not to raise (`camera.py:84`): a read that raised
in the warm-up would leave the capture to the next attempt of the same `open`.

### FaceTile

`ui` is what the LogonUI thread is doing in the tile, `worker` how far the scan's
thread is. A section under `m_mtx` is one step; calls into LogonUI are made
outside the lock and are steps of their own, so that a selection, a deselection
or an `UnAdvise` may come between any two. `text` and `uiText` are the lines the
two are about to put on the tile. The scan may end in any of `Reasons`, be told
to stop, or throw. The destructor is the way from `Unhook` to `gone`.
`TileOffer` sees only what is offered: a credential published for the selection
that asked for it, taken once, withdrawn by whatever ends the selection.

An allocation of LogonUI's thread may fail in `SetStatus`, whose caller ends, or in
the copy of a stored credential, which stays stored. One such failure does more: at
`FaceCredential.cpp:309`, after `m_scanning` went up and before the `try` around the
thread, it leaves the flag up with no thread, and every later click is swallowed
until `UnAdvise`. The comment at 310-312 names that danger for the thread's
constructor alone. `stranded` records it and `ScanOwned` says that nothing else
parts the flag from the thread. A mutex that cannot be locked is not modelled.

### Watchdog

`wd` is the step of the iteration: look at the marker, ping, look for processes,
kill, wait, start, count. Each process goes from `starting` through the mutex and
`clear_pause` to `up`, and may hang, crash, stop or be slow to die; `mutex` is
`Local\FaceUnlockService`. `marker` records who wrote the pause file and what its
date says now: `live`, `over`, `far` (a date further ahead than the reader
accepts) or `bad`. The PowerShell criteria are the set `Spared`: a developer's
python is not killed. A deliberate stop is `Shutdown`; the wizard writes and
clears the marker around a build. The fault budget `MaxFaults` is spent by
hangs, crashes, failed kills and deletes, a clock set back, a second launch and a
restart of the watchdog. A stop during the settling time of a restart is erased by the starting
process's `clear_pause` and is not `held`. Not modelled: a `CreateMutex` that
raises.

### Presence

`step` is where `_tick` is, from `sleep` over the event poll, the gates and the
probe to `award`, `decide` and `lock`. `poll` says for every thread where
`_check_service_events` is: the tick's own call and a poke from the tray run
the same code. The tray pauses, resumes, saves settings (two statements apart:
the reset and the poke) and quits between any two steps. `evidence` counts the
answers of the service behind the current strikes, a history variable. Free
inputs: what the probes of the machine find, and every answer of the service. Two facts of the code the model shows: `_uncertain` is not cleared
by an absent or refused probe, although `config.py:110-113` says "consecutive";
a lock and unlock by the user between two ticks goes unnoticed. `strikes += 1`
is one step; `_fs_episode` only guards a log line and is left out.

`Surroundings` says what each probe makes of what it may find: WTS outranks the
desktop and has no opinion but on its two documented values, a resident remote
tool counts by its connections to the outside, the idle time is masked to the
width of its counters, and a probe that fails says "unlocked", "not remote",
"unknown" or "no full screen". `Answers` are the answers a tick may get, at any
time (`any`) and once nobody is there (`away`): then nobody is connected, nothing
owns the screen, the last input was at least the limit ago (and less than one
wrap, 49.7 days), and where WTS has no opinion the desktop is the user's own.
A screen saver on a desktop of its own would count as locked there, as coded.

### Tray

`life` and `menu` are the process and what the icon's thread does; `win` is, per
key of `_window_locks`, where the window's thread is; `workers` and `posts` are
the Status window's requests and the callbacks they gave to `after`. A window
that was closed with a request in flight leaves the worker as the last holder of
its Tk interpreter (`LastHolder`): `orphan`, which `Finalized` turns into the
death of the process (the abort `_launch_singleton` means to avoid by collecting
the window in its own thread, `gui.py:530-533`, which such a worker defeats). `wizard` and `child` are the wizard processes and the one
this tray knows; `check` the threads of the update flow with what they told of
which answer. The tray may die at any step and start again; its threads are
daemons, its wizards live on. A wizard that could not create the mutex goes on
without it (`"unguarded"`; `_first_instance` fails open) and may meet another at
the camera: `OneWizard` is about those that could. The same would let a second
tray run, which is not modelled. Quit's call has three seconds and one attempt: a
service that is not there, or is busy with a burst or a build, does not hear it
(`asked = "unheard"`) and goes on without a tray; what the handler's own thread
buys (F-49) is that the process does not end before that is known. The model is of
the frozen layout. The updater's
apply path is not modelled: `APPLY_ENABLED` is False.

### BundleGate and Release

`BundleGate` is one pass after the other of `verify_frozen_entrypoints.py` over a
bundle given by the names in its EXEs' archives, its extensions and data files
(`Passed`), and beside it what the EXEs need when they run (`Runs`): an import by
name in the archive of the EXE that makes it, what an extension imports from
native code, pywin32's lazy imports, the mined data files. The gate looks most
names up in the union of the archives; that suffices if the hidden imports reach
every EXE alike (`HiddenAlike`), as `windows_face_unlock.spec` does with its one list.
`Release` is `build.py` around it: a full run, a first and a second half, and
`--gate-only`; the model pack, the DLL built, signed and staged, the steps of the
gate (`Stations`), the stamp that pins what it saw, ISCC and the checksum. Any
step may fail or the run die; whoever builds may change the pack, the DLL, the
bundle, the script or the version between any two steps. `raced` marks a change
that came while the gate was reading or ISCC packing: neither is excluded by the
code, and the properties speak of installers without it. The other self-tests the
gate runs and the files the stamp lists by digest are folded into `iss.sound`.
Disagreements met while modelling, which `ReleaseGated` does not exclude:
`step_inno` takes the last installer by name for the one it compiled, so that with
0.9's still in the folder the checksum of 0.10 is not written (`build.py:639`,
against `build.py:16`); nothing reads the version frozen into the bundle, so that
`--gate-only` after both literals were raised stamps an old bundle under the new
version (`build.py:513`, against `packaging_selftest.py:9-11`); required modules are
looked up in the union of the archives (`verify_frozen_entrypoints.py:546`, against
its lines 37-39); `SKIP_CP=1` looks at no DLL, so that one staged by an earlier run
is packed unjudged (`build.py:526`, against `build.py:38-39`).

### FaceJudge

One burst or one gesture round at a time, `at` is where it is. A burst is a
choice of one sight per frame among what the code tells apart (a face near, far
or doubtful, a screen, shut eyes, light): `Judge` is the verdict table of
`liveness.py` over the tallies. A faulty burst is healed and read again once; a
dark or doubtful one is boosted and read again once. A gesture round takes one
frame per step through the blink and pose tasks, and counts only frames of the
enrolled face. A boosted re-capture is not checked for a fault
(`service.py`, about 1540-1566), so a camera or engine fault in it costs a strike
in spite of the comment there: `OutcomesEarned` makes that exception and no
other. A round with no frame, or refused by the engine, is a strike, as coded.

### Gallery

Faces are the numbers of the photo sessions they were built from. `embedFile` and
`ringFile` are the two files, `images` and `pending` the photographs, `base`,
`ring` and `refs` the copies in memory. `serving` is the step a build, replace or
clear has reached; the process may die between any two file operations and any
operation may fail. Exceptions the properties make, each a behaviour of the
code: a death or a failing unlink between the replacement of `embeddings.npz`
and the removal of `adaptive.npz` leaves the former ring (`torn`), and in the
second case the answer is failure although the new file is in place
(docstring at `service.py:1762-1763`); switching the feature off keeps the ring
until a restart, and switching it on overwrites the ring on disk (`toggled`);
a clear that failed in part is followed by a reload at the next frame. Not
modelled: quality checks, engine tags, `tools/enroll.py`, a change of capacity.

### CredentialStore

`key` is the secret's file, `creds` and `tmp` the encrypted password and its next
version, which all processes share. A save, a migration of an old blob and a
deletion are sequences of file operations, cut short anywhere by the death of
the process. `clash` records that two processes made a secret at once, or that
the secret could not be read while there was one: what is stored cannot be
decrypted then, as coded. A migration may overwrite a newer save, or bring back
a password just cleared; `CredentialReadable` does not exclude it. It is about what
is stored: that a migration leaves the old blob until `os.replace` has put the new
one in its place is how `Replace` is written, no property says it.

### Wizard

`window`, the camera thread, the lease on both sides, the capture, the build's
thread, the wipe, the close and the kill. `LeaseNext` (timed) and `SessionNext`
(untimed) are explored separately. `frame` is how far the camera thread is in
`_process_capture`, which looks at `_building`, `_guide_pinned` and
`_capture_armed`, chooses a path, writes and posts without a lock: each is a step
of its own, and the window's thread runs between any two. The frame that had
looked at `_building` when Build was clicked (`caught`) therefore may still write
its one photograph into the directory the service is reading, and may post its
advice behind the outcome (a `"late"` line). `SessionWhole` and `OutcomeStays`
exempt that one frame and no other. It may also put "all N captured" over an
outcome; that message is no advice and no property is about it. The join of the
close waits 3 s: assumed is that a file is written in less, while an `after()`,
which waits for the window's thread, may be cut off. Behaviours found on the way and exempted by a
named history variable: a wipe's `done()` resets `_mode` even when the clear
failed, leaving photographs pending for a replace (`forsaken`, against
`enroll_gui.py:1104-1105`); `_choose_mode` ignores a directory it could not empty
(`stuck`); a wipe or a wait that ends during a build enables Start (`crossed`).
Others: the build's thread is a daemon, so a window closed in mid-build leaves
the pause of the watchdog to its TTL and no toast; with the periods in the code
the lease ends after two failed renewals, before the third try (against
`enroll_gui.py:64-65`); a renewal in flight when the close stops waiting may
re-arm the lease; a wizard started while an abandoned build is still served may
delete photographs that build reads. The run follows a session to the first of
these exemptions or to the close of the window it happened in, and not beyond
embeddings left without photographs or a camera thread that outlived the close
(`MCParts!Followed`); `SessionsAreWhole` and `OutcomesStay` have no such bound. One
wipe at a time; coaching and steadiness are free.

### Setup

The stages of Setup and its uninstaller (`installer/installer.iss`) with the tasks,
their processes and the files they run from; the registrar
(`tools/register_tasks.ps1`) step by step, `tools/uninstall.ps1` and
`credential_provider/register.ps1`; a machine of the installed layout or of a
developer's (`layout`). Setup and its uninstaller know of no other layout, and
`uninstall.ps1` removes the developer's `.venv` but leaves `{app}` to Setup's
uninstaller. Assumed: stopping a task, where it works, cancels its pending
restart; one process per kind; logon triggers have fired before Setup starts;
nobody starts a program by hand meanwhile.

Three things leave Setup `Uninformed`, so that it goes to the files while a process
runs from them, and `VerdictsTrue` exempts these and no others: Setup knows an
installation by `{app}\postinstall\register_tasks.ps1` alone (`gate`,
`installer.iss:476`), which its uninstaller deletes although a process it could not
end holds other files; `Get-CimInstance` runs with `SilentlyContinue`, so a list of
processes that cannot be read is an empty one and `-Action Stop` exits 0 (`blind`,
`register_tasks.ps1:149-164`); and a `Stop-ScheduledTask` that fails says nothing,
so that the scheduler runs a task again whose process it saw killed (`unstopped`).
After the last, a start may also do nothing for a task whose process is gone.
Each of the three is needed: without it TLC finds `SetupKept` violated.

Found besides: `uninstall.ps1` prints CLEAN and exits 0 when a section of its
inventory could not be read, against its own comment (`uninstall.ps1:308-311`),
exempted by `unread`; a comment in the Inno script still says that tasks are
unregistered where they are stopped. Not modelled: `sign_cp.ps1`, processes of
other sessions, Inno's own check for files in use; the several data trees are one.

### PipeCall and ReplyParser

`PipeCall` is one exchange: knock, retry while the pipe is missing or busy,
check the peer, write, read, give up when the budget ends, with overlapped I/O
cancelled and waited for. `peer` is who answers, `holder` who has the name now.
The comment at `pipe_io.py:13-14` says the provider applies the same rule; the
provider in fact accepts any account of the machine or domain
(`PipeClient.cpp:471-483`), and the model has both rules. A request may be
written just before the budget ends, so "no answer" is not "not done". The
service's deadlines (11 and 14 s) count from its read and the provider's budgets
(12 and 15 s) from the first knock: `UnlockService` has no clock for clients,
they may leave at any step.

`ReplyParser` reads replies the service can write (three shapes) for every short
password over characters of every kind: quote, escape, control, surrogate
halves, NUL (`Alphabet`: what stands for itself and the kinds of `Escapes`). What the encoder does and what the reader undoes are modelled by
what they do to one character. Nested values are not reached.

### ConfigFile, Custody, AuditLog, FrameDumps

`ConfigFile`: each editor loads, changes its field and saves through one
temporary file. Losses the code has are named in `excused`: a window open while
the tray changes the language writes the old one back (`stale`), an unreadable
file is taken for defaults and then saved over (`misread`), two saves share the
temporary file (`overlap`). The run stops following a behaviour there. A death of the process may come at any
step; a loss of power is not covered: `save` does not flush, so the rename may
survive a text that was not written.

`Custody`: the walk of `heal_data_dir` and `verify_data_dir`, entry by entry,
while other programs create, rename and remove. A foreign file renamed while the
walk passes may be missed until the next start, which `CustodyTrue` allows; an
entry that vanishes in mid-walk makes the service refuse until then. Handles
already open, a walk aborted by an unexpected exception and propagation of
rights are not modelled.

`AuditLog`: a rotation by the set of its steps that went through; since the oldest
file moves first, each moves what was there before. Any may fail, and a death leaves
out the last ones. A file is told by its lines and its size. A
torn line takes the next one with it; a failing replace may cost a backup or let
the file grow, which `LogKept` allows only after an operation failed.
`FrameDumps`: the ring of frames and the purge at a start. Turning the switch
off deletes nothing until then. The link test and the later listing are one
step, and no two frames have the same millisecond.

## Runs

| Run | Checks | What it shows |
|---|---|---|
| `on_disk` | `DiskCurrent`, `IsALedger`, `ReleaseGated` | the file always holds what the object holds, and the lockout with its restarts implements the ledger; whatever order halves, gates, edits, failures and deaths of a build come in, an installer holds what the gate let pass |
| `lockout_save_fails` | `RestartKeepsLockout`, violated | a swallowed `OSError` lets a restart end a lockout |
| `unlock_service` | `BudgetHeld`, `TokensSpentOnce`, `GrantsGuarded`, `ForgivenessEarned` | the safety of `unlock` and `unlock_gesture` under two clients, reloads, crashes and restarts |
| `service_live` | `LeaseExclusive`, `BackToAccept`, `ShutdownHappens` | the service has no camera while it is leased; every connection ends; a stop that finds the service serving ends it |
| `service_stop_lost` | `StopHappens`, violated | a stop between the look at `_stop` and the creation of the pipe is lost |
| `camera_opener` | `OneCapture`, `IsAHandle`, `LateCaptureClosed` | an open returns however the driver hangs; never two captures; a late one is closed |
| `face_tile` | `ScanOwned`, `IsATile`, `CallsReturn`, `VerifiedSignsIn` | every interleaving of LogonUI and the scan implements the offer; no thread outlives the tile; a verified face is submitted |
| `watchdog` | `OneServer`, `KillJustified`, `Supervised` | one server at most, kills are earned, a stop is kept until it runs out, a service comes up again and again |
| `watchdog_stop_undone` | `StopStays`, violated | a wizard's build takes over and removes the marker of a deliberate stop |
| `presence` | `Obeyed`, `ToastPerEpisode`, `LockEarned`, `Converges` | a lock is earned by answers of the service; pause and quit are obeyed; one toast per lockout and poller; an absence ends in a lock |
| `tray` | `TrayOrderly`, `TrayResponds` | one status poll at a time, its result for the window that asked; one wizard at the camera; Quit ends when its one call to the service was heard or given up and leaves no wizard; no version offered or denied wrongly; polls, clicks and Quit come to an end |
| `parts` | one property per behaviour | the components with safety only |

In `parts`: `OutcomesEarned` (a strike or a match is what the frames say),
`RingAnchored`, `MemoryIsDisk`, `ClearForgets` (the gallery), `CredentialReadable`,
`LeaseCovers` (while the wizard holds the webcam its lease is in force, one missed
renewal included), `SessionWhole` (no photograph is added to or taken from a
directory a build is reading, a replace is of one session, nothing of one that
was not built stays behind), `OutcomeStays` (no advice of the camera
thread covers the outcome of a build, but that of the one frame a click on Build
caught after its checks),
`SetupKept` (Setup and the uninstaller: `TasksKept` and `VerdictsTrue`), `ExchangeSafe`,
`ConfigKept`, `ReplyFaithful`, `CustodyTrue` and `TracesKept`, which
joins the audit log and the frames (`Traces`).

**Bounds.** Every bound is a constant or is named where it guards.
`on_disk` follows the lockout or the build, which share no variable (`program`).
The lockout: a clock of 0..4 with durations 0 and 2 has room for a lockout to
begin, be stretched or cut by a clock step, end, and begin again; limits 1..3
allow a limit to fall below the count. `unlock_service`: a SYSTEM client and an
ordinary one; two attempts, so that a strike is carried over a restart; two
tokens, so that one is superseded; durations of one second with two of clock, so
that each can be met and missed. `service_live`: one attempt, one second, the
persistent camera, and the commands that own the camera, lease it and stop: this
keeps the graph small enough for liveness; `LeaseExclusive` for any lease is
proved. `camera_opener`: two retries and three threads, one still ending
for every attempt. `watchdog`: two service processes and a developer's, a threshold
of two, one stop, one build and one fault of any kind. `presence`: one poke beside
the tick's poll, two settings, counts to 2, two operations of the tray, counters that
wrap at 4 ticks with an idle limit of 2. `tray`: the Status window with one
button, opened twice in each of two lives, two wizards, one click beside the check
at startup, the answers GitHub gives to `releases/latest`; windows, wizards and
clicks share no variable, so a behaviour has one of them (`used`). The build: two
runs, two changes, three bundles (a whole one and one defect each for the archive
and for the heal), one version. Gallery:
two sessions (one to replace the other), a ring of two with a clock of 0..2 and
a cooldown of one. `CredentialStore`: two processes, two passwords, three secrets.
`FaceJudge`: bursts of five frames with two required, nine sights, rounds over
nine turns. `Wizard`: a lease of three ticks renewed every one,
in sessions that add; replaces are in the other half. `Setup`: two tasks, of which one
at a time fails to be stopped unseen, an undeclared one in Setup's layout. `PipeCall`: a
budget of three ticks. `ConfigFile`: one edit by hand. `Custody`: a tree of five
entries below its root, seven starting states, three changes by other programs,
two starts. `AuditLog`: two backups, five lines of two sizes. `FrameDumps`: a
ring of two (40 in the code).

**Deadlock** is checked except in `presence` (the tray's Quit ends the monitor),
`tray` and `on_disk` (the last tray or build has ended) and `parts` (a component's
work ends).

**Fairness.**
`UnlockService`: `ServerFairSpec` is weak fairness of the serve loop's own steps:
opening the camera, a burst, a gesture round and the drain each have a time limit
in the code. None is given for what waits for a client to send or to read,
because `ReadFile` and `FlushFileBuffers` have no limit. `FairSpec` adds that every
client leaves in the end: `PipeCall` and `pipe_io.exchange` run under a budget.
No fairness of `Call`, `Stop`, `Die`, `Start` or `Tick`.
`CameraOpener`: none for the driver, an attempt may hang for ever; fair are the
caller's return from a `join` with a limit or a pause, and what a thread does
after `open_fast` returned.
`FaceTile`: weak fairness of the LogonUI thread inside a call, of the scan's own
steps without its exceptions, and strong fairness of the enumeration LogonUI
makes after `CredentialsChanged`. Calls into LogonUI are assumed not to wait for
the LogonUI thread. `VerifiedSignsIn` assumes the provider's own sink.
`Watchdog`: weak fairness of the iteration, the wizard, the marker's expiry and a
dying process's end; strong fairness of a starting process's way through the mutex and
`clear_pause`: a start takes less than the `Threshold` rounds of 30 s, and one
tried for ever succeeds.
`Presence`: weak fairness of the tick, of the tray's open statements and of the
polls; every call they make has a budget. `Converges` speaks of a machine whose
probes keep saying absent.
`Tray`: weak fairness of a worker, of a posted callback, of a window's thread once
it is building or collecting, of Quit's steps and of an update check: `pipe_call`,
`wait` and the request to GitHub have timeouts, and `mainloop` runs what it was
given. None for clicks, closing or deaths.

**Findings.** Three runs state what the code's documentation promises and show the
behaviour that breaks it: `lockout.py:6-7` (restart and lockout),
`service.py:2038-2042` (stop of an idle server) and `watchdog.py:3-5` with
`enroll_gui.py:166-167` (a deliberate stop). Smaller disagreements that no run is
spent on are named with their module above.

## Theorems

For arbitrary constants that satisfy the assumption of the module (`LockoutAssumption`,
`ServiceAssumption`, `OpenerAssumption`, `TileAssumption`, `WatchdogAssumption`,
`PresenceAssumption`, `GalleryAssumption`, `CredAssumption`, `PipeCallAssumption`,
`SetupAssumption`, `ConfigFileAssumption`, `JudgeAssumption`, `CustodyAssumption`,
`AuditAssumption`, `FrameDumpsAssumption`, `WizardAssumption`, `ReplyAssumption`,
`SurroundingsAssumption`, `TrayAssumption`, `BundleGateAssumption`, `ReleaseAssumption`). The
type invariants of these modules are proved; where a component has a run of its own
its type invariant is not checked again there. The components that `MCParts` checks
one at a time in one run have a specification each (`GallerySpec`, `WizardSpec`, ...),
which is the run's with the other components standing still; the theorems are
about these.

| Theorem | Argument |
|---|---|
| `RecordsProofs!TypeCorrect`, `DiskStaysCurrent` | inductive together: every action that moves `mem` saves it, or found it unchanged |
| `ImplementsLedger` | under `~SaveCanFail`, step by step: a call is a `Strike`, `Forgive` or `Retune`; death and restart stutter or retune because `DiskCurrent` holds |
| `UnlockServiceProofs!BudgetAlwaysHeld` | `BudgetHeld` bounds the failures judged, not where they are counted; `LedgerInv` adds that file and object agree, that a credential request owns the camera only while unlocked, and that the count is exactly the failures judged, or none once locked |
| `TokensAlwaysSpentOnce` | `TokenInv` adds that tokens not yet issued have bought nothing, and that the slot holds the newest, unspent |
| `GrantsAreGuarded` | `GateInv` carries the gates passed at the start of a capture to its verdict and its reply; it rests on `LedgerInv` and `TokenInv`, and on the gate in force never being lowered |
| `ForgivenessAlwaysEarned` | an action property, from `TypeOK` and `GateInv`; needs `LockoutSeconds > 0`, since a lockout of no length is over at once |
| `LeaseAlwaysExclusive` | `LeaseInv` adds that a capture holds the camera and that a dead process has leased nothing |
| `CameraOpenerProofs!NeverTwoCaptures`, `EveryCaptureHasOneCloser` | only the latest thread can be at the driver or closing, its flag is set exactly when the caller has left, and a finished thread leaves a capture to a waiting or using caller only. `OneCloser` is proved, not run |
| `ImplementsHandle` | step by step: the threads change the device only while the caller does not rely on it; an abandoned thread's end is the `Reclaim` of the handle |
| `ProviderProofs!ScansAreOwned` | `FlagInv`: `m_scanning` is up exactly while a thread lives, is about to, or was never started because `SetStatus` threw (`stranded`); `SinkInv`: what the LogonUI thread is in the middle of says whether the tile is advised; `ScanInv`: who may be deciding when a credential is stored |
| `ImplementsOffer` | from these, every step of either thread is a step of `TileOffer` or a stutter |
| `ReplyTyped`, `RepliesAreFaithful` | for texts of any length over any alphabet. `Layout`: where in the JSON each field's name and value are, from what `FlattenSeq` does to one sequence more. `ReadInv`: the reader stands at one of the places that layout has, the fields before it are stored, and the text it is in is decoded up to there (`Decoded`), a pair of halves being one character (`Joined`); one lemma per action. `SizeGrows`: no escape is shorter than the UTF-8 of its character. The induction over a text's length is a first-order one: the set of lengths for which a statement holds has no least number outside it (`EveryNatural`, from the library's `NatLessThanWellFounded` and `WFMin`) |
| `DeploymentProofs!OneServerAlways`, `KillsAreJustified` | `IInv`: `Earned` (the count never exceeds the failed pings in a row), `Holder` (who is past the mutex holds it), `Standing` (a held stop has a live marker, or the iteration is before its look at it) |
| `DeploymentProofs!GateSound` | of any bundle: what passes the gate runs, if the hidden imports reached its EXEs alike; the single archive that was seen to hold a name carries it to the others |
| `ReleaseTyped`, `InstallersAreGated` | `ReleaseInv`: while the gate is open there is no stamp and what its stations have seen is so (`Gating`), a stamp stands for what was judged (`Stamped`), ISCC starts on just that (`Packing`) and packs it (`Packed`), each unless it was raced. With `GateSound`, an installer's EXEs find what they import |
| `PresenceProofs!NobodyIsSeen`, `IdleTimeExact` | the probes: once nobody is there none of them keeps a tick from counting, whatever those that fail leave open; a time below one wrap is exact wherever the two counters have wrapped |
| `TrayTyped`, `TrayStaysOrderly` | `TrayInv`: a request or its result exists for each window that polls and for it only, by the numbers windows bear; the mutex, where it can be created, has one holder; where Quit is says what it has done (`Quitting`); each check has told what its own answer warrants |
| `PresenceProofs!LocksAreEarned`, `AlwaysObeyed` | `IInv`: `Backed` (strikes and doubts have answers behind them at every step of the tick), `LastTick` (the tick in flight when a pause came is the only one), `Leaving` (a Quit that found the tick idle or waiting never reaches a lock) |
| `ToastsAreBounded` | `Ledger` counts the polls under way together with the toasts shown: toasts and pokes still to decide are at most one more than the pokes that ran, and none is to come from a poll that has seen the latch set. A finite set of pollers and its cardinality, so it cites `FiniteSetTheorems` |
| `EnrollmentProofs!AlwaysAnchored`, `AlwaysOnDisk`, `NeverRemembered` | `GalleryInv`: types, `Agreement` (at every step of a command, what memory, ring and the two files have in common), `AllSpaced` (cooldown within every copy of the ring), `Erasure` (faces cleared are in no copy); one lemma per conjunct |
| `PartsProofs!AlwaysReadable` | `CredInv`: unless there was a clash, every process at work holds the secret on disk, and what it is about to store is encrypted with it |
| `PartsProofs!CallsAreTyped`, `CallsAreSafe` | `CallInv`: the type; `WaitsBounded` (a wait ends within the budget, or at once), `IoAttended` (the kernel owns the buffers only while the call waits or drains), `PeerKnown` (after the check the other end is a trusted one). Of the numbers only `Budget, Retry > 0` and `Budget < MaxTicks` is assumed |
| `InstallationTyped`, `TasksStay`, `ReportsAreTrue`, `InstallationKept` | `SetupInv`: the place in an action is one of its steps (`StepTaken`), the scheduler believes nothing of tasks it does not have (`SchedulerKnows`), no declared task is missing once installed (`NoneMissing`), what was stopped stays stopped but for the service and a task whose stop failed unseen (`TasksStopped`), nothing holds the files Setup copies unless it is `Uninformed` (`FilesFree`), a report of success is true where it is made (`Reported`). `SetupAssumption` says that the scheduler restarts no task of the service (`tasks.psd1`: the watchdog does that); without it a stop would not last |
| `SettingsAreKept` | `ConfigInv`: of each save under way that nobody disturbed, its temporary file holds its own text (`SpareOwn`), a mixed or replaced draft came from a save that met another (`MixedMoved`), and its draft says what the user meant in every setting it does not change (`RestMeant`) |
| `JudgingIsTyped`, `AnswersAreEarned` | `JudgeInv`: the votes never exceed the reads (`SeenTyped`), a task that has been shown one picture only has a baseline of that picture (`OnePicture`), closed eyes were seen (`ShutSeen`), hence a task that passed has been shown two (`PassMoved`); the light gate is reached with a fault only by a boosted burst (`LightFaultless`) |
| `CustodyIsTyped`, `CustodyHolds` | `CustodyInv`: until a problem is met, an entry that is not as it should be is at or below a path the walk has still to go to (`Sealed` for descriptors, `Owned` for whose an entry is and what); what the service may not change was noted when it came (`Spoiling`), a problem has a reason (`Faulted`), entries are in directories (`Rooted`), nobody takes the directory itself away while it is walked (`TopThere`). When the walk is over no path is left, so nothing is not as it should be. `CustodyAssumption` says that the names form a tree, and that a file's next version is written beside it and is as secret as the file: every save appends `.tmp` to the file's own name (`with_name`, `with_suffix`), and `SECRET_PREFIXES` are prefixes (`datadir.py:61-63`) |
| `RecordsProofs!LogIsTyped`, `LogIsKept` | `AuditInv`: lines stand in the order of their attempts (`InOrderIn`), a limit is never above the roof (`Roofed`), and while nothing has failed no line is cut short (`CleanIn`), the attempts told are all from some attempt on (`Unbroken`), something stands for those dropped (`Spared`) and files are `Bounded`. `RotationMoves`: a rotation moves a file one further or not at all; from it `RotationKeepsOrder`, whatever steps fail, and `RotationDropsOldest`, for one that gets as far as it gets |
| `FramesAreTyped`, `FramesAreKept`, `TracesAreKept` | `DumpsInv`: the types, no more placed than put, and the property. `WithoutHolds` counts what a removal leaves by a bijection with the positions there were, `StaleLeavesRing` finds the dump before which there are exactly as many as exceed the ring. Both cite `FiniteSetTheorems`. `TracesAreKept` joins it with `LogIsKept` |
| `EnrollmentProofs!WizardIsTyped`, `WebcamIsLeased`, `SessionsAreWhole`, `OutcomesStay` | `WizardInv`: each answer is in the window's queue at most once and no advice behind an outcome (`QueueInv`), which also bounds the queue; what is left of the lease and the time since the last renewal make up for a whole lease, a missed renewal counting as one more interval (`LeaseInv`); a build the wizard waits for is under way and reads what was asked for (`BuildInv`); a camera thread that passed its look at `_building` or the pin before a click on Build is the one `caught` (`FrameInv`); nothing is left of a process that is gone (`GoneInv`). The lease rests on `2 * Renew < Lease` (45 s and 120 s in the code) |

`TypeCorrect` is proved for each of the modules with a run of its own, `AlwaysObeyed` and
`ScansAreOwned` from the same invariants as the theorems beside them.

**Only model-checked:** everything under fairness (`BackToAccept`, `ShutdownHappens`,
`LateCaptureClosed`, the return of `open` in `IsAHandle`, `CallsReturn`,
`VerifiedSignsIn`, `Supervised`, `Converges`, `TrayResponds`), which is out of the
prover's reach; the three counterexamples. Every safety invariant that a passing run
checks is proved.

## Not modelled

* Images: detector, embeddings, eye ratio, screen features, luma. They enter as
  what a frame may show. `enroll_qc.py`'s thresholds decide which photographs are
  kept and nothing else.
* The Win32 calls behind the monitor's probes, DPAPI, ACL calls and the PowerShell
  filters: free inputs or sets.
* COM plumbing of the provider: reference counts, field descriptors, the packing of
  the credential.
* `i18n.py`, widgets, drawing, the probes and benchmarks under `tools/`, `selfcheck.py`,
  the log set-up: no state
  whose order matters. The updater only announces (`APPLY_ENABLED` is False).

## What could follow

1. The composition of `Wizard` with `Gallery`, which today share only the commands
   `Wizard` sends and their outcomes.
2. `UnlockService` with more than one lease in a run, should its graph be reduced.
