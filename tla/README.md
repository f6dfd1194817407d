# AVream in TLA+

AVream turns an Android phone into a webcam and a microphone of a Linux desktop.
This directory holds TLA+ models of its daemon, `avreamd`, and of the window that
drives it, the TLC runs that check them and TLAPS proofs about each of them.
Paths below are relative to the root of the repository.

## 1. The system

`avreamd` is one asyncio process that serves an HTTP API on a Unix socket to
the CLI and the GTK user interface. Handlers run concurrently between awaits;
each manager serialises its operations with an `asyncio.Lock`, or tries to.

| Component | State it keeps | Operations | Talks to |
|---|---|---|---|
| `core/state_store.py` | state of video and audio, last error | transition, set error, snapshot | everyone |
| `core/process_supervisor.py` | one process per name, last exit codes | start, stop, stop_all, wait | scrcpy |
| `managers/video_manager.py`, `managers/video/` | manager lock, active source, reconnect task and its status | start, stop, reset; the task restarts a lost camera | supervisor, helper, adb, AudioManager |
| `managers/audio_manager.py`, `managers/audio/` | lock, active backend, `audio_state.json`, pw-loopback process, router task | start, stop; the task moves scrcpy's stream | pactl, helper |
| `managers/update_manager.py`, `managers/update/` | runtime record and `update-state.json`, configuration, download cache | check, install, set_config, automatic check | GitHub, apt, systemd |
| `managers/privilege_client.py`, `helper/` | none; the kernel module | v4l2 status and reload, snd_aloop load and unload | modprobe as root |
| `integrations/adb.py`, `api/routes_android.py` | adb lock | list, group, tcpip, connect, Wi-Fi setup | adb |
| `app.py` | shutdown event | start, stop | all managers |
| `ui/` (GTK window) | busy flag, lock page, selected phone, endpoint, three reads with a pending flag each | polls, scans, probes, actions | the HTTP API |
| `cli.py` | none | one request at a time | the HTTP API |

What is hard: requests, the reconnect task and the router task interleave at
every await; scrcpy, the sound server and the daemon may die at any moment;
helper calls, adb, downloads and apt fail; two state files survive a restart.

What makes each component correct:

* *Video*: one reconnect task, never a process without an owner, nothing
  overwritten by the unlocked part of the task, a lost camera resolved, every
  request answered.
* *Audio*: STOPPED means the microphone is gone and there is one microphone at a
  time, as far as the sound server lets go of modules; the state file names what
  runs, no state from which one cannot get out.
* *Update*: apt reads what was verified, one install at a time, a failed one can
  be repeated, the record survives restarts and tells the truth.
* *Supervisor and helper*: a stopped process is dead, a timed-out helper does
  not meet the next one.
* *Phones*: a command ends up on the phone it was given, a phone called ready is
  ready, polling loops end.
* *Window*: what it shows is true once all answers are in, whatever their order;
  it does not stay busy for nothing.
* *Shutdown*: nothing is launched behind it.

## 2. Modules

| Module | Models |
|---|---|
| `SubsystemState` | the states of a subsystem and `VALID_TRANSITIONS` |
| `CameraService` | abstract: a camera process and those on whose behalf it may be up |
| `MicrophoneService` | abstract: a microphone that is on, off, half set up or ending, and the calls that want it changed |
| `UpdateService` | abstract: published releases, the package installed, the version that runs, a restart that is due |
| `VideoManager` | VideoManager, VideoSessionService, VideoReconnectController; implements `CameraService` |
| `AudioManager` | AudioManager, its backends, router task, state file and the sound server; implements `MicrophoneService` |
| `UpdateManager` | UpdateManager and its services, the package and the restart; implements `UpdateService` |
| `ProcessSupervisor` | start, stop and stop_all with SIGTERM, SIGKILL and their timeouts |
| `V4l2Helper` | PrivilegeClient.call(), avream-helper for v4l2loopback, the module and its device |
| `CameraDevice` | the two composed with the operations that call them, the shutdown and the device's users |
| `AndroidDevices` | AdbAdapter, the `/android` routes, the choice of the phone, `avream start` and `avream camera start` |
| `UiWindow` | the GTK window: reads and actions in flight, their callbacks, clicks, dialogs, and the daemon as its clients see it |
| `MC*` | the instances TLC checks |
| `VideoManagerProofs`, `CameraDeviceProofs`, `AudioManagerProofs`, `UpdateManagerProofs`, `AndroidDevicesProofs`, `UiWindowProofs` | theorems about the module they are named for |

### VideoManager

One action is the code between two awaits that can suspend the task: the manager
lock, helper calls, adb, the spawn and the 0.2 s after it, the audio manager, the
end of a process, a timer. Awaits of the state store are not among them: its lock
is never held across a wait, so `asyncio.Lock` is acquired without yielding. `pc`
says where each handler (`Clients`) and each reconnect task (`Watches`) is
suspended. A start is the same code for a user and for a reconnect attempt;
`StartFailed` and `StartSucceeded` are its two ends, and include what the caller
does before it can be suspended: for a reconnect attempt the `except` branch of
`_attempt_restart` and the next round of the loop.

* `proc` is the phone of the live process, `active` what /status says.
  `ProcessExit` may happen whenever there is a process.
* A cancelled task is `dead` at once: the `CancelledError` is delivered at its
  await and no handler on its way changes state.
* `mic` abstracts the audio manager: its start and stop may succeed or not, which is
  less than `MicrophoneService` promises of a stop.
* The reconnect policy has no setter, so it is enabled with at least one attempt:
  `MaxAttempts \in 1..20`, the range of `ReconnectPolicy.normalized()`.
* `supervisor.stop()` is taken to end with the process dead, and a helper call to
  succeed or fail; `CameraDevice` looks into both.

### CameraDevice

`VideoManager` says when an operation runs; `CameraDevice` says what it does to
the process and the device. `op` is what the operation that holds the manager
lock (`Manager`) waits for; `Stopper` is the shutdown, which takes no lock. The
actions of `ProcessSupervisor` and `V4l2Helper` that belong to a caller
(`StopReturns(c)`, `CallReturns(r)`) are conjuncts of its steps, those of helpers
and of scrcpy are steps of their own.

* `leader` is what became of each process; a killed one may live on past
  kill_timeout. `sup` and `seen` say where a caller is suspended in the
  supervisor. A process exists from `Spawn` on, its entry only from `Spawned` on.
* `newPython` is chosen in `Init`: before Python 3.11 `except TimeoutError` does
  not catch asyncio's timeout, which leaves out SIGKILL (`StopRaises`) and the
  kill of a late helper (`CallTimesOut`).
* A helper (`at[h]`) is a process: each step is one inspection or one modprobe.
  `current` is the one whose call still waits; the others are late.
* The kernel refuses to unload a module whose device is open; the helper drops
  that failure, and `modprobe` of a loaded module changes nothing.

### AudioManager

pactl is run synchronously, so the loads, unloads and the cleanup are one action
with what surrounds them; the waits are those of `move_once()`, of the spawn of
pw-loopback and of the helper. The sound server, its module ids (given out again
after a restart), other programs' modules and scrcpy's stream are the
environment. `DiskFaults` lets the state file fail, `Crashes` lets the daemon die
and be restarted by systemd.

* Any pactl command may fail. A list or an unload that does is swallowed by the
  cleanup, the stop and the rollback of a start, which go on as if it had worked:
  of AVream's modules they take down whichever the sound server lets go of
  (`Unload`, `Without(gone)`). One that was told to go and stayed is `stuckSink`
  or `stuckSource`; the others are `FreshModules`.
* `ToolSets` are the sets of installed tools to consider: pactl, pw-cli and
  pw-loopback are looked up once, at the start of the daemon.

### UpdateManager

Its lock is freed before every wait, so it orders nothing but updates of the
record. An action is what runs between two waits: release API, stopping the
streams, the two downloads, apt, the interval of the automatic check. `deb[v]` is
the cached package: `good`, `bad`, `none`, or the call that truncated it last and
has not finished. A restart and a crash read the saved record back; an apt may
outlive the daemon. Scheduling the restart may fail, which `install()` only logs:
`InstallDone` then answers DONE all the same and leaves `restart` as it was. `TimeoutIsBuiltin` is Python 3.11 or later.
`progress`, `last_error` and the log are left out: no code reads them back.

### AndroidDevices

The adb lock is held for one command at a time, so handlers interleave at every
command. An action is a step of a handler: one adb command, or one look that takes
a few (`detect_device_ip()` asks for six addresses at most, the grouping of a list
for up to eight answers of each ready serial), with the code up to the next. `req[r]`
is the handler of a request: the step it is at (`at`), its locals, and the
phone its command is about (`phone`, which nothing in the code reads: it is what
`StartsAskedPhone` compares the camera with). `adb` is what `adb devices` says of
each serial; a phone may be listed with its cable, with its endpoints, or both.

* The command line chains requests: `mine` is the one it waits for. When it gives
  up after 20 s (`CliGivesUp`) the handler goes on, as aiohttp does not cancel it.
* `adb tcpip` restarts adbd: every serial of the phone goes offline, at once or
  later; phones come and go between any two commands (`Cable`, `Air`).
* The rows of `/android/devices` are functions of a listing and of the serials
  that answered the queries made after it (`Rows`, `Recommended`, `Picked`).
* An endpoint is taken to belong to one phone (`Owner`). Scans of other clients
  are left out: no state depends on their answer.

### UiWindow

A call of the window is a thread, its callback runs on the GTK thread: `at` says
which calls are in flight, and a callback (`...Done`), a timer or a click is one
step. Only what the daemon says of the camera can be out of date when its callback
runs, so `Status` and `Post` are steps of their own; the answers of other calls
are chosen by the callback (`Gets`). `Proceed` is what every step does to the
calls; it contains the in-flight and pending flags of the three reads.

* `down` is `E_DAEMON_UNREACHABLE`: no socket, or the client's 20 s are over. A
  call given up may still take effect later: that is `CameraChanges`.
* The actions are named for their callbacks: `manual` connects by the entry,
  `connect` a listed Wi-Fi phone, `setup` a USB phone, `prepare` is the setup
  before a start, `leave` and `leaveWifi` the stop before a disconnection. `reset`
  stands for every confirmed POST, the installation of an update among them.
* `unmet` and `unseen` are history variables: reads asked for and not sent since,
  and changes of the camera from elsewhere that no read has seen.

## 3. Runs

| Run | Instance | Shows |
|---|---|---|
| `video` | 2 requests, 2 tasks, 2 phones, 3 attempts | the safety properties and the refinement; every request is answered, a lost camera is resolved |
| `device` | one operation and the shutdown, 2 processes, 2 helpers, both Pythons | stops reach their process, cameras do not share the device, a launch finds it ready, everything ends |
| `audio` | 2 callers, 4 module ids, crashes and disk faults, symmetric | the file names the backend, a second microphone is only what the sound server kept, the refinement of `MicrophoneService` |
| `audio_live` | 2 callers, 2 module ids, neither | STOPPED is silent but for what the sound server kept, the stream is routed, requests are answered |
| `update` | 2 callers, one installing, 3 releases, crashes, Python 3.10 | apt reads what was verified, "up to date" is true, package and version only go forward (the refinement of `UpdateService`) |
| `update_live` | 1 caller that installs, 3 releases, Python 3.11 | calls end, scheduled restarts put their package to use, the automatic check runs again and again while it is on |
| `android` | 2 phones, 1 endpoint, a request of the window and one of the command line, 2 looks, 2 dials | the camera comes up on the phone that was asked for, every step brings its handler nearer to its answer, requests are answered |
| `window` | 2 moves, a phone with a cable or on Wi-Fi, 2 endpoints, daemon up or down at first | no poll is lost, buttons and labels end up right, a busy window waits for something |

The other runs each show one disagreement between the code and what is said of
it; `findings` in PROJECT.json quotes both sides.

| Run | Property violated |
|---|---|
| `video_mic` | a stop turns the microphone off |
| `video_retry` | a failed restart is followed by the next attempt |
| `update_overlap` | one install at a time |
| `update_stuck` | a check is accepted after a failed install |

The models contain further behaviours no property excludes, because the code
allows them; the hazards of PROJECT.json name the steps:

* a reset during the backoff of a reconnect finds no process, resets the device
  and leaves the state RUNNING with the camera about to come back;
* after `stop_all()` an operation or the reconnect task may launch a camera again;
* with the shutdown under way the `finally` of one `stop()` may drop the entry of
  a newer process;
* on Python 3.10 a stop of a process that ignores SIGTERM raises: the process
  lives, nobody knows it, the state stays STOPPING;
* a helper that outlived its call may unload the module under the next start;
* the answer of a reload says `reloaded` although `modprobe -r` was refused;
* a daemon restarted after a crash answers `already_stopped` while the modules
  of its predecessor are loaded;
* a module the sound server does not unload stays: behind a state of STOPPED, or
  beside the sink and source of the next start;
* a module id recorded before a restart of the sound server may be another
  program's when `stop()` unloads it;
* an install whose restart cannot be scheduled answers DONE and
  `restart_scheduled: true`, and the old version goes on running;
* a check begun before an install ends it in IDLE while it downloads;
* an apt that outlives its daemon leaves a package that is not used before the
  next restart, whatever the record says of it;
* after the restart into a new version the saved record still calls it available;
* a camera started during a download is stopped by the restart of an install that
  was not allowed to stop streams;
* a failed scan, or the second source of the wait for the daemon, frees the buttons
  of an action in progress, and the connection at start-up does not look at the
  busy flag: two actions of one window may overlap;
* the second source of the wait for the daemon takes the countdown it shares with
  the first to -1, and gives up by the same test;
* an update check that takes more than 20 s locks the window of a daemon that is
  well, until Retry is clicked;
* `avream start` says it started on its phone although the camera was running on
  another one (`AlreadyRunning`);
* on Python 3.10 the first elapsed interval ends the automatic check (`AutoDies`).

Bounds. Two requests are enough for one that holds a lock and one that waits
for it, with the reconnect task as third; two tasks for one that is replaced and
its replacement (a third is needed only if two old ones could live, which
`OneWatch` excludes and the proofs cover for any number); two phones to confuse
one with the other. Four module ids leave room for two microphones, one of them
stuck, or for foreign modules beside one. Of the eight sets of tools `ToolSets` names three:
pactl alone, pw-cli with pw-loopback, none. Each of the others behaves as one of
them: with pactl there is no use for the other two; without it pw-cli alone is
pw-loopback failing to spawn, and pw-loopback alone is never selected. In `device` two processes are one that is being
stopped, or survived SIGKILL, and its successor; two helpers a late one and that
of the next call. A call whose timeout finds no free helper waits no longer than
`CallTimesOut` frees one, so the bound blocks nobody for good. Three releases let one be published while
another is installed, and one be installed while the restart into another is
awaited. In `android` one request of each kind is enough for two handlers between whose
commands adbd restarts; a handler left behind by its client holds the slot of the
command line until it ends, and may meet the window's in the meantime. The twelve
looks and three dials of the code only need a bound that can be reached. In
`window` a move is a click, a failure, a time-out or something that
happens to the daemon from elsewhere; two of them meet the reads, the timer and
the connection of the start-up, which cost nothing. At most one action of each
kind is in progress, and the list has one phone. Two attempts stand for the sixty of
the countdown; a second click on the button that starts the daemon comes only
after both sources of the first are over.
The window really comes to rest, so its run does not check deadlock.

The properties that are violated are left out of the passing runs, never
weakened: `InstallsWhatWasVerified` is checked with one installing caller, as it
needs what `update_overlap` shows to fail.

## 4. Fairness

`FairSpec` states what the event loop and the timeouts justify.

* `asyncio.Lock` wakes its waiters in order: strong fairness of entering it.
* Helper and supervisor calls have timeouts, downloads and the release API too:
  weak fairness of the steps that end them. Whether they succeed is never
  assumed. `CameraDevice` models the timeouts and needs nothing of scrcpy or of
  helpers.
* Two commands have none: adb (`CommandRunner.run_async`) and apt, which waits for
  the user to answer pkexec. That they end is an assumption.
* Timers fire and ready tasks run: weak fairness of the tasks' steps. A look of
  the router whose pactl fails changes nothing and is followed by another, so
  fairness of `RouterRun` also says that not all of its looks fail.
* `systemctl restart` is carried out: weak fairness of `Restart`.
* The adb lock is granted in order and a command ends by the assumption above:
  weak fairness of the handlers of `AndroidDevices`. Its loops count, so nothing
  is assumed of the phone they wait for.
* `UiWindow` is checked for safety only and assumes no fairness.

Nothing is assumed of users, phones, other programs or crashes, nor otherwise of the
sound server: it may stop at any moment and refuse any load or unload.

## 5. Proofs

Every invariant, every action property and the three refinements of the passing runs
are theorems, for every value of the constants that satisfies the assumption of
its module (process sets disjoint, null values no members, positive bounds). Each
proof has an inductive invariant `IInv`, checked by TLC before it was proved, and
the three facts `Init => IInv`, `IInv /\ [Next]_vars => IInv'`, `IInv => Inv`,
with one step for each action.

The safety half of liveness is proved too: a measure that every step of an
operation lowers and that no other step raises. With it the leads-to properties of
the runs need no more than the fairness of section 4, that an operation with steps
left can take one. The theorems are `OperationsAdvance` (video, device),
`CallsAdvance` (audio, update), `HandlersAdvanceAlways` and `RequestsAreBounded`
(phones), `RouterWatches` and `DueUntilUsed`, described below. Only
`HandlersAdvance` is also a property of a run; the measures of the others are
defined in the proof modules.

`VideoManagerProofs`. None of the safety invariants is inductive. `OneWatch` needs
to know that the task the controller refers to is the only one not dead;
`QuietWhenStopped` that a state of STOPPED is only reached by a step that has
cancelled that task, and that an operation past its cancellation keeps it
cancelled; `NotOverwritten` that the holder of the lock is unique, that each wait
inside an operation has its state, and that the task cannot write the state at
that moment. `IInv` is the conjunction of these facts: who holds the lock, which
task is alive, what the state, the process and the source are at each wait.
`NeverReplaces` follows from it at the step `Launch`. `Refinement` is
`Spec => Camera!Spec`: every step maps to a step of `CameraService` or leaves
camera and owners alone; `NoOrphanCamera` is the abstract invariant carried over.
`ExhaustedIsErrorAlways` relates the status "exhausted" to ERROR; no run repeats it.
`OperationsAdvance`: a handler is answered after at most five of its own steps and
a restart is over after six for each attempt left (`AttemptInv` counts them).
`FirstRestartSamePhone`: the first restart after a loss asks for the phone of the
lost process and launches no other, whatever starts, stops and resets were tried
between; `PhoneInv` says that a RUNNING camera has an active source unless a restart beyond
the first attempt is under way. Later attempts may ask for no phone (the hazard
at `video_manager.py:119`).

`CameraDeviceProofs`. `CallerInv` says where the two callers are suspended in the
supervisor. `ProcessInv` says what a stop in progress knows of its process: from
Python 3.11 on, a process that is not dead is the entry, or was sent SIGKILL.
`AloneInv` follows a start that began with no helper at work: the only helper is
the one it waits for, and once that has answered "ok" nothing unmakes the device.
`Tracked`, `OneWriter`, `OwnCameraGone` and `LaunchedOnReady` follow.
`AnswersFitAlways`: whoever waits for a helper waits for one at work on its call, or
for one whose answer is there to be read; helpers of timed-out calls answer nobody.
`OperationsAdvance`: four waits at most for an operation, two for the stop of a
shutdown.

`AudioManagerProofs`. `FileNamesBackend` and `SecondMicIsStuck` are inductive with
who holds the lock and the state of each wait, with crashes, disk faults and any
pactl command failing. `SecondMicIsStuck` says that among the modules nobody has
tried to take down there is one sink and one source at most: a cleanup that fails
leaves a second microphone, and the models contain it, but nothing else does. That
STOPPED means silence but for stuck modules (`SilentUnlessStuck`) needs
`SilentInv`: router, pw-loopback and fresh modules belong to a microphone that runs or is being
started. It is proved under `~DiskFaults` and
`~Crashes`, which it needs: with either, modules outlive the state.
`Refinement` maps the state to the service's, each caller to what it waits for and
the lock to whose turn it is: every step that takes the lock begins or answers a
call, every one that releases it answers. `NeverStuck` is the abstract invariant
carried over (no operation that is over leaves STOPPING); `RunsUntilStopped` says
that a start with another backend, a failed one or a cleanup never turns off a
microphone that runs.
`CallsAdvance`: two steps at most for a call, and the lock always has a holder
that is one step from its release (`LockInv`). `RouterWatches`: while the
microphone runs with PipeWire and pactl the router task is scheduled (`RouterInv`),
and a stream on the default sink stays its business until a look whose pactl
commands succeed moves it, it ends, or the microphone stops or loses its sink. Both hold with crashes and disk faults.

`UpdateManagerProofs`. `FileAgreesAlways` (`FileAgrees`, proved only) is inductive
with the shape of a file that was never written. `InstallsVerified` assumes at most one installing caller (any
number of checks), the hypothesis that `update_overlap` shows to be needed; it
rests on `installing[p]` being true from the streams to apt. `Refinement` needs
that the release a call installs was published and is newer than the version that
runs (`TargetInv`), and that a scheduled restart is for a newer package; it holds for any number of installing callers, overlapping or
not, with crashes and with restarts that cannot be scheduled: `UpdateService` lets
an install leave no restart due. `RestartIsForNewer` and `NeverDowngrades` are the abstract
properties carried over. `CallsAdvance`: seven steps at most for a call.
`DueUntilUsed`: a restart that was scheduled is not over before a daemon runs the
package it was scheduled for, or a newer one. That every record of DONE has such a
restart is not so. `UpToDateIsTrueAlways`: what the daemon answers instead of installing
is true all the same, as it goes by the version that runs and not by the record or
the package. `VersionsAlways` puts the two, the latest release and the targets in order.

`AndroidDevicesProofs`. `HandlerInv`: at each command the serial and the endpoint
of a handler are those of `phone`. `PickIsReady` needs only the types, that each
ready serial is in a row, and that a row with one comes first.
`HandlersAdvanceAlways`: a handler never goes back to a step it is past, and its
loops count. `RequestsAreBounded` weighs each step by the adb commands it may run
(`Runs`): `7 * Looks + Dials + 3` of them at most, or eight for each serial and two for a
request that lists the phones first. It assumes finitely many serials.

`UiWindowProofs`. `ReadsInv`: a read that is wanted and not sent is pending, and
waits for one in flight. `ShownInv`: with no call in flight that may move the
camera (`CameraCalls`; an answer of those asks for the status, or hands over to
another), the window is right unless locked, and so is an answer on its way,
unless it is to be asked for again. `TickInv`: while both sources of the countdown
run there are attempts left, and the one that is left finds none below zero, so
that it ends no lower than -1, as `TypeOK` says; `Core` is the invariant without it. `Calls`, `Probe`, `Poll` say what `Proceed` does,
`BusyKept`, `LabelKept` and `ShownKept` what a step must do to keep each part.

Only model-checked: the liveness properties (temporal properties under fairness
are beyond the prover): `RequestsAnswered`, `LostCameraResolved`,
`OperationsEnd`, `StreamIsRouted`, `CallsAnswered`,
`UpdateApplied`, `AutoCheckRuns`.

## 6. Not modelled yet, and the plan

Reading order of the plan is its order of importance.

1. `VideoManager` composed with `MicrophoneService` in place of `mic`, and with the
   clients of `/audio` beside it.
2. `VideoManager` with the shutdown: its reconnect task after `stop_all()`.
3. A composition of `VideoManager` with the list of `AndroidDevices`: which phone a
   restart comes back on after a start that cleared its source.
4. The settings file of the window and the edits of its shortcuts.

Left out for good: the CLI's output and its commands of one request, HTTP
envelopes and validation, the scrcpy command line, parsing of adb and pactl
output, translations and packaging scripts; they hold no state that other parts
depend on.
