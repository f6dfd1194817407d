---------------------------- MODULE VideoManager ----------------------------
(***************************************************************************)
(* The camera side of the daemon: VideoManager with its manager lock,      *)
(* VideoSessionService, VideoReconnectController and the scrcpy process    *)
(* the ProcessSupervisor keeps for it.                                     *)
(*                                                                         *)
(* Processes are the HTTP handlers (Clients) and the asyncio tasks of the  *)
(* reconnect controller (Watches).  An action is the code between two      *)
(* awaits that can suspend the task: acquiring the manager lock, a call of *)
(* the privileged helper, adb, the spawn of scrcpy and the 0.2 s check     *)
(* after it, the audio manager, the end of the process, a timer.           *)
(***************************************************************************)
EXTENDS SubsystemState, Naturals

CONSTANTS
  Clients,     \* HTTP requests that may be in progress at once
  Watches,     \* identities of reconnect tasks
  Serials,     \* adb serials of phones
  MaxAttempts, \* reconnect policy: attempts per lost camera process
  NoProc,      \* the lock has no holder, the controller has no task
  NoSerial     \* no phone

ASSUME VideoAssumption ==
  /\ Clients \cap Watches = {}
  /\ NoProc \notin Clients \cup Watches
  /\ NoSerial \notin Serials
  /\ MaxAttempts \in 1..20

VARIABLES
  videoState, \* state_store.video.state
  proc,       \* phone the live scrcpy process streams, NoSerial without one
  active,     \* session._active_source's serial, NoSerial when cleared
  mic,        \* AudioManager left the virtual microphone running
  recon,      \* reconnect._status.state
  task,       \* reconnect._task
  lock,       \* holder of VideoManager._lock
  pc,         \* where each handler or reconnect task is suspended
  arg,        \* serial the start in progress asks for
  attempt     \* reconnect attempt each watch is on

vars == <<videoState, proc, active, mic, recon, task, lock, pc, arg, attempt>>

Procs == Clients \cup Watches

ClientPcs == {"idle", "stopLock", "stopTerm", "micStop", "reload",
              "resetLock", "resetTerm", "device"}
WatchPcs  == {"dead", "new", "wait", "woken", "backoff"}
StartPcs  == {"startLock", "ensure", "select", "settle", "audio"}

ReconStates == {"idle", "exited", "waiting", "restarting", "running",
                "failed", "exhausted"}

\* A reconnect task that has neither returned nor been cancelled.
Live(w) == pc[w] # "dead"

Init ==
  /\ videoState = STOPPED
  /\ proc = NoSerial /\ active = NoSerial /\ mic = FALSE
  /\ recon = "idle" /\ task = NoProc /\ lock = NoProc
  /\ pc = [p \in Procs |-> IF p \in Clients THEN "idle" ELSE "dead"]
  /\ arg = [p \in Procs |-> NoSerial]
  /\ attempt = [w \in Watches |-> 0]

-----------------------------------------------------------------------------
(* Requests of the HTTP API.  Each handler first queues for the lock.      *)

ClientStart(c, s) ==
  /\ pc[c] = "idle"
  /\ pc' = [pc EXCEPT ![c] = "startLock"]
  /\ arg' = [arg EXCEPT ![c] = s]
  /\ UNCHANGED <<videoState, proc, active, mic, recon, task, lock, attempt>>

Request(c, where) ==
  /\ pc[c] = "idle"
  /\ pc' = [pc EXCEPT ![c] = where]
  /\ UNCHANGED <<videoState, proc, active, mic, recon, task, lock, arg, attempt>>

ClientStop(c)  == Request(c, "stopLock")
ClientReset(c) == Request(c, "resetLock")

-----------------------------------------------------------------------------
(* start(), for a user's request and for a reconnect attempt alike.        *)

\* f without what the reconnect task that is given up had in it.
Forgotten(f, v) == [p \in DOMAIN f |-> IF p = task THEN v ELSE f[p]]

\* Mutant: one attempt too many.
StartFailed_OneMore(p, s) ==
  /\ lock' = NoProc /\ pc' = [pc EXCEPT ![p] = IF p \in Clients THEN "idle" ELSE "backoff"]
  /\ videoState' = IF p \in Clients THEN s ELSE TryTransition(s, RUNNING)
  /\ attempt' = IF p \in Clients THEN attempt ELSE [attempt EXCEPT ![p] = @ + 1]
  /\ UNCHANGED <<recon, arg>>

\* Mutant: attempts are not counted.
StartFailed_Uncounted(p, s) ==
  /\ lock' = NoProc /\ pc' = [pc EXCEPT ![p] = IF p \in Clients THEN "idle" ELSE "backoff"]
  /\ videoState' = IF p \in Clients THEN s ELSE TryTransition(s, RUNNING)
  /\ UNCHANGED <<recon, arg, attempt>>

\* How a start that raises ends, the state being s: the lock is released
\* and, for a reconnect attempt, the handler of _attempt_restart runs before
\* any other task.  After the last attempt the watch reports and returns.
StartFailed(p, s) ==
  /\ lock' = NoProc
  /\ arg' = [arg EXCEPT ![p] = NoSerial]
  /\ IF p \in Clients
       THEN /\ pc' = [pc EXCEPT ![p] = "idle"]
            /\ videoState' = s
            /\ UNCHANGED <<recon, attempt>>
     ELSE IF attempt[p] < MaxAttempts
       THEN /\ pc' = [pc EXCEPT ![p] = "backoff"]
            /\ videoState' = TryTransition(s, RUNNING)
            /\ attempt' = [attempt EXCEPT ![p] = @ + 1]
            /\ recon' = "waiting"
     ELSE /\ pc' = [pc EXCEPT ![p] = "dead"]
          /\ videoState' = ERROR
          /\ recon' = "exhausted"
          /\ attempt' = [attempt EXCEPT ![p] = 0]

\* supervisor.wait(): blocks while the process lives, else returns at once.
WaitPc == IF proc # NoSerial THEN "wait" ELSE "woken"

\* Mutant: start_watch() does not cancel the task it replaces.
StartSucceeded_KeepsOld(p) ==
  /\ lock' = NoProc /\ UNCHANGED <<arg, recon, attempt>>
  /\ IF p \in Clients
       THEN \E w \in {v \in Watches \ {task} : ~Live(v)} :
              pc' = [pc EXCEPT ![p] = "idle", ![w] = "new"] /\ task' = w
       ELSE pc' = [pc EXCEPT ![p] = WaitPc] /\ UNCHANGED task

\* Mutant: the watch returns after a successful restart.
StartSucceeded_WatchOnce(p) ==
  /\ lock' = NoProc /\ UNCHANGED <<arg, recon, attempt>>
  /\ IF p \in Clients
       THEN \E w \in {v \in Watches \ {task} : ~Live(v)} :
              /\ pc' = [q \in Procs |-> CASE q = p -> "idle" [] q = w -> "new"
                                          [] q = task -> "dead" [] OTHER -> pc[q]]
              /\ task' = w
       ELSE pc' = [pc EXCEPT ![p] = "dead"] /\ UNCHANGED task

\* How a start that returns ends.  A user's start replaces the watch; a
\* reconnect attempt goes back to waiting on the process.
StartSucceeded(p) ==
  /\ lock' = NoProc
  /\ arg' = IF p \in Clients THEN [Forgotten(arg, NoSerial) EXCEPT ![p] = NoSerial]
                             ELSE [arg EXCEPT ![p] = NoSerial]
  /\ IF p \in Clients
       THEN \E w \in {v \in Watches \ {task} : ~Live(v)} :
              /\ pc' = [q \in Procs |-> CASE q = p    -> "idle"
                                          [] q = w    -> "new"
                                          [] q = task -> "dead"
                                          [] OTHER    -> pc[q]]
              /\ task' = w
              /\ attempt' = Forgotten(attempt, 0)
              /\ UNCHANGED recon
       ELSE /\ pc' = [pc EXCEPT ![p] = WaitPc]
            /\ recon' = "running"
            /\ attempt' = [attempt EXCEPT ![p] = 0]
            /\ UNCHANGED task

\* The lock is granted: configure() resets the reconnect status, then the
\* helper is asked whether the video device is ready.
StartEnter(p) ==
  /\ pc[p] = "startLock" /\ lock = NoProc
  /\ lock' = p
  /\ recon' = "idle"
  /\ pc' = [pc EXCEPT ![p] = "ensure"]
  /\ UNCHANGED <<videoState, proc, active, mic, task, arg, attempt>>

\* ensure_ready() raises.
DeviceNotReady(p) ==
  /\ pc[p] = "ensure"
  /\ StartFailed(p, videoState)
  /\ UNCHANGED <<proc, active, mic, task>>

Stale == videoState \in {RUNNING, STARTING} /\ proc = NoSerial

\* The state session.start() moves to STARTING from, once a state left by a
\* process that is gone has been reconciled.
Reconciled == IF Stale THEN STOPPED ELSE videoState

\* ensure_ready() returns and session.start() looks at the state.
DeviceReady(p) ==
  /\ pc[p] = "ensure"
  /\ IF videoState \in {RUNNING, STARTING} /\ proc # NoSerial
       THEN /\ StartSucceeded(p)
            /\ UNCHANGED <<videoState, proc, active, mic>>
     ELSE IF Allowed(Reconciled, STARTING)
       THEN /\ videoState' = STARTING
            /\ active' = IF Stale THEN NoSerial ELSE active
            /\ pc' = [pc EXCEPT ![p] = "select"]
            /\ UNCHANGED <<proc, mic, recon, task, lock, arg, attempt>>
     ELSE /\ StartFailed(p, videoState)
          /\ UNCHANGED <<proc, active, mic, task>>

\* No phone fits, adb is missing, or scrcpy cannot be spawned.
SourceUnavailable(p) ==
  /\ pc[p] = "select"
  /\ StartFailed(p, videoState)
  /\ UNCHANGED <<proc, active, mic, task>>

\* select_default_source(): the phone asked for, or any healthy one.
Selectable(p) == IF arg[p] = NoSerial THEN Serials ELSE {arg[p]}

Launch(p) ==
  /\ pc[p] = "select"
  /\ proc' \in Selectable(p)
  /\ pc' = [pc EXCEPT ![p] = "settle"]
  /\ UNCHANGED <<videoState, active, mic, recon, task, lock, arg, attempt>>

\* The process is gone 0.2 s later: set_video_error() and a 409.
ExitedAtOnce(p) ==
  /\ pc[p] = "settle" /\ proc = NoSerial
  /\ StartFailed(p, ERROR)
  /\ UNCHANGED <<proc, active, mic, task>>

\* Mutant: the phone asked for is recorded, not the one selected.
Settled_RecordsRequest(p) ==
  /\ pc[p] = "settle" /\ proc # NoSerial
  /\ videoState' = RUNNING
  /\ active' = arg[p]
  /\ pc' = [pc EXCEPT ![p] = "audio"]
  /\ UNCHANGED <<proc, mic, recon, task, lock, arg, attempt>>

Settled(p) ==
  /\ pc[p] = "settle" /\ proc # NoSerial
  /\ videoState' = RUNNING
  /\ active' = proc
  /\ pc' = [pc EXCEPT ![p] = "audio"]
  /\ UNCHANGED <<proc, mic, recon, task, lock, arg, attempt>>

\* AudioManager.start() returns or raises; either way the camera is up.
AudioStarted(p) ==
  /\ pc[p] = "audio"
  /\ mic' \in {mic, TRUE}
  /\ StartSucceeded(p)
  /\ UNCHANGED <<videoState, proc, active>>

-----------------------------------------------------------------------------
(* stop() and reset().                                                     *)

\* Mutant: cancel() forgets the task without cancelling it.
Cancelled_NotDelivered == pc

\* reconnect.cancel(): the task never runs again.
Cancelled == IF task = NoProc THEN pc ELSE [pc EXCEPT ![task] = "dead"]

CancelWatch ==
  /\ task' = NoProc
  /\ recon' = "idle"
  /\ arg' = Forgotten(arg, NoSerial)
  /\ attempt' = Forgotten(attempt, 0)

StopEnter(c) ==
  /\ pc[c] = "stopLock" /\ lock = NoProc
  /\ CancelWatch
  /\ UNCHANGED <<proc, active, mic>>

\* Nothing to stop: only the device is reloaded.
StopAlreadyStopped(c) ==
  /\ StopEnter(c)
  /\ videoState = STOPPED /\ proc = NoSerial
  /\ lock' = c
  /\ pc' = [Cancelled EXCEPT ![c] = "reload"]
  /\ UNCHANGED videoState

StopBegin(c) ==
  /\ StopEnter(c)
  /\ ~(videoState = STOPPED /\ proc = NoSerial)
  /\ Allowed(videoState, STOPPING)
  /\ lock' = c
  /\ videoState' = STOPPING
  /\ pc' = [Cancelled EXCEPT ![c] = "stopTerm"]

\* Mutant: the refused stop keeps the lock.
StopRefused_KeepsLock(c) ==
  /\ StopEnter(c)
  /\ ~(videoState = STOPPED /\ proc = NoSerial)
  /\ ~Allowed(videoState, STOPPING)
  /\ pc' = [Cancelled EXCEPT ![c] = "idle"]
  /\ lock' = c
  /\ UNCHANGED videoState

\* InvalidTransitionError: the handler answers 409 and does nothing else.
StopRefused(c) ==
  /\ StopEnter(c)
  /\ ~(videoState = STOPPED /\ proc = NoSerial)
  /\ ~Allowed(videoState, STOPPING)
  /\ pc' = [Cancelled EXCEPT ![c] = "idle"]
  /\ UNCHANGED <<videoState, lock>>

\* supervisor.stop() returns: the process is gone and forgotten.
StopTerminated(c) ==
  /\ pc[c] = "stopTerm"
  /\ proc' = NoSerial
  /\ videoState' = STOPPED
  /\ active' = NoSerial
  /\ pc' = [pc EXCEPT ![c] = "micStop"]
  /\ UNCHANGED <<mic, recon, task, lock, arg, attempt>>

\* AudioManager.stop() returns, or raises and leaves the microphone as it is.
MicStopped(c) ==
  /\ pc[c] = "micStop"
  /\ mic' \in {mic, FALSE}
  /\ pc' = [pc EXCEPT ![c] = "reload"]
  /\ UNCHANGED <<videoState, proc, active, recon, task, lock, arg, attempt>>

\* The end of an operation on the device, whether the helper succeeds or not.
Release(c, at) ==
  /\ pc[c] = at
  /\ lock' = NoProc
  /\ pc' = [pc EXCEPT ![c] = "idle"]
  /\ UNCHANGED <<videoState, proc, active, mic, recon, task, arg, attempt>>

Reloaded(c) == Release(c, "reload")

\* Mutant: reset() leaves the reconnect task alone.
ResetBegin_KeepsWatch(c) ==
  /\ pc[c] = "resetLock" /\ lock = NoProc
  /\ proc # NoSerial
  /\ lock' = c
  /\ videoState' = TryTransition(videoState, STOPPING)
  /\ pc' = [pc EXCEPT ![c] = "resetTerm"]
  /\ UNCHANGED <<proc, active, mic, recon, task, arg, attempt>>

\* reset() of a camera whose process is alive.
ResetBegin(c) ==
  /\ pc[c] = "resetLock" /\ lock = NoProc
  /\ proc # NoSerial
  /\ lock' = c
  /\ CancelWatch
  /\ videoState' = TryTransition(videoState, STOPPING)
  /\ pc' = [Cancelled EXCEPT ![c] = "resetTerm"]
  /\ UNCHANGED <<proc, active, mic>>

\* reset() without a process touches neither the state nor the watch.
ResetNoProcess(c) ==
  /\ pc[c] = "resetLock" /\ lock = NoProc
  /\ proc = NoSerial
  /\ lock' = c
  /\ pc' = [pc EXCEPT ![c] = "device"]
  /\ UNCHANGED <<videoState, proc, active, mic, recon, task, arg, attempt>>

\* Mutant: reset() does not stop the process.
ResetTerminated_KeepsProcess(c) ==
  /\ pc[c] = "resetTerm"
  /\ videoState' = TryTransition(videoState, STOPPED)
  /\ active' = NoSerial
  /\ pc' = [pc EXCEPT ![c] = "device"]
  /\ UNCHANGED <<proc, mic, recon, task, lock, arg, attempt>>

ResetTerminated(c) ==
  /\ pc[c] = "resetTerm"
  /\ proc' = NoSerial
  /\ videoState' = TryTransition(videoState, STOPPED)
  /\ active' = NoSerial
  /\ pc' = [pc EXCEPT ![c] = "device"]
  /\ UNCHANGED <<mic, recon, task, lock, arg, attempt>>

DeviceReset(c) == Release(c, "device")

-----------------------------------------------------------------------------
(* The reconnect task and the camera process.                              *)

WatchBegin(w) ==
  /\ pc[w] = "new"
  /\ pc' = [pc EXCEPT ![w] = WaitPc]
  /\ UNCHANGED <<videoState, proc, active, mic, recon, task, lock, arg, attempt>>

\* scrcpy exits by itself: cable, phone, window closed.
ProcessExit ==
  /\ proc # NoSerial
  /\ proc' = NoSerial
  /\ pc' = [p \in Procs |-> IF pc[p] = "wait" THEN "woken" ELSE pc[p]]
  /\ UNCHANGED <<videoState, active, mic, recon, task, lock, arg, attempt>>

\* wait() has returned; the first attempt begins with its backoff.
WatchExited(w) ==
  /\ pc[w] = "woken"
  /\ IF videoState = RUNNING
       THEN /\ pc' = [pc EXCEPT ![w] = "backoff"]
            /\ attempt' = [attempt EXCEPT ![w] = 1]
            /\ recon' = "waiting"
       ELSE /\ pc' = [pc EXCEPT ![w] = "dead"]
            /\ attempt' = [attempt EXCEPT ![w] = 0]
            /\ recon' = "exited"
  /\ UNCHANGED <<videoState, proc, active, mic, task, lock, arg>>

\* The backoff is over and the camera is still meant to run.  The phone to
\* ask for is read before the lock is taken.
BackoffElapsed(w) ==
  /\ pc[w] = "backoff" /\ videoState = RUNNING
  /\ videoState' = TryTransition(videoState, STARTING)
  /\ recon' = "restarting"
  /\ arg' = [arg EXCEPT ![w] = active]
  /\ pc' = [pc EXCEPT ![w] = "startLock"]
  /\ UNCHANGED <<proc, active, mic, task, lock, attempt>>

\* Mutant: giving up reports the camera as failed.
BackoffAborted_Reports(w) ==
  /\ pc[w] = "backoff" /\ videoState # RUNNING
  /\ pc' = [pc EXCEPT ![w] = "dead"]
  /\ videoState' = ERROR
  /\ UNCHANGED <<proc, active, mic, recon, task, lock, arg, attempt>>

BackoffAborted(w) ==
  /\ pc[w] = "backoff" /\ videoState # RUNNING
  /\ pc' = [pc EXCEPT ![w] = "dead"]
  /\ attempt' = [attempt EXCEPT ![w] = 0]
  /\ UNCHANGED <<videoState, proc, active, mic, recon, task, lock, arg>>

-----------------------------------------------------------------------------

Enter(p) ==
  \/ StartEnter(p)
  \/ p \in Clients /\ ( \/ StopAlreadyStopped(p) \/ StopBegin(p) \/ StopRefused(p)
                        \/ ResetBegin(p) \/ ResetNoProcess(p) )

StartStep(p) ==
  \/ DeviceNotReady(p) \/ DeviceReady(p)
  \/ SourceUnavailable(p) \/ Launch(p)
  \/ ExitedAtOnce(p) \/ Settled(p) \/ AudioStarted(p)

ClientStep(c) ==
  \/ StopTerminated(c) \/ MicStopped(c) \/ Reloaded(c)
  \/ ResetTerminated(c) \/ DeviceReset(c)

WatchStep(w) ==
  \/ WatchBegin(w) \/ WatchExited(w) \/ BackoffElapsed(w) \/ BackoffAborted(w)

Next ==
  \/ \E c \in Clients : \/ \E s \in Serials \cup {NoSerial} : ClientStart(c, s)
                        \/ ClientStop(c) \/ ClientReset(c)
                        \/ ClientStep(c)
  \/ \E p \in Procs : Enter(p) \/ StartStep(p)
  \/ \E w \in Watches : WatchStep(w)
  \/ ProcessExit

\* asyncio.Lock wakes its waiters in order, so a task that waits while the
\* lock keeps being freed gets it; helper and supervisor calls are bounded by
\* timeouts, the event loop runs every ready task.  That adb answers is an
\* assumption: its commands have no timeout.  Only the holder of the lock has
\* a start or client step, and only one watch is alive (OneWatch), so one
\* condition stands for each of them.
Fairness ==
  /\ \A c \in Clients : SF_vars(Enter(c))
  /\ SF_vars(\E w \in Watches : Enter(w))
  /\ WF_vars(\E p \in Procs : StartStep(p) \/ (p \in Clients /\ ClientStep(p)))
  /\ WF_vars(\E w \in Watches : WatchStep(w))

Spec == Init /\ [][Next]_vars
FairSpec == Spec /\ Fairness
-----------------------------------------------------------------------------
(* Properties.                                                             *)

\* Inside `async with self._lock` of VideoManager.
CriticalPcs == {"ensure", "select", "settle", "audio", "stopTerm", "micStop",
                "reload", "resetTerm", "device"}

\* Every variable holds a value of its Python counterpart.
TypeOK ==
  /\ videoState \in States
  /\ proc \in Serials \cup {NoSerial}
  /\ active \in Serials \cup {NoSerial}
  /\ mic \in BOOLEAN
  /\ recon \in ReconStates
  /\ task \in Watches \cup {NoProc}
  /\ lock \in Procs \cup {NoProc}
  /\ pc \in [Procs -> ClientPcs \cup WatchPcs \cup StartPcs]
  /\ \A c \in Clients : pc[c] \in ClientPcs \cup StartPcs
  /\ \A w \in Watches : pc[w] \in WatchPcs \cup StartPcs
  /\ arg \in [Procs -> Serials \cup {NoSerial}]
  /\ attempt \in [Watches -> 0..MaxAttempts]

\* At most one reconnect task is alive and it is the one the controller can
\* cancel: no start, failed start or stop leaves a second task behind that
\* would relaunch the camera on its own.
OneWatch == \A w \in Watches : Live(w) => task = w

\* Once no operation is in progress, a live scrcpy process is one the state
\* store calls RUNNING, and /status names the phone it streams.
NoStrayCamera ==
  proc # NoSerial /\ lock = NoProc => videoState = RUNNING /\ active = proc

\* A camera a stop or a reset brought to STOPPED has no process, no source
\* and no reconnect task that could bring it back without a new request.
QuietWhenStopped ==
  videoState = STOPPED =>
    proc = NoSerial /\ active = NoSerial /\ \A w \in Watches : ~Live(w)

\* A camera called RUNNING always has a reconnect task that will notice the
\* end of its process, however user requests and reconnect attempts
\* interleave.
WatchedWhileRunning ==
  videoState = RUNNING /\ lock = NoProc => \E w \in Watches : Live(w)

\* The transitions made after an await are never refused: on_exhausted() sets
\* ERROR without the manager lock, and no start or stop sees its own state
\* replaced while it waits for the process.
NotOverwritten ==
  \A p \in Procs : /\ pc[p] = "settle" => videoState = STARTING
                   /\ pc[p] = "stopTerm" => videoState = STOPPING
                   /\ pc[p] = "audio" => videoState = RUNNING

\* "exhausted" in /status is never shown next to a camera that is up or down
\* for another reason: the controller's status and the state store agree.
ExhaustedIsError == recon = "exhausted" => videoState = ERROR

\* A reconnect attempt never launches scrcpy while an earlier one is alive,
\* so supervisor.start() never has to kill a camera that works.
NeverReplacesLiveCamera ==
  [][\A p \in Procs : Launch(p) => proc = NoSerial]_vars

\* Every request is answered: no handler waits for the lock for ever.
RequestsAnswered ==
  \A c \in Clients : pc[c] # "idle" ~> pc[c] = "idle"

\* A camera called RUNNING whose process is gone does not stay so: it is
\* relaunched, or it is reported STOPPED, STARTING or ERROR.
LostCameraResolved ==
  (videoState = RUNNING /\ proc = NoSerial)
     ~> (videoState # RUNNING \/ proc # NoSerial)

\* On whose behalf the camera may be up, as CameraService sees it.
Owners ==
  {o \in {"user", "reconnect", "stop"} :
     CASE o = "user"      -> \E c \in Clients : pc[c] \in StartPcs \ {"startLock"}
       [] o = "reconnect" -> \E w \in Watches : Live(w)
       [] o = "stop"      -> \E c \in Clients : pc[c] \in {"stopTerm", "resetTerm"}}

Camera == INSTANCE CameraService WITH camera <- proc, owners <- Owners

\* The manager with its lock, state table and reconnect task implements the
\* camera service: whatever the interleaving, scrcpy is launched, kept and
\* given up only on behalf of a user, the reconnect task or a stop.
ImplementsCameraService == Camera!Spec

\* docs/USER_GUIDE.md: "Stopping camera also stops AVream microphone."  A
\* stop request that ends, or goes on to the device, without asking the audio
\* manager finds the microphone already off.
MicStopsWithCamera ==
  [][\A c \in Clients :
        pc[c] = "stopLock" /\ pc'[c] \in {"idle", "reload"} => ~mic]_vars

\* tests/unit/daemon/test_reconnect.py: a watch whose restarts keep failing
\* makes all max_attempts of them.  A failed restart leaves the state in
\* which the next attempt will try.
FailedRestartKeepsRetrying ==
  [][\A w \in Watches :
        pc[w] \in StartPcs /\ pc'[w] = "backoff" => videoState' = RUNNING]_vars
=============================================================================
