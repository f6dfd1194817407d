---------------------------- MODULE AudioManager ----------------------------
(***************************************************************************)
(* The virtual microphone: AudioManager with its lock, the PipeWire and    *)
(* snd_aloop backends, the scrcpy audio router task and the state file     *)
(* audio_state.json, which stop() reads to know what to take down.         *)
(*                                                                         *)
(* pactl runs synchronously in the event loop, so everything between two   *)
(* awaits is one step: the 0.2 s waits of move_once(), the spawn of        *)
(* pw-loopback and the helper calls for the kernel module.  The sound      *)
(* server, the modules other programs load and scrcpy's audio stream are   *)
(* the environment.  Any pactl command may fail: a list or an unload that  *)
(* does is swallowed, and the module it was to take down stays, "stuck".   *)
(***************************************************************************)
EXTENDS SubsystemState, FiniteSets

CONSTANTS
  Clients,    \* calls of start() or stop() that may be in progress at once
  ModuleIds,  \* ids the sound server gives to modules
  Nobody,     \* the lock has no holder
  ToolSets,   \* which of pactl, pw-cli and pw-loopback may be installed
  DiskFaults, \* saving the state file may raise
  Crashes     \* the daemon may die and be restarted

Tools  == {"pactl", "pw-cli", "pw-loopback"}

ASSUME AudioAssumption ==
  /\ Nobody \notin Clients /\ DiskFaults \in BOOLEAN /\ Crashes \in BOOLEAN
  /\ ToolSets \subseteq SUBSET Tools

VARIABLES
  audioState, \* state_store.audio.state
  backend,    \* _active_backend
  file,       \* audio_state.json: the backend it names and the modules
  native,     \* pw-loopback processes: the one with a handle, a stray one
  router,     \* the router task is scheduled
  lock, pc, arg,
  tools,      \* what shutil.which found: pactl, pw-cli, pw-loopback
  server,     \* the sound server runs
  modules,    \* what each module id of the sound server is
  aloop,      \* the kernel module was loaded and not unloaded
  stream      \* scrcpy's audio: "none", on the "default" sink, on the "mic"

memory == <<audioState, backend, native, router, lock, pc, arg>>
world  == <<tools, server, modules, aloop, stream>>
vars   == <<memory, file, world>>

NoFile == [backend |-> "", modules |-> {}]
FileBackends == {"", "pipewire", "pipewire_native", "pipewire_cleanup", "snd_aloop"}

SinkKinds   == {"sink", "stuckSink"}
SourceKinds == {"source", "stuckSource"}
ModuleKinds == {"free", "foreign"} \cup SinkKinds \cup SourceKinds

\* cleanup_stale_pactl_modules() recognises AVream's modules by their names.
AvreamModules == {m \in ModuleIds : modules[m] \in SinkKinds \cup SourceKinds}
SinkLoaded == \E m \in ModuleIds : modules[m] \in SinkKinds

\* The modules that no cleanup, stop or rollback has tried to take down.
FreshModules == {m \in ModuleIds : modules[m] \in {"sink", "source"}}

Stuck(kind) ==
  CASE kind \in SinkKinds -> "stuckSink" [] kind \in SourceKinds -> "stuckSource"
    [] OTHER -> kind

\* The modules once AVream's were to be taken down and only some are gone.
Without(gone) ==
  [m \in ModuleIds |-> IF m \in gone THEN "free" ELSE Stuck(modules[m])]

\* A stream on a sink that is gone falls back to the default one.
StreamWithout(gone) ==
  CASE stream # "mic" \/ (\A m \in gone : modules[m] \notin SinkKinds) -> {stream}
    [] \E m \in ModuleIds \ gone : modules[m] \in SinkKinds -> {"mic", "default"}
    [] OTHER -> {"default"}

\* unload_module() for every id of a set, then the cleanup by name; whatever
\* unload or list fails, the failure is swallowed.
Unload(ids) ==
  \E gone \in SUBSET (ids \cup AvreamModules) :
    modules' = Without(gone) /\ stream' \in StreamWithout(gone)

Init ==
  /\ audioState = STOPPED /\ backend = "none" /\ file = NoFile
  /\ native = {} /\ router = FALSE
  /\ lock = Nobody /\ pc = [c \in Clients |-> "idle"]
  /\ arg = [c \in Clients |-> "pipewire"]
  /\ tools \in ToolSets
  /\ server \in BOOLEAN
  /\ modules = [m \in ModuleIds |-> "free"]
  /\ aloop = FALSE /\ stream = "none"

-----------------------------------------------------------------------------
(* Requests: POST /audio/start, /audio/stop, and the video session.        *)

RequestStart(c, b) ==
  /\ pc[c] = "idle"
  /\ pc' = [pc EXCEPT ![c] = "startLock"]
  /\ arg' = [arg EXCEPT ![c] = b]
  /\ UNCHANGED <<audioState, backend, native, router, lock, file, world>>

RequestStop(c) ==
  /\ pc[c] = "idle"
  /\ pc' = [pc EXCEPT ![c] = "stopLock"]
  /\ UNCHANGED <<audioState, backend, native, router, lock, arg, file, world>>

\* The handler returns or raises and the lock is free.
Leave(c) ==
  /\ pc' = [pc EXCEPT ![c] = "idle"]
  /\ arg' = [arg EXCEPT ![c] = "pipewire"]
  /\ lock' = Nobody

Hold(c, at) ==
  /\ pc' = [pc EXCEPT ![c] = at]
  /\ lock' = c
  /\ UNCHANGED arg

Enter(c, from) == pc[c] = from /\ lock = Nobody

\* "pipewire" falls back to the kernel module when no sound server answers
\* pw-cli or pactl, or when both commands fail.
Selected(c) ==
  {"snd_aloop"} \cup
    (IF arg[c] = "pipewire" /\ server /\ tools \cap {"pw-cli", "pactl"} # {}
       THEN {"pipewire"} ELSE {})

StartAlreadyRunning(c) ==
  /\ Enter(c, "startLock")
  /\ audioState = RUNNING
  /\ Leave(c)
  /\ UNCHANGED <<audioState, backend, native, router, file, world>>

StartBegin(c) ==
  /\ Enter(c, "startLock")
  /\ audioState # RUNNING /\ Allowed(audioState, STARTING)
  /\ audioState' = STARTING

\* The ids of the unloads that raised nothing are noted in the file; an unload
\* that only exits with an error counts among them.
NoteCleanup(gone) ==
  LET note == [backend |-> "pipewire_cleanup", modules |-> {}]
  IN  file' \in (IF gone = {} THEN {file} ELSE {}) \cup (IF AvreamModules = {} THEN {} ELSE {note})

\* Mutant: AVream's old modules are not cleaned up before a start.
StartPactl_NoCleanup(c) ==
  /\ StartBegin(c)
  /\ "pipewire" \in Selected(c) /\ "pactl" \in tools
  /\ \E i, j \in {m \in ModuleIds : modules[m] = "free"} :
       i # j /\ modules' = [modules EXCEPT ![i] = "sink", ![j] = "source"]
  /\ Hold(c, "move")
  /\ UNCHANGED <<backend, native, router, file, tools, server, aloop, stream>>

\* A null sink and a remapped source replace what AVream left behind, or come
\* beside what the cleanup could not take down.
StartPactl(c) ==
  /\ StartBegin(c)
  /\ "pipewire" \in Selected(c) /\ "pactl" \in tools
  /\ \E gone \in SUBSET AvreamModules, i, j \in ModuleIds :
       /\ i # j /\ Without(gone)[i] = "free" /\ Without(gone)[j] = "free"
       /\ modules' = [Without(gone) EXCEPT ![i] = "sink", ![j] = "source"]
       /\ stream' \in StreamWithout(gone)
       /\ NoteCleanup(gone)
  /\ Hold(c, "move")
  /\ UNCHANGED <<backend, native, router, tools, server, aloop>>

\* A load fails and the error is raised with the state STARTING, after what
\* was loaded is rolled back; a sink the rollback could not take down stays.
\* So does the start end when the note of the cleanup cannot be saved.
StartPactlFails(c) ==
  /\ StartBegin(c)
  /\ "pipewire" \in Selected(c) /\ "pactl" \in tools
  /\ \E gone \in SUBSET AvreamModules :
       /\ stream' \in StreamWithout(gone)
       /\ \/ /\ NoteCleanup(gone)
             /\ \/ modules' = Without(gone)
                \/ \E i \in ModuleIds :
                     /\ Without(gone)[i] = "free"
                     /\ modules' = [Without(gone) EXCEPT ![i] = "stuckSink"]
          \/ /\ DiskFaults /\ AvreamModules # {}
             /\ file' \in {file, NoFile}
             /\ modules' = Without(gone)
  /\ Leave(c)
  /\ UNCHANGED <<backend, native, router, tools, server, aloop>>

StartNative(c) ==
  /\ StartBegin(c)
  /\ "pipewire" \in Selected(c) /\ "pactl" \notin tools
  /\ Hold(c, "spawn")
  /\ UNCHANGED <<backend, native, router, file, world>>

StartAloop(c) ==
  /\ StartBegin(c)
  /\ "snd_aloop" \in Selected(c)
  /\ Hold(c, "load")
  /\ UNCHANGED <<backend, native, router, file, world>>

\* The end of a start whose backend is up: the state file is written, then
\* _active_backend set, with no await in between.
Saved(c, name, ids) ==
  /\ file' = [backend |-> name, modules |-> ids]
  /\ backend' = IF name = "snd_aloop" THEN name ELSE "pipewire"
  /\ audioState' = RUNNING
  /\ Leave(c)

\* Mutant: the failure to save is swallowed.
NotSaved_Swallowed(c) ==
  /\ DiskFaults
  /\ file' \in {file, NoFile}
  /\ backend' = arg[c]
  /\ audioState' = RUNNING
  /\ Leave(c)

\* The state file cannot be written, or only in part and then reads as no
\* file: the start raises with its backend up.
NotSaved(c) ==
  /\ DiskFaults
  /\ file' \in {file, NoFile}
  /\ Leave(c)
  /\ UNCHANGED <<audioState, backend>>

\* Mutant: a failed start moves the state to ERROR, which stop() cannot leave.
StartFails_Error(c, at) ==
  /\ pc[c] = at
  /\ audioState' = ERROR
  /\ Leave(c)
  /\ UNCHANGED <<backend, native, router, file, world>>

\* Mutant: a failed start keeps the lock.
StartFails_KeepsLock(c, at) ==
  /\ pc[c] = at
  /\ pc' = [pc EXCEPT ![c] = "idle"]
  /\ arg' = [arg EXCEPT ![c] = "pipewire"]
  /\ UNCHANGED <<audioState, backend, native, router, lock, file, world>>

\* The start raises.
StartFails(c, at) ==
  /\ pc[c] = at
  /\ Leave(c)
  /\ UNCHANGED <<audioState, backend, native, router, file, world>>

\* move_once() found scrcpy's streams, or gave up after 12 looks.
Moved(c) ==
  /\ pc[c] = "move"
  /\ stream' \in IF stream = "default" /\ SinkLoaded THEN {stream, "mic"} ELSE {stream}
  /\ router' = TRUE
  /\ Saved(c, "pipewire", FreshModules) \/ NotSaved(c)
  /\ UNCHANGED <<native, tools, server, modules, aloop>>

Spawned(c) ==
  /\ pc[c] = "spawn" /\ "pw-loopback" \in tools
  /\ native' = {"owned"} \cup (IF native = {} THEN {} ELSE {"stray"})
  /\ Saved(c, "pipewire_native", {}) \/ NotSaved(c)
  /\ UNCHANGED <<router, world>>

Loaded(c) ==
  /\ pc[c] = "load"
  /\ aloop' = TRUE
  /\ Saved(c, "snd_aloop", {}) \/ NotSaved(c)
  /\ UNCHANGED <<native, router, tools, server, modules, stream>>

-----------------------------------------------------------------------------
(* stop().                                                                 *)

StopAlreadyStopped(c) ==
  /\ Enter(c, "stopLock")
  /\ audioState = STOPPED
  /\ Leave(c)
  /\ UNCHANGED <<audioState, backend, native, router, file, world>>

\* clear() swallows its failure.
Stopped(c) ==
  /\ audioState' = STOPPED
  /\ backend' = "none"
  /\ file' \in {NoFile} \cup (IF DiskFaults THEN {file} ELSE {})
  /\ Leave(c)

StopBegin(c) ==
  /\ Enter(c, "stopLock")
  /\ audioState # STOPPED /\ Allowed(audioState, STOPPING)

\* Mutant: the router task is not cancelled.
StopPipewire_KeepsRouter(c) ==
  /\ StopBegin(c)
  /\ file.backend \in {"pipewire", "pipewire_native", "pipewire_cleanup"}
  /\ Unload(file.modules)
  /\ native' = native \ {"owned"}
  /\ Stopped(c)
  /\ UNCHANGED <<router, tools, server, aloop>>

\* The file names a PipeWire backend: no await until the end.
StopPipewire(c) ==
  /\ StopBegin(c)
  /\ file.backend \in {"pipewire", "pipewire_native", "pipewire_cleanup"}
  /\ Unload(file.modules)
  /\ native' = native \ {"owned"}
  /\ router' = FALSE
  /\ Stopped(c)
  /\ UNCHANGED <<tools, server, aloop>>

\* The file names no backend: a start failed before it was written.
StopNothing(c) ==
  /\ StopBegin(c)
  /\ file.backend = ""
  /\ Stopped(c)
  /\ UNCHANGED <<native, router, world>>

StopAloop(c) ==
  /\ StopBegin(c)
  /\ file.backend = "snd_aloop"
  /\ audioState' = STOPPING
  /\ Hold(c, "unload")
  /\ UNCHANGED <<backend, native, router, file, world>>

\* Mutant: the failure of the helper call is not swallowed.
Unloaded_Raises(c) ==
  /\ pc[c] = "unload"
  /\ \/ aloop' = FALSE /\ Stopped(c)
     \/ Leave(c) /\ UNCHANGED <<audioState, backend, file, aloop>>
  /\ UNCHANGED <<native, router, tools, server, modules, stream>>

\* The helper unloads the module, or its failure is swallowed.
Unloaded(c) ==
  /\ pc[c] = "unload"
  /\ aloop' \in {FALSE, aloop}
  /\ Stopped(c)
  /\ UNCHANGED <<native, router, tools, server, modules, stream>>

-----------------------------------------------------------------------------
(* The router task, the sound server, scrcpy and the daemon's death.       *)

\* Mutant: the router task ends after one look.
RouterRun_Once ==
  /\ router
  /\ router' = FALSE
  /\ stream' = IF backend = "pipewire" /\ stream = "default" /\ SinkLoaded
                THEN "mic" ELSE stream
  /\ UNCHANGED <<audioState, backend, native, lock, pc, arg, file,
                 tools, server, modules, aloop>>

\* Every 0.8 s: return when pipewire is not the active backend, else move
\* scrcpy's stream to AVream's sink.  A look whose pactl fails changes nothing
\* and is followed by another: it is a step that stutters.
RouterRun ==
  /\ router
  /\ router' = (backend = "pipewire")
  /\ stream' = IF router' /\ stream = "default" /\ SinkLoaded THEN "mic" ELSE stream
  /\ UNCHANGED <<audioState, backend, native, lock, pc, arg, file,
                 tools, server, modules, aloop>>

ServerDown ==
  /\ server
  /\ server' = FALSE
  /\ modules' = [m \in ModuleIds |-> "free"]
  /\ stream' = "none"
  /\ native' \in {native, {}}
  /\ UNCHANGED <<audioState, backend, router, lock, pc, arg, file, tools, aloop>>

ServerUp ==
  /\ ~server
  /\ server' = TRUE
  /\ UNCHANGED <<memory, file, tools, modules, aloop, stream>>

\* Another program loads or unloads a module of its own.
Foreign(m) ==
  /\ server
  /\ \/ modules[m] = "free" /\ modules' = [modules EXCEPT ![m] = "foreign"]
     \/ modules[m] = "foreign" /\ modules' = [modules EXCEPT ![m] = "free"]
  /\ UNCHANGED <<memory, file, tools, server, aloop, stream>>

StreamChanges ==
  /\ stream' = IF stream = "none" THEN "default" ELSE "none"
  /\ server
  /\ UNCHANGED <<memory, file, tools, server, modules, aloop>>

\* systemd restarts a daemon that died; what it set up outside stays, except
\* that its child process may have been killed with it.
Crash ==
  /\ Crashes
  /\ audioState' = STOPPED /\ backend' = "none" /\ router' = FALSE
  /\ native' \in {{}, IF native = {} THEN {} ELSE {"stray"}}
  /\ lock' = Nobody
  /\ pc' = [c \in Clients |-> "idle"]
  /\ arg' = [c \in Clients |-> "pipewire"]
  /\ UNCHANGED <<file, world>>

-----------------------------------------------------------------------------

EnterStep(c) ==
  \/ StartAlreadyRunning(c) \/ StartPactl(c) \/ StartPactlFails(c)
  \/ StartNative(c) \/ StartAloop(c)
  \/ StopAlreadyStopped(c) \/ StopPipewire(c) \/ StopNothing(c) \/ StopAloop(c)

HeldStep(c) ==
  \/ Moved(c) \/ Spawned(c) \/ Loaded(c) \/ Unloaded(c)
  \/ \E at \in {"spawn", "load"} : StartFails(c, at)

Next ==
  \/ \E c \in Clients : \/ \E b \in {"pipewire", "snd_aloop"} : RequestStart(c, b)
                        \/ RequestStop(c) \/ EnterStep(c) \/ HeldStep(c)
  \/ \E m \in ModuleIds : Foreign(m)
  \/ RouterRun \/ ServerDown \/ ServerUp \/ StreamChanges \/ Crash

\* The lock wakes its waiters in order; helper calls and spawns end; the
\* router's timer fires, and not every look of the router fails.
Fairness ==
  /\ \A c \in Clients : SF_vars(EnterStep(c)) /\ WF_vars(HeldStep(c))
  /\ WF_vars(RouterRun)

Spec == Init /\ [][Next]_vars
FairSpec == Spec /\ Fairness
-----------------------------------------------------------------------------
(* Properties.                                                             *)

\* Every variable holds a value of its Python or sound server counterpart;
\* ERROR, from which stop() could not begin, is no state of the audio.
TypeOK ==
  /\ audioState \in States \ {ERROR}
  /\ backend \in {"none", "pipewire", "snd_aloop"}
  /\ file \in [backend : FileBackends, modules : SUBSET ModuleIds]
  /\ native \subseteq {"owned", "stray"} /\ router \in BOOLEAN
  /\ lock \in Clients \cup {Nobody}
  /\ pc \in [Clients -> {"idle", "startLock", "stopLock", "move", "spawn", "load", "unload"}]
  /\ arg \in [Clients -> {"pipewire", "snd_aloop"}]
  /\ tools \subseteq Tools /\ server \in BOOLEAN
  /\ modules \in [ModuleIds -> ModuleKinds]
  /\ aloop \in BOOLEAN /\ stream \in {"none", "default", "mic"}

\* stop() takes down what start() set up although it only has the file to go
\* by: while audio is RUNNING the file names the active backend.
FileNamesBackend ==
  audioState = RUNNING =>
    /\ (backend = "snd_aloop") <=> (file.backend = "snd_aloop")
    /\ (backend = "pipewire") <=> (file.backend \in {"pipewire", "pipewire_native"})

\* Failed starts, starts whose file was not saved, restarts of the daemon and
\* of the sound server never leave two virtual microphones side by side, but
\* for those a cleanup tried to take down and the sound server kept.
SecondMicIsStuck ==
  \A i, j \in FreshModules : modules[i] = modules[j] => i = j

\* While the daemon lives and can write its state file, STOPPED means that
\* the virtual microphone is gone: no pw-loopback, no router task, and no
\* module but one the sound server kept when it was told to unload it.
SilentUnlessStuck ==
  audioState = STOPPED => FreshModules = {} /\ native = {} /\ ~router

\* scrcpy's sound reaches the microphone: a stream on the default sink is
\* moved while the microphone runs and its sink exists.
StreamIsRouted ==
  (audioState = RUNNING /\ "pactl" \in tools /\ backend = "pipewire"
     /\ SinkLoaded /\ stream = "default")
  ~> (stream # "default" \/ audioState # RUNNING \/ ~SinkLoaded)

\* Every request is answered.
RequestsAnswered == \A c \in Clients : pc[c] # "idle" ~> pc[c] = "idle"

\* How the microphone service sees the state, and a caller from where it is
\* suspended.
MicOf(state) ==
  CASE state = RUNNING -> "on" [] state = STOPPED -> "off"
    [] state = STARTING -> "half" [] OTHER -> "ending"
Asks(at) ==
  CASE at = "idle" -> "none" [] at \in {"stopLock", "unload"} -> "stop" [] OTHER -> "start"

Service == INSTANCE MicrophoneService WITH
  mic <- MicOf(audioState), asked <- [c \in Clients |-> Asks(pc[c])], turn <- lock

\* With its backends, file, tasks, faults and crashes the manager implements
\* the microphone service: calls that overlap take effect one at a time, none
\* leaves a change half made, and no start takes down a microphone that runs.
ImplementsMicrophoneService == Service!Spec
=============================================================================
