------------------------- MODULE AudioManagerProofs -------------------------
(***************************************************************************)
(* Proofs about AudioManager, for every number of callers and module ids,  *)
(* with disk faults and crashes wherever no assumption excludes them.      *)
(***************************************************************************)
EXTENDS AudioManager, Integers, TLAPS

\* Where a caller is suspended inside `async with self._lock`.
Held == {"move", "spawn", "load", "unload"}

\* It holds the lock there, and finds the state it left.
HolderInv ==
  \A c \in Clients :
    /\ pc[c] \in Held => lock = c
    /\ pc[c] \in {"move", "spawn", "load"} => audioState = STARTING
    /\ pc[c] = "unload" => audioState = STOPPING

\* A state of STOPPING belongs to a stop that waits for the helper.
StoppingInv == audioState = STOPPING => \E c \in Clients : pc[c] = "unload"

StateInv == HolderInv /\ StoppingInv /\ FileNamesBackend

\* The inductive invariant.
IInv == TypeOK /\ StateInv /\ SecondMicIsStuck

\* What else is inductive while the daemon lives and can write its file: the
\* router task and pw-loopback belong to a microphone that runs, the modules
\* to one that runs or is being started.
SilentInv ==
  /\ router \/ native # {} => audioState = RUNNING /\ backend = "pipewire"
  /\ native \subseteq {"owned"}
  /\ FreshModules # {} =>
       \/ audioState = RUNNING /\ backend = "pipewire"
       \/ \E c \in Clients : pc[c] = "move"
\* The lock belongs to an operation that is under way, which will release it.
LockInv == lock # Nobody => pc[lock] \in Held

\* How many of its own steps a call is from its answer.
StepsLeft(c) ==
  CASE pc[c] = "idle" -> 0 [] pc[c] \in Held -> 1 [] OTHER -> 2

\* A step of a call itself that brings its answer no nearer, or a step of
\* anyone else that puts it off.
PutsOff ==
  \E c \in Clients :
    \/ (EnterStep(c) \/ HeldStep(c)) /\ StepsLeft(c)' >= StepsLeft(c)
    \/ pc[c] # "idle" /\ StepsLeft(c)' > StepsLeft(c)

\* A PipeWire microphone set up with pactl has a router task that runs.
RouterInv ==
  /\ audioState = RUNNING /\ backend = "pipewire" /\ "pactl" \in tools => router
  /\ \A c \in Clients : pc[c] = "spawn" => "pactl" \notin tools

\* scrcpy plays to the default sink although the microphone has one for it.
Unrouted ==
  /\ audioState = RUNNING /\ "pactl" \in tools /\ backend = "pipewire"
  /\ SinkLoaded /\ stream = "default"

\* The stream stays where it is, and what should move it is gone.
GivenUp ==
  /\ Unrouted /\ ~Unrouted'
  /\ stream' = "default" /\ audioState' = RUNNING /\ SinkLoaded'
-----------------------------------------------------------------------------

\* What each transition of the table asks of the state it starts from.
LEMMA AllowedTable ==
  ASSUME NEW s \in States
  PROVE  /\ Allowed(s, STARTING) <=> s \in {STARTING, STOPPED, ERROR}
         /\ Allowed(s, STOPPING) <=> s \in {STOPPING, STARTING, RUNNING}
  BY DEF Allowed, ValidTransitions, States, STOPPED, STARTING, RUNNING, STOPPING, ERROR

\* The files a step may write have the type of the state file.
LEMMA FileType ==
  LET T == [backend : FileBackends, modules : SUBSET ModuleIds]
  IN  /\ NoFile \in T
      /\ \A n \in FileBackends, ids \in SUBSET ModuleIds : [backend |-> n, modules |-> ids] \in T
  BY DEF FileBackends, NoFile

\* The types of what the calls keep, and of what is recorded of the microphone.
CallTypes ==
  /\ lock \in Clients \cup {Nobody}
  /\ pc \in [Clients -> {"idle", "startLock", "stopLock", "move", "spawn", "load", "unload"}]
  /\ arg \in [Clients -> {"pipewire", "snd_aloop"}]
RecordTypes ==
  /\ file \in [backend : FileBackends, modules : SUBSET ModuleIds]
  /\ audioState \in States \ {ERROR}
  /\ backend \in {"none", "pipewire", "snd_aloop"}

\* A start that saved its file, or failed to, keeps the types of what it wrote.
LEMMA SavedType ==
  ASSUME TypeOK, NEW c \in Clients, NEW name \in {"pipewire", "pipewire_native", "snd_aloop"},
         NEW ids \in SUBSET ModuleIds, Saved(c, name, ids) \/ NotSaved(c)
  PROVE  RecordTypes'
  <1>1. CASE Saved(c, name, ids)
    <2>1. name \in FileBackends
      BY DEF FileBackends
    <2>2. QED
      BY <1>1, <2>1, FileType DEF Saved, States, RUNNING, ERROR, RecordTypes
  <1>2. CASE NotSaved(c)
    <2>1. file' \in {file, NoFile}
      BY <1>2 DEF NotSaved
    <2>2. QED
      BY <1>2, <2>1, FileType DEF NotSaved, TypeOK, RecordTypes
  <1>3. QED
    BY <1>1, <1>2

\* The end of a stop keeps the types of what it wrote.
LEMMA StoppedType ==
  ASSUME TypeOK, NEW c \in Clients, Stopped(c)
  PROVE  RecordTypes'
  <1>1. file' \in {NoFile, file}
    BY DEF Stopped
  <1>2. QED
    BY <1>1, FileType DEF Stopped, TypeOK, States, STOPPED, ERROR, RecordTypes

\* The lock, the suspension points and the arguments after an operation.
LEMMA LeaveType ==
  ASSUME TypeOK, NEW c \in Clients, Leave(c)
  PROVE  CallTypes'
  BY DEF TypeOK, Leave, CallTypes

\* The note a cleanup leaves.
LEMMA NoteType ==
  ASSUME TypeOK, NEW gone, NoteCleanup(gone) \/ file' \in {file, NoFile}
  PROVE  file' \in [backend : FileBackends, modules : SUBSET ModuleIds]
  <1>1. "pipewire_cleanup" \in FileBackends
    BY DEF FileBackends
  <1>2. file' \in {file, NoFile, [backend |-> "pipewire_cleanup", modules |-> {}]}
    BY DEF NoteCleanup
  <1>3. QED
    BY <1>1, <1>2, FileType DEF TypeOK

\* What is left of the modules when some were taken down: none that nobody
\* tried to take down, and no new one.
LEMMA WithoutType ==
  ASSUME TypeOK, NEW gone
  PROVE  /\ Without(gone) \in [ModuleIds -> ModuleKinds]
         /\ \A m \in ModuleIds : Without(gone)[m] \notin {"sink", "source"}
         /\ \A m \in ModuleIds :
              Without(gone)[m] \in SinkKinds => modules[m] \in SinkKinds /\ m \notin gone
  BY DEF TypeOK, Without, Stuck, ModuleKinds, SinkKinds, SourceKinds

LEMMA StreamWithoutType ==
  ASSUME TypeOK, NEW gone
  PROVE  StreamWithout(gone) \subseteq {"none", "default", "mic"}
  BY DEF TypeOK, StreamWithout

\* What the start of a PipeWire microphone makes of the modules.
LEMMA LoadEffect ==
  ASSUME NEW c \in Clients, StartPactl(c)
  PROVE  \E gone \in SUBSET ModuleIds, i, j \in ModuleIds :
           /\ i # j /\ stream' \in StreamWithout(gone) /\ NoteCleanup(gone)
           /\ modules' = [Without(gone) EXCEPT ![i] = "sink", ![j] = "source"]
  <1>1. AvreamModules \subseteq ModuleIds
    BY DEF AvreamModules
  <1>2. QED
    BY <1>1 DEF StartPactl

\* And what one that fails does.
LEMMA LoadFailsEffect ==
  ASSUME NEW c \in Clients, StartPactlFails(c)
  PROVE  \E gone \in SUBSET ModuleIds :
           /\ stream' \in StreamWithout(gone)
           /\ NoteCleanup(gone) \/ file' \in {file, NoFile}
           /\ \/ modules' = Without(gone)
              \/ \E i \in ModuleIds : modules' = [Without(gone) EXCEPT ![i] = "stuckSink"]
  <1>1. AvreamModules \subseteq ModuleIds
    BY DEF AvreamModules
  <1>2. QED
    BY <1>1 DEF StartPactlFails

\* No step takes a variable out of its type.
LEMMA TypeStep == TypeOK /\ [Next]_vars => TypeOK'
  <1> SUFFICES ASSUME TypeOK, [Next]_vars PROVE TypeOK'
    OBVIOUS
<1>1. ASSUME NEW c \in Clients, NEW b \in {"pipewire", "snd_aloop"}, RequestStart(c, b) PROVE TypeOK'
  BY <1>1 DEF RequestStart, TypeOK, world
<1>2. ASSUME NEW c \in Clients, RequestStop(c) PROVE TypeOK'
  BY <1>2 DEF RequestStop, TypeOK, world
<1>3. ASSUME NEW c \in Clients, StartAlreadyRunning(c) PROVE TypeOK'
  BY <1>3 DEF StartAlreadyRunning, Leave, TypeOK, world
<1>4. ASSUME NEW c \in Clients, StartPactl(c) PROVE TypeOK'
  <2>1. PICK gone \in SUBSET ModuleIds, i, j \in ModuleIds :
          /\ stream' \in StreamWithout(gone) /\ NoteCleanup(gone)
          /\ modules' = [Without(gone) EXCEPT ![i] = "sink", ![j] = "source"]
    BY <1>4, LoadEffect
  <2>2. modules' \in [ModuleIds -> ModuleKinds]
    BY <2>1, WithoutType DEF ModuleKinds, SinkKinds, SourceKinds
  <2>3. file' \in [backend : FileBackends, modules : SUBSET ModuleIds]
    BY <2>1, NoteType
  <2>4. stream' \in {"none", "default", "mic"}
    BY <2>1, StreamWithoutType
  <2>5. /\ audioState' = STARTING
        /\ Hold(c, "move") /\ UNCHANGED <<backend, native, router, tools, server, aloop>>
    BY <1>4 DEF StartPactl, StartBegin
  <2>6. QED
    BY <2>2, <2>3, <2>4, <2>5 DEF TypeOK, Hold, States, STARTING, ERROR
<1>5. ASSUME NEW c \in Clients, StartPactlFails(c) PROVE TypeOK'
  <2>1. PICK gone \in SUBSET ModuleIds :
          /\ stream' \in StreamWithout(gone)
          /\ NoteCleanup(gone) \/ file' \in {file, NoFile}
          /\ \/ modules' = Without(gone)
             \/ \E i \in ModuleIds : modules' = [Without(gone) EXCEPT ![i] = "stuckSink"]
    BY <1>5, LoadFailsEffect
  <2>2. modules' \in [ModuleIds -> ModuleKinds]
    BY <2>1, WithoutType DEF ModuleKinds, SinkKinds
  <2>3. file' \in [backend : FileBackends, modules : SUBSET ModuleIds]
    BY <2>1, NoteType
  <2>4. stream' \in {"none", "default", "mic"}
    BY <2>1, StreamWithoutType
  <2>5. /\ audioState' = STARTING
        /\ Leave(c) /\ UNCHANGED <<backend, native, router, tools, server, aloop>>
    BY <1>5 DEF StartPactlFails, StartBegin
  <2>6. QED
    BY <2>2, <2>3, <2>4, <2>5, LeaveType DEF TypeOK, States, STARTING, ERROR, CallTypes
<1>6. ASSUME NEW c \in Clients, StartNative(c) PROVE TypeOK'
  BY <1>6 DEF StartNative, StartBegin, Hold, TypeOK, States, STARTING, ERROR, world
<1>7. ASSUME NEW c \in Clients, StartAloop(c) PROVE TypeOK'
  BY <1>7 DEF StartAloop, StartBegin, Hold, TypeOK, States, STARTING, ERROR, world
<1>8. ASSUME NEW c \in Clients, StopAlreadyStopped(c) PROVE TypeOK'
  BY <1>8 DEF StopAlreadyStopped, Leave, TypeOK, world
<1>9. ASSUME NEW c \in Clients, StopPipewire(c) PROVE TypeOK'
  <2>1. PICK gone : modules' = Without(gone) /\ stream' \in StreamWithout(gone)
    BY <1>9 DEF StopPipewire, Unload
  <2>2. /\ modules' \in [ModuleIds -> ModuleKinds]
        /\ stream' \in {"none", "default", "mic"}
    BY <2>1, WithoutType, StreamWithoutType
  <2>3. /\ native' \subseteq {"owned", "stray"} /\ router' \in BOOLEAN
        /\ UNCHANGED <<tools, server, aloop>>
    BY <1>9 DEF StopPipewire, TypeOK
  <2>4. Leave(c) /\ Stopped(c)
    BY <1>9 DEF StopPipewire, Stopped
  <2>5. CallTypes' /\ RecordTypes'
    BY <2>4, LeaveType, StoppedType
  <2>6. QED
    BY <2>2, <2>3, <2>5 DEF TypeOK, CallTypes, RecordTypes
<1>10. ASSUME NEW c \in Clients, StopNothing(c) PROVE TypeOK'
  <2>1. Leave(c) /\ Stopped(c) /\ UNCHANGED <<native, router, world>>
    BY <1>10 DEF StopNothing, Stopped
  <2>2. CallTypes' /\ RecordTypes'
    BY <2>1, LeaveType, StoppedType
  <2>3. QED
    BY <2>1, <2>2 DEF TypeOK, world, CallTypes, RecordTypes
<1>11. ASSUME NEW c \in Clients, StopAloop(c) PROVE TypeOK'
  BY <1>11 DEF StopAloop, Hold, TypeOK, States, STOPPING, ERROR, world
<1>12. ASSUME NEW c \in Clients, Moved(c) PROVE TypeOK'
  <2>1. /\ stream' \in {"none", "default", "mic"} /\ router' \in BOOLEAN
        /\ UNCHANGED <<native, tools, server, modules, aloop>>
    BY <1>12 DEF Moved, TypeOK
  <2>2. Leave(c) /\ (Saved(c, "pipewire", FreshModules) \/ NotSaved(c))
    BY <1>12 DEF Moved, Saved, NotSaved
  <2>3. FreshModules \in SUBSET ModuleIds
    BY DEF FreshModules
  <2>4. CallTypes' /\ RecordTypes'
    BY <2>2, <2>3, LeaveType, SavedType
  <2>5. QED
    BY <2>1, <2>4 DEF TypeOK, CallTypes, RecordTypes
<1>13. ASSUME NEW c \in Clients, Spawned(c) PROVE TypeOK'
  <2>1. /\ native' \subseteq {"owned", "stray"} /\ UNCHANGED <<router, world>>
    BY <1>13 DEF Spawned
  <2>2. Leave(c) /\ (Saved(c, "pipewire_native", {}) \/ NotSaved(c))
    BY <1>13 DEF Spawned, Saved, NotSaved
  <2>3. CallTypes' /\ RecordTypes'
    BY <2>2, LeaveType, SavedType
  <2>4. QED
    BY <2>1, <2>3 DEF TypeOK, world, CallTypes, RecordTypes
<1>14. ASSUME NEW c \in Clients, Loaded(c) PROVE TypeOK'
  <2>1. /\ aloop' \in BOOLEAN
        /\ UNCHANGED <<native, router, tools, server, modules, stream>>
    BY <1>14 DEF Loaded
  <2>2. Leave(c) /\ (Saved(c, "snd_aloop", {}) \/ NotSaved(c))
    BY <1>14 DEF Loaded, Saved, NotSaved
  <2>3. CallTypes' /\ RecordTypes'
    BY <2>2, LeaveType, SavedType
  <2>4. QED
    BY <2>1, <2>3 DEF TypeOK, CallTypes, RecordTypes
<1>15. ASSUME NEW c \in Clients, Unloaded(c) PROVE TypeOK'
  <2>1. aloop' \in BOOLEAN
    BY <1>15 DEF Unloaded, TypeOK
  <2>2. /\ UNCHANGED <<native, router, tools, server, modules, stream>>
        /\ Leave(c) /\ Stopped(c)
    BY <1>15 DEF Unloaded, Stopped
  <2>3. CallTypes' /\ RecordTypes'
    BY <2>2, LeaveType, StoppedType
  <2>4. QED
    BY <2>1, <2>2, <2>3 DEF TypeOK, CallTypes, RecordTypes
<1>16. ASSUME NEW c \in Clients, NEW at \in {"spawn", "load"}, StartFails(c, at) PROVE TypeOK'
  BY <1>16 DEF StartFails, Leave, TypeOK, world
<1>17. ASSUME NEW m \in ModuleIds, Foreign(m) PROVE TypeOK'
  BY <1>17 DEF Foreign, TypeOK, ModuleKinds, memory
<1>18. ASSUME RouterRun PROVE TypeOK'
  BY <1>18 DEF RouterRun, TypeOK
<1>19. ASSUME ServerDown PROVE TypeOK'
  BY <1>19 DEF ServerDown, TypeOK, ModuleKinds
<1>20. ASSUME ServerUp PROVE TypeOK'
  BY <1>20 DEF ServerUp, TypeOK, memory
<1>21. ASSUME StreamChanges PROVE TypeOK'
  BY <1>21 DEF StreamChanges, TypeOK, memory
<1>22. ASSUME Crash PROVE TypeOK'
  BY <1>22 DEF Crash, TypeOK, States, STOPPED, ERROR, world
<1>23. CASE UNCHANGED vars
  BY <1>23 DEF TypeOK, vars, memory, world
<1>24. QED
  BY <1>1, <1>2, <1>3, <1>4, <1>5, <1>6, <1>7, <1>8, <1>9, <1>10, <1>11,
     <1>12, <1>13, <1>14, <1>15, <1>16, <1>17, <1>18, <1>19, <1>20, <1>21,
     <1>22, <1>23
     DEF Next, EnterStep, HeldStep
-----------------------------------------------------------------------------

\* A daemon just started satisfies the invariant.
LEMMA InvInit == Init => IInv
  <1> SUFFICES ASSUME Init PROVE IInv
    OBVIOUS
  <1>1. FreshModules = {}
    BY DEF Init, FreshModules
  <1>2. /\ router \in BOOLEAN /\ server \in BOOLEAN /\ aloop \in BOOLEAN
        /\ tools \subseteq Tools /\ modules \in [ModuleIds -> ModuleKinds]
    BY AudioAssumption DEF Init, ModuleKinds
  <1>3. TypeOK
    BY <1>2, AudioAssumption
       DEF Init, TypeOK, NoFile, FileBackends, States, STOPPED, STARTING, RUNNING, STOPPING, ERROR
  <1>4. QED
    BY <1>1, <1>3, AudioAssumption
       DEF Init, IInv, StateInv, Held, HolderInv, StoppingInv, FileNamesBackend,
           SecondMicIsStuck, STOPPED, STARTING, RUNNING, STOPPING

-----------------------------------------------------------------------------
(* The lock, the state and the file.                                       *)

\* An operation that ends, from the head of the queue or from the lock, leaves
\* nobody inside.
LEMMA LeaveKeeps ==
  ASSUME TypeOK, StateInv, NEW c \in Clients, Leave(c),
         lock = Nobody \/ pc[c] \in Held,
         audioState' # STOPPING, FileNamesBackend'
  PROVE  StateInv'
  <1>1. \A d \in Clients : pc'[d] \notin Held
    BY AudioAssumption DEF TypeOK, StateInv, HolderInv, Held, Leave
  <1>2. QED
    BY <1>1 DEF StateInv, HolderInv, Held, StoppingInv

\* An operation that suspends is the only one inside.
LEMMA HoldKeeps ==
  ASSUME TypeOK, StateInv, NEW c \in Clients, NEW at \in Held, lock = Nobody, Hold(c, at),
         audioState' = IF at = "unload" THEN STOPPING ELSE STARTING
  PROVE  StateInv'
  <1>1. \A d \in Clients : pc'[d] \in Held => d = c /\ pc'[d] = at
    BY AudioAssumption DEF TypeOK, StateInv, HolderInv, Held, Hold
  <1>2. lock' = c /\ pc'[c] = at
    BY DEF TypeOK, Hold
  <1>3. QED
    BY <1>1, <1>2 DEF StateInv, HolderInv, Held, StoppingInv, FileNamesBackend,
                      STARTING, RUNNING, STOPPING

\* While nobody is inside, no stop is under way.
LEMMA NotStopping ==
  ASSUME StateInv, lock = Nobody PROVE audioState # STOPPING
  BY AudioAssumption DEF StateInv, HolderInv, Held, StoppingInv

\* A start that ends is RUNNING with a file that names its backend, or is
\* still STARTING.
LEMMA SavedKeeps ==
  ASSUME TypeOK, StateInv, NEW c \in Clients, pc[c] \in {"move", "spawn", "load"},
         NEW name \in {"pipewire", "pipewire_native", "snd_aloop"},
         NEW ids \in SUBSET ModuleIds, Saved(c, name, ids) \/ NotSaved(c)
  PROVE  StateInv'
  <1>1. Leave(c) /\ pc[c] \in Held /\ audioState = STARTING
    BY DEF Saved, NotSaved, StateInv, HolderInv, Held
  <1>2. audioState' # STOPPING /\ FileNamesBackend'
    BY <1>1 DEF Saved, NotSaved, FileNamesBackend, STARTING, RUNNING, STOPPING
  <1>3. QED
    BY <1>1, <1>2, LeaveKeeps

\* No step takes the lock from its holder, leaves a stop behind or lets the
\* file and the active backend part.
LEMMA StateStep == TypeOK /\ StateInv /\ [Next]_vars => StateInv'
  <1> SUFFICES ASSUME TypeOK, StateInv, [Next]_vars PROVE StateInv'
    OBVIOUS
<1>1. ASSUME NEW c \in Clients, NEW b \in {"pipewire", "snd_aloop"}, RequestStart(c, b) PROVE StateInv'
  BY <1>1 DEF RequestStart, TypeOK, StateInv, HolderInv, Held, StoppingInv, FileNamesBackend
<1>2. ASSUME NEW c \in Clients, RequestStop(c) PROVE StateInv'
  BY <1>2 DEF RequestStop, TypeOK, StateInv, HolderInv, Held, StoppingInv, FileNamesBackend
<1>3. ASSUME NEW c \in Clients, StartAlreadyRunning(c) PROVE StateInv'
  <2>1. Leave(c) /\ lock = Nobody /\ audioState # STOPPING
    BY <1>3, NotStopping DEF StartAlreadyRunning, Enter
  <2>2. audioState' # STOPPING /\ FileNamesBackend'
    BY <1>3, <2>1 DEF StartAlreadyRunning, Enter, FileNamesBackend, StateInv, RUNNING, STOPPING, STARTING, STOPPED
  <2>3. QED
    BY <2>1, <2>2, LeaveKeeps
<1>4. ASSUME NEW c \in Clients, StartPactl(c) PROVE StateInv'
  <2>1. /\ lock = Nobody /\ "move" \in Held /\ Hold(c, "move")
        /\ audioState' = IF "move" = "unload" THEN STOPPING ELSE STARTING
    BY <1>4 DEF StartPactl, StartBegin, Enter, Held
  <2>2. QED
    BY <2>1, HoldKeeps
<1>5. ASSUME NEW c \in Clients, StartPactlFails(c) PROVE StateInv'
  <2>1. Leave(c) /\ lock = Nobody /\ audioState # STOPPING
    BY <1>5, NotStopping DEF StartPactlFails, StartBegin, Enter
  <2>2. audioState' # STOPPING /\ FileNamesBackend'
    BY <1>5, <2>1 DEF StartPactlFails, StartBegin, Enter, FileNamesBackend, StateInv, RUNNING, STOPPING, STARTING, STOPPED
  <2>3. QED
    BY <2>1, <2>2, LeaveKeeps
<1>6. ASSUME NEW c \in Clients, StartNative(c) PROVE StateInv'
  <2>1. /\ lock = Nobody /\ "spawn" \in Held /\ Hold(c, "spawn")
        /\ audioState' = IF "spawn" = "unload" THEN STOPPING ELSE STARTING
    BY <1>6 DEF StartNative, StartBegin, Enter, Held
  <2>2. QED
    BY <2>1, HoldKeeps
<1>7. ASSUME NEW c \in Clients, StartAloop(c) PROVE StateInv'
  <2>1. /\ lock = Nobody /\ "load" \in Held /\ Hold(c, "load")
        /\ audioState' = IF "load" = "unload" THEN STOPPING ELSE STARTING
    BY <1>7 DEF StartAloop, StartBegin, Enter, Held
  <2>2. QED
    BY <2>1, HoldKeeps
<1>8. ASSUME NEW c \in Clients, StopAlreadyStopped(c) PROVE StateInv'
  <2>1. Leave(c) /\ lock = Nobody /\ audioState # STOPPING
    BY <1>8, NotStopping DEF StopAlreadyStopped, Enter
  <2>2. audioState' # STOPPING /\ FileNamesBackend'
    BY <1>8, <2>1 DEF StopAlreadyStopped, Enter, FileNamesBackend, StateInv, RUNNING, STOPPING, STARTING, STOPPED
  <2>3. QED
    BY <2>1, <2>2, LeaveKeeps
<1>9. ASSUME NEW c \in Clients, StopPipewire(c) PROVE StateInv'
  <2>1. Leave(c) /\ lock = Nobody /\ audioState # STOPPING
    BY <1>9, NotStopping DEF StopPipewire, StopBegin, Stopped, Enter
  <2>2. audioState' # STOPPING /\ FileNamesBackend'
    BY <1>9, <2>1 DEF StopPipewire, StopBegin, Stopped, Enter, FileNamesBackend, StateInv, RUNNING, STOPPING, STARTING, STOPPED
  <2>3. QED
    BY <2>1, <2>2, LeaveKeeps
<1>10. ASSUME NEW c \in Clients, StopNothing(c) PROVE StateInv'
  <2>1. Leave(c) /\ lock = Nobody /\ audioState # STOPPING
    BY <1>10, NotStopping DEF StopNothing, StopBegin, Stopped, Enter
  <2>2. audioState' # STOPPING /\ FileNamesBackend'
    BY <1>10, <2>1 DEF StopNothing, StopBegin, Stopped, Enter, FileNamesBackend, StateInv, RUNNING, STOPPING, STARTING, STOPPED
  <2>3. QED
    BY <2>1, <2>2, LeaveKeeps
<1>11. ASSUME NEW c \in Clients, StopAloop(c) PROVE StateInv'
  <2>1. /\ lock = Nobody /\ "unload" \in Held /\ Hold(c, "unload")
        /\ audioState' = IF "unload" = "unload" THEN STOPPING ELSE STARTING
    BY <1>11 DEF StopAloop, StopBegin, Enter, Held
  <2>2. QED
    BY <2>1, HoldKeeps
<1>12. ASSUME NEW c \in Clients, Moved(c) PROVE StateInv'
  <2>1. pc[c] \in {"move", "spawn", "load"} /\ (Saved(c, "pipewire", FreshModules) \/ NotSaved(c))
    BY <1>12 DEF Moved
  <2>2. FreshModules \in SUBSET ModuleIds
    BY DEF FreshModules
  <2>3. QED
    BY <2>1, <2>2, SavedKeeps
<1>13. ASSUME NEW c \in Clients, Spawned(c) PROVE StateInv'
  <2>1. pc[c] \in {"move", "spawn", "load"} /\ (Saved(c, "pipewire_native", {}) \/ NotSaved(c))
    BY <1>13 DEF Spawned
  <2>2. QED
    BY <2>1, SavedKeeps
<1>14. ASSUME NEW c \in Clients, Loaded(c) PROVE StateInv'
  <2>1. pc[c] \in {"move", "spawn", "load"} /\ (Saved(c, "snd_aloop", {}) \/ NotSaved(c))
    BY <1>14 DEF Loaded
  <2>2. QED
    BY <2>1, SavedKeeps
<1>15. ASSUME NEW c \in Clients, Unloaded(c) PROVE StateInv'
  <2>1. Leave(c) /\ pc[c] \in Held /\ audioState' # STOPPING
    BY <1>15 DEF Unloaded, Stopped, Held, StateInv, HolderInv, RUNNING, STOPPING, STARTING, STOPPED
  <2>2. FileNamesBackend'
    BY <1>15 DEF Unloaded, Stopped, FileNamesBackend, StateInv, RUNNING, STOPPING, STARTING, STOPPED
  <2>3. QED
    BY <2>1, <2>2, LeaveKeeps
<1>16. ASSUME NEW c \in Clients, NEW at \in {"spawn", "load"}, StartFails(c, at) PROVE StateInv'
  <2>1. Leave(c) /\ pc[c] \in Held /\ audioState' # STOPPING
    BY <1>16 DEF StartFails, Held, StateInv, HolderInv, RUNNING, STOPPING, STARTING, STOPPED
  <2>2. FileNamesBackend'
    BY <1>16 DEF StartFails, FileNamesBackend, StateInv, RUNNING, STOPPING, STARTING, STOPPED
  <2>3. QED
    BY <2>1, <2>2, LeaveKeeps
<1>17. ASSUME NEW m \in ModuleIds, Foreign(m) PROVE StateInv'
  BY <1>17 DEF Foreign, StateInv, HolderInv, StoppingInv, FileNamesBackend, memory
<1>18. ASSUME RouterRun PROVE StateInv'
  BY <1>18 DEF RouterRun, StateInv, HolderInv, StoppingInv, FileNamesBackend, memory
<1>19. ASSUME ServerDown PROVE StateInv'
  BY <1>19 DEF ServerDown, StateInv, HolderInv, StoppingInv, FileNamesBackend, memory
<1>20. ASSUME ServerUp PROVE StateInv'
  BY <1>20 DEF ServerUp, StateInv, HolderInv, StoppingInv, FileNamesBackend, memory
<1>21. ASSUME StreamChanges PROVE StateInv'
  BY <1>21 DEF StreamChanges, StateInv, HolderInv, StoppingInv, FileNamesBackend, memory
<1>22. ASSUME Crash PROVE StateInv'
  BY <1>22 DEF Crash, StateInv, HolderInv, Held, StoppingInv, FileNamesBackend,
            STOPPED, RUNNING, STOPPING
<1>23. CASE UNCHANGED vars
  BY <1>23 DEF StateInv, HolderInv, StoppingInv, FileNamesBackend, vars, memory
<1>24. QED
  BY <1>1, <1>2, <1>3, <1>4, <1>5, <1>6, <1>7, <1>8, <1>9, <1>10, <1>11,
     <1>12, <1>13, <1>14, <1>15, <1>16, <1>17, <1>18, <1>19, <1>20, <1>21,
     <1>22, <1>23
     DEF Next, EnterStep, HeldStep
-----------------------------------------------------------------------------
(* The modules of the sound server.                                        *)

\* Of the modules that were to be taken down none is left that nobody tried
\* to take down.
LEMMA UnloadLeavesNone ==
  ASSUME TypeOK, NEW ids, Unload(ids)
  PROVE  FreshModules' = {}
  <1>1. \A m \in ModuleIds : modules'[m] \notin {"sink", "source"}
    BY WithoutType DEF Unload
  <1>2. QED
    BY <1>1 DEF FreshModules

\* Nor does a start that fails leave one.
LEMMA FailedLoadLeavesNone ==
  ASSUME TypeOK, NEW c \in Clients, StartPactlFails(c)
  PROVE  FreshModules' = {}
  <1>1. PICK gone \in SUBSET ModuleIds :
          \/ modules' = Without(gone)
          \/ \E i \in ModuleIds : modules' = [Without(gone) EXCEPT ![i] = "stuckSink"]
    BY LoadFailsEffect
  <1>2. \A m \in ModuleIds : modules'[m] \notin {"sink", "source"}
    BY <1>1, WithoutType
  <1>3. QED
    BY <1>2 DEF FreshModules

\* The modules of a successful start: one sink and one source, beside those
\* its cleanup could not take down.
LEMMA StartLoadsOne ==
  ASSUME TypeOK, NEW c \in Clients, StartPactl(c)
  PROVE  SecondMicIsStuck'
  <1>1. PICK gone \in SUBSET ModuleIds, i, j \in ModuleIds :
          i # j /\ modules' = [Without(gone) EXCEPT ![i] = "sink", ![j] = "source"]
    BY LoadEffect
  <1>2. \A m \in ModuleIds : /\ modules'[m] = "sink" => m = i
                             /\ modules'[m] = "source" => m = j
    BY <1>1, WithoutType
  <1>3. QED
    BY <1>2 DEF SecondMicIsStuck, FreshModules

\* A step that loads no module of AVream's adds no second microphone.
LEMMA FewerMics ==
  ASSUME SecondMicIsStuck, \A m \in ModuleIds : modules'[m] \in {"sink", "source"} => modules'[m] = modules[m]
  PROVE  SecondMicIsStuck'
  BY DEF SecondMicIsStuck, FreshModules

\* No step sets up a second microphone.
LEMMA SecondMicStep == TypeOK /\ SecondMicIsStuck /\ [Next]_vars => SecondMicIsStuck'
  <1> SUFFICES ASSUME TypeOK, SecondMicIsStuck, [Next]_vars PROVE SecondMicIsStuck'
    OBVIOUS
<1>1. ASSUME NEW c \in Clients, NEW b \in {"pipewire", "snd_aloop"}, RequestStart(c, b) PROVE SecondMicIsStuck'
  BY <1>1 DEF RequestStart, SecondMicIsStuck, FreshModules, world
<1>2. ASSUME NEW c \in Clients, RequestStop(c) PROVE SecondMicIsStuck'
  BY <1>2 DEF RequestStop, SecondMicIsStuck, FreshModules, world
<1>3. ASSUME NEW c \in Clients, StartAlreadyRunning(c) PROVE SecondMicIsStuck'
  BY <1>3 DEF StartAlreadyRunning, SecondMicIsStuck, FreshModules, world
<1>4. ASSUME NEW c \in Clients, StartPactl(c) PROVE SecondMicIsStuck'
  BY <1>4, StartLoadsOne
<1>5. ASSUME NEW c \in Clients, StartPactlFails(c) PROVE SecondMicIsStuck'
  BY <1>5, FailedLoadLeavesNone DEF SecondMicIsStuck
<1>6. ASSUME NEW c \in Clients, StartNative(c) PROVE SecondMicIsStuck'
  BY <1>6 DEF StartNative, SecondMicIsStuck, FreshModules, world
<1>7. ASSUME NEW c \in Clients, StartAloop(c) PROVE SecondMicIsStuck'
  BY <1>7 DEF StartAloop, SecondMicIsStuck, FreshModules, world
<1>8. ASSUME NEW c \in Clients, StopAlreadyStopped(c) PROVE SecondMicIsStuck'
  BY <1>8 DEF StopAlreadyStopped, SecondMicIsStuck, FreshModules, world
<1>9. ASSUME NEW c \in Clients, StopPipewire(c) PROVE SecondMicIsStuck'
  BY <1>9, UnloadLeavesNone DEF StopPipewire, SecondMicIsStuck
<1>10. ASSUME NEW c \in Clients, StopNothing(c) PROVE SecondMicIsStuck'
  BY <1>10 DEF StopNothing, SecondMicIsStuck, FreshModules, world
<1>11. ASSUME NEW c \in Clients, StopAloop(c) PROVE SecondMicIsStuck'
  BY <1>11 DEF StopAloop, SecondMicIsStuck, FreshModules, world
<1>12. ASSUME NEW c \in Clients, Moved(c) PROVE SecondMicIsStuck'
  BY <1>12 DEF Moved, SecondMicIsStuck, FreshModules, world
<1>13. ASSUME NEW c \in Clients, Spawned(c) PROVE SecondMicIsStuck'
  BY <1>13 DEF Spawned, SecondMicIsStuck, FreshModules, world
<1>14. ASSUME NEW c \in Clients, Loaded(c) PROVE SecondMicIsStuck'
  BY <1>14 DEF Loaded, SecondMicIsStuck, FreshModules, world
<1>15. ASSUME NEW c \in Clients, Unloaded(c) PROVE SecondMicIsStuck'
  BY <1>15 DEF Unloaded, SecondMicIsStuck, FreshModules, world
<1>16. ASSUME NEW c \in Clients, NEW at \in {"spawn", "load"}, StartFails(c, at) PROVE SecondMicIsStuck'
  BY <1>16 DEF StartFails, SecondMicIsStuck, FreshModules, world
<1>17. ASSUME NEW m \in ModuleIds, Foreign(m) PROVE SecondMicIsStuck'
  <2>1. \A n \in ModuleIds : modules'[n] \in {"sink", "source"} => modules'[n] = modules[n]
    BY <1>17 DEF Foreign, TypeOK
  <2>2. QED
    BY <2>1, FewerMics
<1>18. ASSUME RouterRun PROVE SecondMicIsStuck'
  BY <1>18 DEF RouterRun, SecondMicIsStuck, FreshModules, world
<1>19. ASSUME ServerDown PROVE SecondMicIsStuck'
  BY <1>19 DEF ServerDown, SecondMicIsStuck, FreshModules
<1>20. ASSUME ServerUp PROVE SecondMicIsStuck'
  BY <1>20 DEF ServerUp, SecondMicIsStuck, FreshModules, world
<1>21. ASSUME StreamChanges PROVE SecondMicIsStuck'
  BY <1>21 DEF StreamChanges, SecondMicIsStuck, FreshModules, world
<1>22. ASSUME Crash PROVE SecondMicIsStuck'
  BY <1>22 DEF Crash, SecondMicIsStuck, FreshModules, world
<1>23. CASE UNCHANGED vars
  BY <1>23 DEF SecondMicIsStuck, FreshModules, vars, world
<1>24. QED
  BY <1>1, <1>2, <1>3, <1>4, <1>5, <1>6, <1>7, <1>8, <1>9, <1>10, <1>11,
     <1>12, <1>13, <1>14, <1>15, <1>16, <1>17, <1>18, <1>19, <1>20, <1>21,
     <1>22, <1>23
     DEF Next, EnterStep, HeldStep
-----------------------------------------------------------------------------
(* While the daemon lives and can write its file.                          *)

\* A start begins with nothing set up, and nobody else at the sound server.
LEMMA NothingYet ==
  ASSUME TypeOK, StateInv, SilentInv, lock = Nobody, audioState # RUNNING
  PROVE  ~router /\ native = {} /\ FreshModules = {}
  BY AudioAssumption DEF StateInv, HolderInv, Held, SilentInv

\* A start that spawns pw-loopback or loads the kernel module has nothing at
\* the sound server.
LEMMA NothingElse ==
  ASSUME TypeOK, StateInv, SilentInv, NEW c \in Clients, pc[c] \in {"spawn", "load", "unload"}
  PROVE  ~router /\ native = {} /\ FreshModules = {}
  <1>1. audioState # RUNNING
    BY DEF StateInv, HolderInv, STARTING, STOPPING, RUNNING
  <1>2. \A d \in Clients : pc[d] # "move"
    BY DEF StateInv, HolderInv, Held
  <1>3. QED
    BY <1>1, <1>2 DEF SilentInv

\* No step leaves a part of the microphone without the state it belongs to.
LEMMA SilentStep ==
  ASSUME ~DiskFaults, ~Crashes
  PROVE  TypeOK /\ StateInv /\ SilentInv /\ [Next]_vars => SilentInv'
  <1> SUFFICES ASSUME TypeOK, StateInv, SilentInv, [Next]_vars PROVE SilentInv'
    OBVIOUS
<1>1. ASSUME NEW c \in Clients, NEW b \in {"pipewire", "snd_aloop"}, RequestStart(c, b) PROVE SilentInv'
  <2>1. FreshModules' = FreshModules
    BY <1>1 DEF RequestStart, FreshModules, world
  <2>2. QED
    BY <1>1, <2>1 DEF RequestStart, SilentInv, TypeOK
<1>2. ASSUME NEW c \in Clients, RequestStop(c) PROVE SilentInv'
  <2>1. FreshModules' = FreshModules
    BY <1>2 DEF RequestStop, FreshModules, world
  <2>2. QED
    BY <1>2, <2>1 DEF RequestStop, SilentInv, TypeOK
<1>3. ASSUME NEW c \in Clients, StartAlreadyRunning(c) PROVE SilentInv'
  <2>1. /\ FreshModules' = FreshModules /\ UNCHANGED <<audioState, backend, native, router>>
        /\ pc' = [pc EXCEPT ![c] = "idle"] /\ pc[c] # "move"
    BY <1>3 DEF StartAlreadyRunning, Enter, Leave, FreshModules, world
  <2>2. QED
    BY <2>1 DEF SilentInv, TypeOK
<1>4. ASSUME NEW c \in Clients, StartPactl(c) PROVE SilentInv'
  <2>1. ~router /\ native = {}
    BY <1>4, NothingYet DEF StartPactl, StartBegin, Enter
  <2>2. ~router' /\ native' = {} /\ pc'[c] = "move"
    BY <1>4, <2>1 DEF StartPactl, Hold, TypeOK
  <2>3. QED
    BY <2>2 DEF SilentInv
<1>5. ASSUME NEW c \in Clients, StartPactlFails(c) PROVE SilentInv'
  <2>1. ~router /\ native = {}
    BY <1>5, NothingYet DEF StartPactlFails, StartBegin, Enter
  <2>2. ~router' /\ native' = {} /\ FreshModules' = {}
    BY <1>5, <2>1, FailedLoadLeavesNone DEF StartPactlFails
  <2>3. QED
    BY <2>2 DEF SilentInv
<1>6. ASSUME NEW c \in Clients, StartNative(c) PROVE SilentInv'
  <2>1. ~router /\ native = {} /\ FreshModules = {}
    BY <1>6, NothingYet DEF StartNative, StartBegin, Enter
  <2>2. QED
    BY <1>6, <2>1 DEF StartNative, SilentInv, FreshModules, world
<1>7. ASSUME NEW c \in Clients, StartAloop(c) PROVE SilentInv'
  <2>1. ~router /\ native = {} /\ FreshModules = {}
    BY <1>7, NothingYet DEF StartAloop, StartBegin, Enter
  <2>2. QED
    BY <1>7, <2>1 DEF StartAloop, SilentInv, FreshModules, world
<1>8. ASSUME NEW c \in Clients, StopAlreadyStopped(c) PROVE SilentInv'
  <2>1. /\ FreshModules' = FreshModules /\ UNCHANGED <<audioState, backend, native, router>>
        /\ pc' = [pc EXCEPT ![c] = "idle"] /\ pc[c] # "move"
    BY <1>8 DEF StopAlreadyStopped, Enter, Leave, FreshModules, world
  <2>2. QED
    BY <2>1 DEF SilentInv, TypeOK
<1>9. ASSUME NEW c \in Clients, StopPipewire(c) PROVE SilentInv'
  <2>1. ~router' /\ native' = {} /\ FreshModules' = {}
    BY <1>9, UnloadLeavesNone DEF StopPipewire, SilentInv
  <2>2. QED
    BY <2>1 DEF SilentInv
<1>10. ASSUME NEW c \in Clients, StopNothing(c) PROVE SilentInv'
  <2>1. /\ lock = Nobody /\ file.backend = ""
        /\ UNCHANGED <<native, router, modules>>
    BY <1>10 DEF StopNothing, StopBegin, Enter, world
  <2>2. ~(audioState = RUNNING /\ backend = "pipewire")
    BY <2>1 DEF StateInv, FileNamesBackend
  <2>3. ~router /\ native = {} /\ FreshModules = {}
    BY <2>1, <2>2, AudioAssumption DEF StateInv, HolderInv, Held, SilentInv
  <2>4. QED
    BY <2>1, <2>3 DEF SilentInv, FreshModules
<1>11. ASSUME NEW c \in Clients, StopAloop(c) PROVE SilentInv'
  <2>1. /\ lock = Nobody /\ file.backend = "snd_aloop"
        /\ UNCHANGED <<native, router, modules>>
    BY <1>11 DEF StopAloop, StopBegin, Enter, world
  <2>2. ~(audioState = RUNNING /\ backend = "pipewire")
    BY <2>1 DEF StateInv, FileNamesBackend
  <2>3. ~router /\ native = {} /\ FreshModules = {}
    BY <2>1, <2>2, AudioAssumption DEF StateInv, HolderInv, Held, SilentInv
  <2>4. QED
    BY <2>1, <2>3 DEF SilentInv, FreshModules
<1>12. ASSUME NEW c \in Clients, Moved(c) PROVE SilentInv'
  <2>1. Saved(c, "pipewire", FreshModules) /\ native' = native
    BY <1>12 DEF Moved, NotSaved
  <2>2. audioState' = RUNNING /\ backend' = "pipewire"
    BY <2>1 DEF Saved
  <2>3. QED
    BY <2>1, <2>2 DEF SilentInv
<1>13. ASSUME NEW c \in Clients, Spawned(c) PROVE SilentInv'
  <2>1. Saved(c, "pipewire_native", {}) /\ native' \subseteq {"owned"}
    BY <1>13, NothingElse DEF Spawned, NotSaved
  <2>2. audioState' = RUNNING /\ backend' = "pipewire"
    BY <2>1 DEF Saved
  <2>3. QED
    BY <2>1, <2>2 DEF SilentInv
<1>14. ASSUME NEW c \in Clients, Loaded(c) PROVE SilentInv'
  <2>1. ~router /\ native = {} /\ FreshModules = {}
    BY <1>14, NothingElse DEF Loaded
  <2>2. QED
    BY <1>14, <2>1 DEF Loaded, SilentInv, FreshModules
<1>15. ASSUME NEW c \in Clients, Unloaded(c) PROVE SilentInv'
  <2>1. ~router /\ native = {} /\ FreshModules = {}
    BY <1>15, NothingElse DEF Unloaded
  <2>2. QED
    BY <1>15, <2>1 DEF Unloaded, SilentInv, FreshModules
<1>16. ASSUME NEW c \in Clients, NEW at \in {"spawn", "load"}, StartFails(c, at) PROVE SilentInv'
  <2>1. ~router /\ native = {} /\ FreshModules = {}
    BY <1>16, NothingElse DEF StartFails
  <2>2. QED
    BY <1>16, <2>1 DEF StartFails, SilentInv, FreshModules, world
<1>17. ASSUME NEW m \in ModuleIds, Foreign(m) PROVE SilentInv'
  <2>1. FreshModules' = FreshModules
    BY <1>17 DEF Foreign, FreshModules, TypeOK
  <2>2. QED
    BY <1>17, <2>1 DEF Foreign, SilentInv, memory
<1>18. ASSUME RouterRun PROVE SilentInv'
  <2>1. FreshModules' = FreshModules
    BY <1>18 DEF RouterRun, FreshModules
  <2>2. QED
    BY <1>18, <2>1 DEF RouterRun, SilentInv
<1>19. ASSUME ServerDown PROVE SilentInv'
  <2>1. FreshModules' = {}
    BY <1>19 DEF ServerDown, FreshModules
  <2>2. QED
    BY <1>19, <2>1 DEF ServerDown, SilentInv
<1>20. ASSUME ServerUp PROVE SilentInv'
  <2>1. FreshModules' = FreshModules
    BY <1>20 DEF ServerUp, FreshModules
  <2>2. QED
    BY <1>20, <2>1 DEF ServerUp, SilentInv, memory
<1>21. ASSUME StreamChanges PROVE SilentInv'
  <2>1. FreshModules' = FreshModules
    BY <1>21 DEF StreamChanges, FreshModules
  <2>2. QED
    BY <1>21, <2>1 DEF StreamChanges, SilentInv, memory
<1>22. ASSUME Crash PROVE SilentInv'
  BY <1>22 DEF Crash
<1>23. CASE UNCHANGED vars
  <2>1. FreshModules' = FreshModules
    BY <1>23 DEF FreshModules, vars, world
  <2>2. QED
    BY <1>23, <2>1 DEF SilentInv, vars, memory
<1>24. QED
  BY <1>1, <1>2, <1>3, <1>4, <1>5, <1>6, <1>7, <1>8, <1>9, <1>10, <1>11,
     <1>12, <1>13, <1>14, <1>15, <1>16, <1>17, <1>18, <1>19, <1>20, <1>21,
     <1>22, <1>23
     DEF Next, EnterStep, HeldStep
-----------------------------------------------------------------------------
(* The calls and the lock.                                                 *)

\* A call that gets the lock keeps it only where it is suspended.
LEMMA EnterEffect ==
  ASSUME NEW c \in Clients, EnterStep(c)
  PROVE  /\ pc[c] \in {"startLock", "stopLock"} /\ lock = Nobody
         /\ Leave(c) \/ \E at \in Held : Hold(c, at)
  <1>1. CASE \/ StartAlreadyRunning(c) \/ StartPactlFails(c) \/ StopAlreadyStopped(c)
            \/ StopPipewire(c) \/ StopNothing(c)
    BY <1>1 DEF StartAlreadyRunning, StartPactlFails, StartBegin, StopAlreadyStopped,
                StopPipewire, StopNothing, StopBegin, Stopped, Enter
  <1>2. CASE StartPactl(c) \/ StartNative(c) \/ StartAloop(c) \/ StopAloop(c)
    BY <1>2 DEF StartPactl, StartNative, StartAloop, StartBegin, StopAloop, StopBegin,
                Enter, Held
  <1>3. QED
    BY <1>1, <1>2 DEF EnterStep

\* Whatever ends an operation releases the lock.
LEMMA HeldEffect ==
  ASSUME NEW c \in Clients, HeldStep(c)
  PROVE  pc[c] \in Held /\ Leave(c)
  <1>1. CASE Moved(c) \/ Spawned(c) \/ Loaded(c) \/ Unloaded(c)
    BY <1>1 DEF Moved, Spawned, Loaded, Unloaded, Saved, NotSaved, Stopped, Held
  <1>2. CASE \E at \in {"spawn", "load"} : StartFails(c, at)
    BY <1>2 DEF StartFails, Held
  <1>3. QED
    BY <1>1, <1>2 DEF HeldStep

\* A step of a call moves that call, and so is no step of another one.
LEMMA OwnStep ==
  ASSUME TypeOK, NEW c \in Clients, EnterStep(c) \/ HeldStep(c)
  PROVE  pc[c] # "idle" /\ pc'[c] # pc[c]
  <1>1. CASE EnterStep(c)
    BY <1>1, EnterEffect DEF TypeOK, Leave, Hold, Held
  <1>2. CASE HeldStep(c)
    BY <1>2, HeldEffect DEF TypeOK, Leave, Held
  <1>3. QED
    BY <1>1, <1>2

\* The router, the sound server, the other programs and scrcpy leave the calls
\* alone.
LEMMA OthersEffect ==
  ASSUME \/ \E m \in ModuleIds : Foreign(m)
         \/ RouterRun \/ ServerDown \/ ServerUp \/ StreamChanges \/ UNCHANGED vars
  PROVE  UNCHANGED <<pc, lock>>
  <1>1. CASE RouterRun \/ ServerDown
    BY <1>1 DEF RouterRun, ServerDown
  <1>2. CASE \/ \E m \in ModuleIds : Foreign(m)
            \/ ServerUp \/ StreamChanges \/ UNCHANGED vars
    BY <1>2 DEF Foreign, ServerUp, StreamChanges, vars, memory
  <1>3. QED
    BY <1>1, <1>2

\* No step leaves the lock with a call that is over, and none puts a call off.
LEMMA CallsStep ==
  TypeOK /\ LockInv /\ [Next]_vars => LockInv' /\ ~PutsOff
  <1> SUFFICES ASSUME TypeOK, LockInv, [Next]_vars PROVE LockInv' /\ ~PutsOff
    OBVIOUS
  <1> USE DEF Held
  <1>1. ASSUME NEW c \in Clients, EnterStep(c) PROVE LockInv' /\ ~PutsOff
    <2>1. /\ pc[c] \in {"startLock", "stopLock"} /\ lock = Nobody
          /\ Leave(c) \/ \E at \in Held : Hold(c, at)
      BY <1>1, EnterEffect
    <2>2. /\ pc'[c] \in Held \cup {"idle"}
          /\ \A d \in Clients \ {c} : pc'[d] = pc[d]
          /\ lock' = Nobody \/ (lock' = c /\ pc'[c] \in Held)
      BY <2>1 DEF TypeOK, Leave, Hold
    <2>3. \A d \in Clients : EnterStep(d) \/ HeldStep(d) => d = c
      BY <2>2, OwnStep
    <2>4. QED
      BY <2>1, <2>2, <2>3 DEF LockInv, PutsOff, StepsLeft
  <1>2. ASSUME NEW c \in Clients, HeldStep(c) PROVE LockInv' /\ ~PutsOff
    <2>1. pc[c] \in Held /\ Leave(c)
      BY <1>2, HeldEffect
    <2>2. /\ pc'[c] = "idle" /\ lock' = Nobody
          /\ \A d \in Clients \ {c} : pc'[d] = pc[d]
      BY <2>1 DEF TypeOK, Leave
    <2>3. \A d \in Clients : EnterStep(d) \/ HeldStep(d) => d = c
      BY <2>2, OwnStep
    <2>4. QED
      BY <2>1, <2>2, <2>3 DEF LockInv, PutsOff, StepsLeft
  <1>3. ASSUME NEW c \in Clients,
               RequestStop(c) \/ \E b \in {"pipewire", "snd_aloop"} : RequestStart(c, b)
        PROVE  LockInv' /\ ~PutsOff
    <2>1. /\ pc[c] = "idle" /\ lock' = lock
          /\ pc'[c] \in {"startLock", "stopLock"}
          /\ \A d \in Clients \ {c} : pc'[d] = pc[d]
      BY <1>3 DEF RequestStart, RequestStop, TypeOK
    <2>2. \A d \in Clients : ~EnterStep(d) /\ ~HeldStep(d)
      BY <2>1, OwnStep
    <2>3. QED
      BY <2>1, <2>2 DEF LockInv, PutsOff, StepsLeft, TypeOK
  <1>4. ASSUME UNCHANGED <<pc, lock>> PROVE LockInv' /\ ~PutsOff
    <2>1. \A d \in Clients : ~EnterStep(d) /\ ~HeldStep(d)
      BY <1>4, OwnStep
    <2>2. QED
      BY <1>4, <2>1 DEF LockInv, PutsOff, StepsLeft
  <1>5. ASSUME Crash PROVE LockInv' /\ ~PutsOff
    <2>1. lock' = Nobody /\ \A d \in Clients : pc'[d] = "idle"
      BY <1>5 DEF Crash
    <2>2. \A d \in Clients : EnterStep(d) \/ HeldStep(d) => pc[d] # "idle"
      BY OwnStep
    <2>3. QED
      BY <2>1, <2>2 DEF LockInv, PutsOff, StepsLeft
  <1>6. QED
    BY <1>1, <1>2, <1>3, <1>4, <1>5, OthersEffect DEF Next
-----------------------------------------------------------------------------
(* The router task.                                                        *)

\* A microphone that runs with PipeWire and pactl has its router task, and no
\* step makes the daemon forget a stream that plays past it.
LEMMA RouterStep ==
  TypeOK /\ StateInv /\ RouterInv /\ [Next]_vars => RouterInv' /\ ~GivenUp
  <1> SUFFICES ASSUME TypeOK, StateInv, RouterInv, [Next]_vars PROVE RouterInv' /\ ~GivenUp
    OBVIOUS
  <1> USE DEF RouterInv, GivenUp, Unrouted
  <1>1. ASSUME NEW c \in Clients,
               RequestStop(c) \/ \E b \in {"pipewire", "snd_aloop"} : RequestStart(c, b)
        PROVE  RouterInv' /\ ~GivenUp
    BY <1>1 DEF RequestStart, RequestStop, TypeOK, world
  <1>2. ASSUME NEW c \in Clients,
               StartAlreadyRunning(c) \/ StopAlreadyStopped(c)
                 \/ \E at \in {"spawn", "load"} : StartFails(c, at)
        PROVE  RouterInv' /\ ~GivenUp
    BY <1>2 DEF StartAlreadyRunning, StopAlreadyStopped, StartFails, Leave, TypeOK, world
  <1>3. ASSUME NEW c \in Clients, StartPactl(c) \/ StartPactlFails(c) \/ StartAloop(c)
        PROVE  RouterInv' /\ ~GivenUp
    BY <1>3 DEF StartPactl, StartPactlFails, StartAloop, StartBegin, Hold, Leave, TypeOK,
                STARTING, RUNNING, world
  <1>4. ASSUME NEW c \in Clients, StartNative(c)
        PROVE  RouterInv' /\ ~GivenUp
    BY <1>4 DEF StartNative, StartBegin, Hold, TypeOK, STARTING, RUNNING, world
  <1>5. ASSUME NEW c \in Clients,
               StopPipewire(c) \/ StopNothing(c) \/ StopAloop(c) \/ Unloaded(c)
        PROVE  RouterInv' /\ ~GivenUp
    <2>1. /\ audioState' # RUNNING /\ tools' = tools
          /\ Leave(c) \/ Hold(c, "unload")
      BY <1>5 DEF StopPipewire, StopNothing, StopAloop, Unloaded, Stopped,
                  STOPPED, STOPPING, RUNNING, world
    <2>2. QED
      BY <2>1 DEF Leave, Hold, TypeOK
  <1>6. ASSUME NEW c \in Clients, Moved(c) \/ Spawned(c) \/ Loaded(c)
        PROVE  RouterInv' /\ ~GivenUp
    <2>1. /\ audioState # RUNNING /\ tools' = tools /\ Leave(c)
      BY <1>6 DEF Moved, Spawned, Loaded, Saved, NotSaved, StateInv, HolderInv,
                  STARTING, RUNNING, world
    <2>2. audioState' = RUNNING /\ backend' = "pipewire" /\ "pactl" \in tools => router'
      BY <1>6, <2>1 DEF Moved, Spawned, Loaded, Saved, NotSaved
    <2>3. QED
      BY <2>1, <2>2 DEF Leave, TypeOK
  <1>7. ASSUME \/ \E m \in ModuleIds : Foreign(m)
               \/ RouterRun \/ ServerDown \/ ServerUp \/ StreamChanges \/ UNCHANGED vars
        PROVE  RouterInv' /\ ~GivenUp
    <2>1. CASE RouterRun \/ ServerDown
      BY <2>1 DEF RouterRun, ServerDown
    <2>2. CASE \/ \E m \in ModuleIds : Foreign(m)
              \/ ServerUp \/ StreamChanges \/ UNCHANGED vars
      BY <2>2 DEF Foreign, ServerUp, StreamChanges, vars, memory, world
    <2>3. QED
      BY <1>7, <2>1, <2>2
  <1>8. ASSUME Crash PROVE RouterInv' /\ ~GivenUp
    BY <1>8 DEF Crash, STOPPED, RUNNING, world
  <1>9. QED
    BY <1>1, <1>2, <1>3, <1>4, <1>5, <1>6, <1>7, <1>8 DEF Next, EnterStep, HeldStep
-----------------------------------------------------------------------------
(* The microphone service.                                                 *)

\* The service's words for the states and for where a caller is suspended.
LEMMA Words ==
  /\ MicOf(RUNNING) = "on" /\ MicOf(STOPPED) = "off"
  /\ MicOf(STARTING) = "half" /\ MicOf(STOPPING) = "ending"
  /\ \A s \in States : (MicOf(s) = "on" <=> s = RUNNING) /\ (MicOf(s) = "off" <=> s = STOPPED)
  /\ Asks("idle") = "none" /\ Asks("stopLock") = "stop" /\ Asks("unload") = "stop"
  /\ \A at \in {"startLock", "move", "spawn", "load"} : Asks(at) = "start"
  BY DEF MicOf, Asks, States, STOPPED, STARTING, RUNNING, STOPPING, ERROR

\* What the callers ask for, after one of them moved.
LEMMA AskedAfter ==
  ASSUME TypeOK, NEW c \in Clients, NEW at, pc' = [pc EXCEPT ![c] = at]
  PROVE  [d \in Clients |-> Asks(pc'[d])]
           = [[d \in Clients |-> Asks(pc[d])] EXCEPT ![c] = Asks(at)]
  BY DEF TypeOK

\* An operation that ends is an answer.
LEMMA Answers ==
  ASSUME TypeOK, NEW c \in Clients, Leave(c), lock \in {c, Nobody},
         \/ Asks(pc[c]) = "stop" /\ audioState' = STOPPED
         \/ Asks(pc[c]) = "start" /\ audioState = RUNNING /\ audioState' = RUNNING
         \/ Asks(pc[c]) = "start" /\ audioState # RUNNING /\ audioState' = STARTING
         \/ Asks(pc[c]) = "start" /\ lock = c /\ audioState' = RUNNING
  PROVE  Service!Answer(c)
  <1>1. audioState \in States
    BY DEF TypeOK
  <1>2. [d \in Clients |-> Asks(pc'[d])]
          = [[d \in Clients |-> Asks(pc[d])] EXCEPT ![c] = "none"]
    <2>1. [d \in Clients |-> Asks(pc'[d])]
            = [[d \in Clients |-> Asks(pc[d])] EXCEPT ![c] = Asks("idle")]
      BY AskedAfter DEF Leave
    <2>2. QED
      BY <2>1, Words
  <1>3. lock' = Nobody
    BY DEF Leave
  <1>4. QED
    BY <1>1, <1>2, <1>3, Words DEF Service!Answer

\* A caller that gets the lock and is suspended begins what it asked for.
LEMMA Begins ==
  ASSUME TypeOK, NEW c \in Clients, NEW at \in Held, Hold(c, at), lock = Nobody,
         Asks(at) = Asks(pc[c]),
         \/ Asks(at) = "start" /\ audioState # RUNNING /\ audioState' = STARTING
         \/ Asks(at) = "stop" /\ audioState # STOPPED /\ audioState' = STOPPING
  PROVE  Service!Begin(c)
  <1>1. audioState \in States
    BY DEF TypeOK
  <1>2. \A d \in Clients : Asks(pc'[d]) = Asks(pc[d])
    BY DEF Hold, TypeOK
  <1>3. UNCHANGED [d \in Clients |-> Asks(pc[d])]
    BY <1>2
  <1>4. lock' = c
    BY DEF Hold
  <1>5. QED
    BY <1>1, <1>3, <1>4, Words DEF Service!Begin
-----------------------------------------------------------------------------
(* Every step of the manager is a step of the service or none of it.       *)

LEMMA EnterServes ==
  ASSUME IInv, NEW c \in Clients, EnterStep(c)
  PROVE  Service!Answer(c) \/ Service!Begin(c)
  <1>1. TypeOK /\ lock = Nobody /\ audioState # STOPPING
    BY EnterEffect, NotStopping DEF IInv
  <1> USE DEF Held
  <1>2. CASE StartAlreadyRunning(c)
    <2>1. Leave(c) /\ pc[c] = "startLock" /\ audioState = RUNNING /\ audioState' = RUNNING
      BY <1>2 DEF StartAlreadyRunning, Enter
    <2>2. QED
      BY <1>1, <2>1, Answers, Words
  <1>3. CASE StartPactlFails(c)
    <2>1. Leave(c) /\ pc[c] = "startLock" /\ audioState # RUNNING /\ audioState' = STARTING
      BY <1>3 DEF StartPactlFails, StartBegin, Enter
    <2>2. QED
      BY <1>1, <2>1, Answers, Words
  <1>4. CASE StopAlreadyStopped(c) \/ StopPipewire(c) \/ StopNothing(c)
    <2>1. Leave(c) /\ pc[c] = "stopLock" /\ audioState' = STOPPED
      BY <1>4 DEF StopAlreadyStopped, StopPipewire, StopNothing, StopBegin, Stopped, Enter
    <2>2. QED
      BY <1>1, <2>1, Answers, Words
  <1>5. CASE StartPactl(c) \/ StartNative(c) \/ StartAloop(c)
    <2>1. PICK at \in {"move", "spawn", "load"} : Hold(c, at)
      BY <1>5 DEF StartPactl, StartNative, StartAloop
    <2>2. pc[c] = "startLock" /\ audioState # RUNNING /\ audioState' = STARTING
      BY <1>5 DEF StartPactl, StartNative, StartAloop, StartBegin, Enter
    <2>3. QED
      BY <1>1, <2>1, <2>2, Begins, Words
  <1>6. CASE StopAloop(c)
    <2>1. /\ Hold(c, "unload") /\ pc[c] = "stopLock"
          /\ audioState # STOPPED /\ audioState' = STOPPING
      BY <1>6 DEF StopAloop, StopBegin, Enter
    <2>2. QED
      BY <1>1, <2>1, Begins, Words
  <1>7. QED
    BY <1>2, <1>3, <1>4, <1>5, <1>6 DEF EnterStep

LEMMA HeldServes ==
  ASSUME IInv, NEW c \in Clients, HeldStep(c)
  PROVE  Service!Answer(c)
  <1>1. TypeOK /\ lock = c /\ Leave(c)
    BY HeldEffect DEF IInv, StateInv, HolderInv
  <1>2. CASE Unloaded(c)
    <2>1. pc[c] = "unload" /\ audioState' = STOPPED
      BY <1>2 DEF Unloaded, Stopped
    <2>2. QED
      BY <1>1, <2>1, Answers, Words
  <1>3. CASE ~Unloaded(c)
    <2>1. pc[c] \in {"move", "spawn", "load"} /\ audioState' \in {audioState, RUNNING}
      BY <1>3 DEF HeldStep, Moved, Spawned, Loaded, StartFails, Saved, NotSaved
    <2>2. audioState = STARTING /\ STARTING # RUNNING
      BY <2>1 DEF IInv, StateInv, HolderInv, STARTING, RUNNING
    <2>3. QED
      BY <1>1, <2>1, <2>2, Answers, Words
  <1>4. QED
    BY <1>2, <1>3

LEMMA ServiceStep == IInv /\ [Next]_vars => [Service!Next]_(Service!vars)
  <1> SUFFICES ASSUME IInv, [Next]_vars PROVE [Service!Next]_(Service!vars)
    OBVIOUS
  <1>1. ASSUME NEW c \in Clients, EnterStep(c) \/ HeldStep(c) PROVE Service!Next
    BY <1>1, EnterServes, HeldServes DEF Service!Next
  <1>2. ASSUME NEW c \in Clients,
               RequestStop(c) \/ \E b \in {"pipewire", "snd_aloop"} : RequestStart(c, b)
        PROVE  Service!Next
    <2>1. PICK at \in {"startLock", "stopLock"} : pc' = [pc EXCEPT ![c] = at]
      BY <1>2 DEF RequestStop, RequestStart
    <2>2. pc[c] = "idle" /\ UNCHANGED <<audioState, lock>>
      BY <1>2 DEF RequestStop, RequestStart
    <2>3. [d \in Clients |-> Asks(pc'[d])]
            = [[d \in Clients |-> Asks(pc[d])] EXCEPT ![c] = Asks(at)]
      BY <2>1, AskedAfter DEF IInv
    <2>4. Service!Ask(c)
      BY <2>2, <2>3, Words DEF Service!Ask
    <2>5. QED
      BY <2>4 DEF Service!Next
  <1>3. ASSUME \/ \E m \in ModuleIds : Foreign(m)
               \/ RouterRun \/ ServerDown \/ ServerUp \/ StreamChanges \/ UNCHANGED vars
        PROVE  UNCHANGED Service!vars
    <2>1. UNCHANGED <<audioState, pc, lock>>
      <3>1. CASE RouterRun \/ ServerDown
        BY <3>1 DEF RouterRun, ServerDown
      <3>2. CASE \/ \E m \in ModuleIds : Foreign(m)
                \/ ServerUp \/ StreamChanges \/ UNCHANGED vars
        BY <3>2 DEF Foreign, ServerUp, StreamChanges, vars, memory
      <3>3. QED
        BY <1>3, <3>1, <3>2
    <2>2. QED
      BY <2>1 DEF Service!vars
  <1>4. ASSUME Crash PROVE Service!Next
    <2>1. /\ audioState' = STOPPED /\ lock' = Nobody
          /\ [d \in Clients |-> Asks(pc'[d])] = [d \in Clients |-> "none"]
      BY <1>4, Words DEF Crash
    <2>2. QED
      BY <2>1, Words DEF Service!Next, Service!Dies, Service!Quiet
  <1>5. QED
    BY <1>1, <1>2, <1>3, <1>4 DEF Next

\* What the service promises, from its own steps.
LEMMA ServiceInvariant == Service!Spec => []Service!Settled
  <1> USE DEF Service!Settled
  <1>1. Service!Init => Service!Settled
    BY DEF Service!Init
  <1>2. Service!Settled /\ [Service!Next]_(Service!vars) => Service!Settled'
    <2> SUFFICES ASSUME Service!Settled, [Service!Next]_(Service!vars) PROVE Service!Settled'
      OBVIOUS
    <2>1. CASE Service!Dies
      BY <2>1, AudioAssumption DEF Service!Dies
    <2>2. ASSUME NEW c \in Clients, Service!Ask(c) PROVE Service!Settled'
      BY <2>2, AudioAssumption DEF Service!Ask
    <2>3. ASSUME NEW c \in Clients, Service!Begin(c) PROVE Service!Settled'
      BY <2>3, AudioAssumption DEF Service!Begin
    <2>4. ASSUME NEW c \in Clients, Service!Answer(c) PROVE Service!Settled'
      BY <2>4, AudioAssumption DEF Service!Answer
    <2>5. CASE UNCHANGED Service!vars
      BY <2>5 DEF Service!vars
    <2>6. QED
      BY <2>1, <2>2, <2>3, <2>4, <2>5 DEF Service!Next
  <1>3. QED
    BY <1>1, <1>2, PTL DEF Service!Spec
-----------------------------------------------------------------------------
(* Theorems.                                                               *)

\* The inductive invariant holds in every reachable state.
LEMMA Invariant == Spec => []IInv
  <1>1. Init => IInv
    BY InvInit
  <1>2. IInv /\ [Next]_vars => IInv'
    BY TypeStep, StateStep, SecondMicStep DEF IInv
  <1>3. QED
    BY <1>1, <1>2, PTL DEF Spec

\* Every variable keeps its type; no operation ever moves the state to ERROR.
THEOREM TypeCorrect == Spec => []TypeOK
  <1>1. IInv => TypeOK
    BY DEF IInv
  <1>2. QED
    BY <1>1, Invariant, PTL

\* While audio is RUNNING the state file names the active backend, whatever
\* start or stop failed before and however often the daemon died.
THEOREM FileNamesBackendAlways == Spec => []FileNamesBackend
  <1>1. IInv => FileNamesBackend
    BY DEF IInv, StateInv
  <1>2. QED
    BY <1>1, Invariant, PTL

\* There is at most one virtual sink and one virtual source, but for those a
\* cleanup, a stop or a rollback was to take down and the sound server kept:
\* with any pactl command failing, a file that cannot be written and a daemon
\* that dies.
THEOREM SecondMicIsStuckAlways == Spec => []SecondMicIsStuck
  <1>1. IInv => SecondMicIsStuck
    BY DEF IInv
  <1>2. QED
    BY <1>1, Invariant, PTL

\* The manager implements the microphone service, with faults and crashes:
\* whatever the backends and the file go through, calls take effect one at a
\* time and none leaves a change half made.
THEOREM Refinement == Spec => ImplementsMicrophoneService
  <1>1. Init => Service!Init
    BY Words DEF Init, Service!Init, Service!Quiet
  <1>2. IInv /\ [Next]_vars => [Service!Next]_(Service!vars)
    BY ServiceStep
  <1>3. QED
    BY <1>1, <1>2, Invariant, PTL DEF Spec, Service!Spec, ImplementsMicrophoneService

\* No operation that is over leaves the state STOPPING, from which no start
\* would be accepted.
THEOREM NeverStuck == Spec => [](lock = Nobody => audioState # STOPPING)
  <1>1. Service!Settled => (lock = Nobody => audioState # STOPPING)
    BY Words DEF Service!Settled
  <1>2. QED
    BY <1>1, Refinement, ServiceInvariant, PTL DEF ImplementsMicrophoneService

\* A microphone that runs is turned off by somebody who did not ask for it.
Interrupted ==
  /\ audioState = RUNNING /\ audioState' # RUNNING
  /\ ~Crash /\ \A c \in Clients : pc[c] # "stopLock"

\* A microphone that runs is left alone until a stop is asked for or the
\* daemon dies: a start with another backend, a failed one or a cleanup does
\* not end it.
THEOREM RunsUntilStopped == Spec => [][~Interrupted]_vars
  <1>1. ASSUME IInv, Next, audioState = RUNNING, audioState' # RUNNING, ~Crash
        PROVE  \E c \in Clients : pc[c] = "stopLock"
    <2>1. ASSUME NEW c \in Clients, HeldStep(c) PROVE FALSE
      <3>1. pc[c] \in Held
        BY <2>1, HeldEffect
      <3>2. QED
        BY <1>1, <3>1 DEF IInv, StateInv, HolderInv, Held, STARTING, STOPPING, RUNNING
    <2>2. ASSUME NEW c \in Clients, EnterStep(c) PROVE pc[c] = "stopLock"
      BY <1>1, <2>2 DEF EnterStep, StartAlreadyRunning, StartPactl, StartPactlFails, StartNative,
         StartAloop, StartBegin, StopAlreadyStopped, StopPipewire, StopNothing, StopAloop,
         StopBegin, Enter
    <2>3. ASSUME UNCHANGED audioState PROVE FALSE
      BY <1>1, <2>3
    <2>4. QED
      BY <1>1, <2>1, <2>2, <2>3 DEF Next, RequestStart, RequestStop, Foreign, RouterRun,
         ServerDown, ServerUp, StreamChanges, memory
  <1>2. IInv /\ [Next]_vars => [~Interrupted]_vars
    BY <1>1 DEF Interrupted, vars, memory
  <1>3. QED
    BY <1>2, Invariant, PTL DEF Spec

\* STOPPED means that nothing of the microphone is left but what the sound
\* server kept against an unload, if the daemon lives and can write its state
\* file.
THEOREM SilentAlways ==
  ASSUME ~DiskFaults, ~Crashes
  PROVE  Spec => []SilentUnlessStuck
  <1>1. Init => SilentInv
    BY DEF Init, SilentInv, FreshModules
  <1>2. TypeOK /\ StateInv /\ SilentInv /\ [Next]_vars => SilentInv'
    BY SilentStep
  <1>3. IInv => TypeOK /\ StateInv
    BY DEF IInv
  <1>4. TypeOK /\ StateInv /\ SilentInv => SilentUnlessStuck
    BY DEF SilentInv, SilentUnlessStuck, StateInv, HolderInv,
           STOPPED, RUNNING, STARTING
  <1>5. QED
    BY <1>1, <1>2, <1>3, <1>4, Invariant, PTL DEF Spec

\* A call is answered after at most two of its own steps, which no other call
\* undoes, and whoever holds the lock is one step from releasing it: together
\* with the order in which asyncio's lock wakes its waiters, no request to
\* start or stop the microphone waits for ever.
THEOREM CallsAdvance == Spec => [][~PutsOff]_vars /\ []LockInv
  <1>1. Init => LockInv
    BY DEF Init, LockInv
  <1>2. TypeOK /\ LockInv /\ [Next]_vars => LockInv' /\ ~PutsOff
    BY CallsStep
  <1>3. QED
    BY <1>1, <1>2, TypeCorrect, PTL DEF Spec

\* scrcpy's sound does not stay on the default sink unnoticed: while the
\* microphone runs with PipeWire the router task is scheduled, its next look
\* whose pactl commands succeed moves the stream, and until then nothing but a
\* stop, the stream's own end or the loss of the sink excuses it.  With the
\* timer that wakes the task this is StreamIsRouted.
THEOREM RouterWatches ==
  Spec => []RouterInv /\ [][~GivenUp /\ (Unrouted /\ RouterRun => stream' = "mic")]_vars
  <1>1. Init => RouterInv
    BY DEF Init, RouterInv, STOPPED, RUNNING
  <1>2. TypeOK /\ StateInv /\ RouterInv /\ [Next]_vars => RouterInv' /\ ~GivenUp
    BY RouterStep
  <1>3. Unrouted /\ RouterRun => stream' = "mic"
    BY DEF Unrouted, RouterRun
  <1>4. IInv => TypeOK /\ StateInv
    BY DEF IInv
  <1>5. QED
    BY <1>1, <1>2, <1>3, <1>4, Invariant, PTL DEF Spec
=============================================================================
