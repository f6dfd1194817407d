-------------------------- MODULE CameraDeviceProofs -------------------------
(***************************************************************************)
(* Proofs about CameraDevice, for every number of processes and helpers    *)
(* and on every Python.                                                    *)
(***************************************************************************)
EXTENDS CameraDevice, TLAPS

\* Where the callers of the supervisor and of the helper are, as the operation
\* and the shutdown have them.
CallerInv ==
  /\ \A c \in Callers : seen[c] = NoPid <=> sup[c] = "idle"
  /\ op \in {"stopping", "resetting"} <=> sup[Manager] \in {"grace", "killing"}
  /\ op = "spawn" <=> sup[Manager] = "spawning"
  /\ sup[Stopper] # "spawning"
  /\ shutdown # "begun" => sup[Stopper] = "idle"
  /\ current # NoHelper => op \in {"status", "ensure", "reload"}

\* A process that nobody gave up: no signal was sent, or (from Python 3.11
\* on) only one that is followed by another.
Kept(p) == leader[p] = "running" \/ (newPython /\ leader[p] = "termed")

\* Before a shutdown a stop waits for the entry, a start has none, what
\* follows a stop finds it ended, and no process is kept that is not known.
ProcessInv ==
  shutdown = "no" =>
    /\ sup[Manager] \in {"grace", "killing"} =>
         entry = seen[Manager] /\ leader[entry] # "running"
    /\ sup[Manager] = "killing" => leader[entry] # "termed"
    /\ op = "spawn" => entry = NoPid
    /\ op \in {"stopped", "resetCall", "reload"} => ~Running
    /\ \A p \in Pids : Kept(p) => entry = p \/ (op = "spawn" /\ seen[Manager] = p)

\* Only live processes have the device open.
UsersInv == \A p \in users \cap Pids : Alive(p)

\* During a start that began alone the only helper at work is the one it
\* waits for; once that one has answered "ok", nothing unmakes the device.
AloneInv ==
  alone /\ op \in {"status", "ensure", "select", "spawn"} =>
    /\ \A h \in Helpers : at[h] # "none" => h = current /\ reply = "none"
    /\ \A h \in Helpers : at[h] = "check" => device
    /\ reply = "ok" => Ready
    /\ op \in {"select", "spawn"} => Ready

\* The inductive invariant.
IInv == TypeOK /\ CallerInv /\ ProcessInv /\ UsersInv /\ AloneInv
-----------------------------------------------------------------------------

\* The types of the variables that a helper writes in any step.
HelperVarsOK ==
  /\ at \in [Helpers -> Steps]
  /\ args \in [Helpers -> [force : BOOLEAN, always : BOOLEAN]]
  /\ current \in Helpers \cup {NoHelper}
  /\ reply \in {"none", "ok", "stale", "busy", "error"}

\* A helper or a process taken into use was not in use.
LEMMA FreeOnes ==
  /\ \A h \in FreeHelper : h \in Helpers /\ at[h] = "none"
  /\ \A p \in FreePid : /\ p \in Pids /\ ~Alive(p)
                        /\ \A d \in Callers : seen[d] # p
  BY DEF FreeHelper, FreePid

\* The types of the helpers after a call began.
LEMMA CallType ==
  ASSUME HelperTypeOK, NEW action,
         NEW a \in [force : BOOLEAN, always : BOOLEAN], CallBegin(action, a)
  PROVE  HelperTypeOK' /\ UNCHANGED users
  <1>1. PICK h \in Helpers :
          /\ at' = [at EXCEPT ![h] = IF action = "status" THEN "promptStatus" ELSE "promptReload"]
          /\ args' = [args EXCEPT ![h] = a] /\ current' = h
    BY FreeOnes DEF CallBegin
  <1>2. QED
    BY <1>1 DEF HelperTypeOK, CallBegin, kernel, Steps

\* The types of the helpers after a call ended.
LEMMA ReturnType ==
  ASSUME HelperTypeOK, NEW r, CallReturns(r) \/ CallTimesOut(newPython)
  PROVE  HelperTypeOK' /\ UNCHANGED users
  <1>1. CASE CallReturns(r)
    BY <1>1 DEF HelperTypeOK, CallReturns, kernel, helpers
  <1>2. CASE CallTimesOut(newPython)
    <2>1. /\ at' \in [Helpers -> Steps]
          /\ args' \in [Helpers -> [force : BOOLEAN, always : BOOLEAN]]
      <3>1. \/ /\ at' = [at EXCEPT ![current] = "none"]
               /\ args' = [args EXCEPT ![current] = NoArgs]
            \/ UNCHANGED helpers
        BY <1>2, Zenon DEF CallTimesOut
      <3>2. NoArgs \in [force : BOOLEAN, always : BOOLEAN]
        BY DEF NoArgs
      <3>3. "none" \in Steps
        BY DEF Steps
      <3>4. QED
        BY <3>1, <3>2, <3>3 DEF HelperTypeOK, helpers
    <2>2. QED
      BY <1>2, <2>1 DEF HelperTypeOK, CallTimesOut, kernel
  <1>3. QED
    BY <1>1, <1>2

\* A helper that answers, or goes on, keeps the types of the helpers.
LEMMA MoveType ==
  ASSUME HelperTypeOK, NEW h \in Helpers,
         \/ \E r \in {"ok", "stale", "busy", "error"} : Answer(h, r)
         \/ \E step \in Steps : GoTo(h, step)
         \/ Reload(h)
  PROVE  HelperVarsOK'
  <1>1. CASE \E r \in {"ok", "stale", "busy", "error"} : Answer(h, r)
    BY <1>1 DEF HelperTypeOK, HelperVarsOK, Answer, NoArgs, Steps
  <1>2. CASE \E step \in Steps : GoTo(h, step)
    BY <1>2 DEF HelperTypeOK, HelperVarsOK, GoTo
  <1>3. CASE Reload(h)
    BY <1>3 DEF HelperTypeOK, HelperVarsOK, Reload, NoArgs, Steps
  <1>4. QED
    BY <1>1, <1>2, <1>3

\* The types of the helpers after a step of one of them.
LEMMA HelperStepType ==
  ASSUME HelperTypeOK, NEW h \in Helpers, HelperStep(h)
  PROVE  HelperTypeOK' /\ UNCHANGED users
  <1>1. CASE Authorized(h)
    <2>1. HelperVarsOK'
      BY <1>1, MoveType DEF Authorized, Steps
    <2>2. module' \in {"absent", "ours", "other"} /\ device' \in BOOLEAN /\ UNCHANGED users
      BY <1>1 DEF Authorized, kernel, HelperTypeOK
    <2>3. QED
      BY <2>1, <2>2 DEF HelperTypeOK, HelperVarsOK
  <1>2. CASE Status(h)
    <2>1. HelperVarsOK'
      BY <1>2, MoveType DEF Status, Steps
    <2>2. module' \in {"absent", "ours", "other"} /\ device' \in BOOLEAN /\ UNCHANGED users
      BY <1>2 DEF Status, kernel, HelperTypeOK
    <2>3. QED
      BY <2>1, <2>2 DEF HelperTypeOK, HelperVarsOK
  <1>3. CASE Inspect(h)
    <2>1. HelperVarsOK'
      BY <1>3, MoveType DEF Inspect, Steps
    <2>2. module' \in {"absent", "ours", "other"} /\ device' \in BOOLEAN /\ UNCHANGED users
      BY <1>3 DEF Inspect, kernel, HelperTypeOK
    <2>3. QED
      BY <2>1, <2>2 DEF HelperTypeOK, HelperVarsOK
  <1>4. CASE Unload(h)
    <2>1. HelperVarsOK'
      BY <1>4, MoveType DEF Unload, Steps
    <2>2. module' \in {"absent", "ours", "other"} /\ device' \in BOOLEAN /\ UNCHANGED users
      BY <1>4 DEF Unload, kernel, HelperTypeOK
    <2>3. QED
      BY <2>1, <2>2 DEF HelperTypeOK, HelperVarsOK
  <1>5. CASE Load(h)
    <2>1. HelperVarsOK'
      BY <1>5, MoveType DEF Load, Steps
    <2>2. module' \in {"absent", "ours", "other"} /\ device' \in BOOLEAN /\ UNCHANGED users
      BY <1>5 DEF Load, kernel, HelperTypeOK
    <2>3. QED
      BY <2>1, <2>2 DEF HelperTypeOK, HelperVarsOK
  <1>6. CASE Appear(h)
    <2>1. HelperVarsOK'
      BY <1>6, MoveType DEF Appear, Steps
    <2>2. module' \in {"absent", "ours", "other"} /\ device' \in BOOLEAN /\ UNCHANGED users
      BY <1>6 DEF Appear, kernel, HelperTypeOK
    <2>3. QED
      BY <2>1, <2>2 DEF HelperTypeOK, HelperVarsOK
  <1>7. CASE Check(h)
    <2>1. HelperVarsOK'
      BY <1>7, MoveType DEF Check, Steps
    <2>2. module' \in {"absent", "ours", "other"} /\ device' \in BOOLEAN /\ UNCHANGED users
      BY <1>7 DEF Check, kernel, HelperTypeOK
    <2>3. QED
      BY <2>1, <2>2 DEF HelperTypeOK, HelperVarsOK
  <1>8. QED
    BY <1>1, <1>2, <1>3, <1>4, <1>5, <1>6, <1>7 DEF HelperStep

\* The types of the supervisor after a step of a stop, which touches nothing
\* else.
LEMMA StopType ==
  ASSUME SupervisorTypeOK, NEW c \in Callers,
         StopReturns(c) \/ Terminate(c) \/ Kill(c) \/ StopRaises(c)
  PROVE  SupervisorTypeOK'
  BY DEF SupervisorTypeOK, StopReturns, Terminate, Kill, StopRaises, LeaderStates

\* The types of the supervisor after a step of a start.
LEMMA StartType ==
  ASSUME SupervisorTypeOK, NEW c \in Callers, NEW p, Spawn(c, p) \/ Spawned(c)
  PROVE  SupervisorTypeOK' /\ (Spawn(c, p) => p \in Pids)
  BY FreeOnes DEF SupervisorTypeOK, Spawn, Spawned, LeaderStates

\* The parts that make up the states of the other modules.
LEMMA Unchanged ==
  /\ UNCHANGED supervisor /\ SupervisorTypeOK => SupervisorTypeOK'
  /\ UNCHANGED v4l2 /\ HelperTypeOK => HelperTypeOK' /\ UNCHANGED users
  BY DEF supervisor, SupervisorTypeOK, v4l2, kernel, helpers, HelperTypeOK

\* A daemon just started, whatever the module was loaded with.
LEMMA InvInit == Init => IInv
  <1> SUFFICES ASSUME Init PROVE IInv
    OBVIOUS
  <1>1. SupervisorTypeOK
    BY DEF Init, SupervisorInit, SupervisorTypeOK, LeaderStates
  <1>2. HelperTypeOK
    BY DEF Init, HelperInit, HelperTypeOK, Steps, NoArgs
  <1>3. users = {}
    BY DEF Init, HelperInit
  <1>4. QED
    BY <1>1, <1>2, <1>3, DeviceAssumption
       DEF Init, SupervisorInit, HelperInit, IInv, TypeOK, CallerInv, ProcessInv, Kept, UsersInv, AloneInv

\* The parameters the daemon calls the helper with.
LEMMA ArgsType ==
  /\ {NoArgs, NoForce, AfterStop} \subseteq [force : BOOLEAN, always : BOOLEAN]
  /\ \A f \in BOOLEAN : [force |-> f, always |-> FALSE] \in [force : BOOLEAN, always : BOOLEAN]
  BY DEF NoArgs, NoForce, AfterStop

\* No step takes a variable out of its type.
LEMMA TypeStep == TypeOK /\ [Next]_vars => TypeOK'
  <1> SUFFICES ASSUME TypeOK, [Next]_vars PROVE TypeOK'
    OBVIOUS
<1>1. ASSUME StartBegin PROVE TypeOK'
  <2>1. HelperTypeOK' /\ UNCHANGED users
    BY <1>1, ArgsType, CallType, ReturnType DEF StartBegin, TypeOK
  <2>2. QED
    BY <1>1, <2>1, Unchanged DEF StartBegin, TypeOK
<1>2. ASSUME StatusReturns PROVE TypeOK'
  <2>1. HelperTypeOK' /\ UNCHANGED users
    BY <1>2, ArgsType, CallType, ReturnType DEF StatusReturns, TypeOK
  <2>2. QED
    BY <1>2, <2>1, Unchanged DEF StatusReturns, KeepSupervisor, KeepAlone, SessionStart, TypeOK
<1>3. ASSUME EnsureReturns PROVE TypeOK'
  <2>1. HelperTypeOK' /\ UNCHANGED users
    BY <1>3, ArgsType, CallType, ReturnType DEF EnsureReturns, TypeOK
  <2>2. QED
    BY <1>3, <2>1, Unchanged DEF EnsureReturns, KeepSupervisor, KeepAlone, SessionStart, TypeOK
<1>4. ASSUME Selected PROVE TypeOK'
  <2>1. SupervisorTypeOK' /\ users' \subseteq Pids \cup {"app"}
    BY <1>4, StartType, StopType, Unchanged, DeviceAssumption DEF Selected, TypeOK
  <2>2. HelperTypeOK'
    BY <1>4 DEF Selected, helpers, HelperTypeOK, TypeOK
  <2>3. QED
    BY <1>4, <2>1, <2>2 DEF Selected, KeepAlone, TypeOK
<1>5. ASSUME Launched PROVE TypeOK'
  <2>1. SupervisorTypeOK'
    BY <1>5, StartType, DeviceAssumption DEF Launched, TypeOK
  <2>2. QED
    BY <1>5, <2>1, Unchanged DEF Launched, KeepHelper, KeepAlone, TypeOK
<1>6. ASSUME StopBegin PROVE TypeOK'
  <2>1. SupervisorTypeOK'
    BY <1>6, StopType, DeviceAssumption DEF StopBegin, TypeOK
  <2>2. QED
    BY <1>6, <2>1, Unchanged DEF StopBegin, KeepHelper, KeepAlone, TypeOK
<1>7. ASSUME ResetBegin PROVE TypeOK'
  <2>1. SupervisorTypeOK'
    BY <1>7, StopType, Unchanged, DeviceAssumption DEF ResetBegin, TypeOK
  <2>2. HelperTypeOK' /\ UNCHANGED users
    BY <1>7, ArgsType, CallType, Unchanged DEF ResetBegin, TypeOK
  <2>3. QED
    BY <1>7, <2>1, <2>2 DEF ResetBegin, TypeOK
<1>8. ASSUME GraceEnds PROVE TypeOK'
  <2>1. SupervisorTypeOK'
    BY <1>8, StopType, DeviceAssumption DEF GraceEnds, TypeOK
  <2>2. QED
    BY <1>8, <2>1, Unchanged DEF GraceEnds, KeepHelper, KeepAlone, TypeOK
<1>9. ASSUME Stopped PROVE TypeOK'
  <2>1. SupervisorTypeOK'
    BY <1>9, StopType, DeviceAssumption DEF Stopped, TypeOK
  <2>2. QED
    BY <1>9, <2>1, Unchanged DEF Stopped, KeepHelper, KeepAlone, TypeOK
<1>10. ASSUME ReloadBegin PROVE TypeOK'
  <2>1. HelperTypeOK' /\ UNCHANGED users
    BY <1>10, ArgsType, CallType DEF ReloadBegin, TypeOK
  <2>2. QED
    BY <1>10, <2>1, Unchanged DEF ReloadBegin, KeepSupervisor, KeepAlone, TypeOK
<1>11. ASSUME ReloadReturns PROVE TypeOK'
  <2>1. HelperTypeOK' /\ UNCHANGED users
    BY <1>11, ArgsType, CallType, ReturnType DEF ReloadReturns, TypeOK
  <2>2. QED
    BY <1>11, <2>1, Unchanged DEF ReloadReturns, KeepSupervisor, KeepAlone, TypeOK
<1>12. ASSUME TimedOut PROVE TypeOK'
  <2>1. HelperTypeOK' /\ UNCHANGED users
    BY <1>12, ArgsType, CallType, ReturnType DEF TimedOut, TypeOK
  <2>2. QED
    BY <1>12, <2>1, Unchanged DEF TimedOut, KeepSupervisor, KeepAlone, TypeOK
<1>13. ASSUME StopAll PROVE TypeOK'
  <2>1. SupervisorTypeOK'
    BY <1>13, StopType, DeviceAssumption DEF StopAll, TypeOK
  <2>2. QED
    BY <1>13, <2>1, Unchanged DEF StopAll, TypeOK
<1>14. ASSUME NEW p \in Pids, ScrcpyExits(p) PROVE TypeOK'
  <2>1. SupervisorTypeOK'
    BY <1>14 DEF ScrcpyExits, LeaderExits, SupervisorTypeOK, LeaderStates, TypeOK
  <2>2. QED
    BY <1>14, <2>1 DEF ScrcpyExits, helpers, HelperTypeOK, TypeOK
<1>15. ASSUME NEW h \in Helpers, HelperRuns(h) PROVE TypeOK'
  <2>1. HelperTypeOK' /\ UNCHANGED users
    BY <1>15, HelperStepType DEF HelperRuns, TypeOK
  <2>2. QED
    BY <1>15, <2>1, Unchanged DEF HelperRuns, TypeOK
<1>16. ASSUME NodeAppears PROVE TypeOK'
  <2>1. HelperTypeOK' /\ UNCHANGED users
    BY <1>16 DEF NodeAppears, DeviceAppears, helpers, HelperTypeOK, TypeOK
  <2>2. QED
    BY <1>16, <2>1, Unchanged DEF NodeAppears, TypeOK
<1>17. ASSUME AppOpens PROVE TypeOK'
  <2>1. SupervisorTypeOK' /\ HelperTypeOK'
    BY <1>17, Unchanged DEF AppOpens, helpers, HelperTypeOK, TypeOK
  <2>2. QED
    BY <1>17, <2>1 DEF AppOpens, TypeOK
<1>18. ASSUME AppCloses PROVE TypeOK'
  <2>1. SupervisorTypeOK' /\ HelperTypeOK'
    BY <1>18, Unchanged DEF AppCloses, helpers, HelperTypeOK, TypeOK
  <2>2. QED
    BY <1>18, <2>1 DEF AppCloses, TypeOK
<1>19. CASE UNCHANGED vars
  BY <1>19, Unchanged DEF vars, TypeOK
<1>20. QED
  BY <1>1, <1>2, <1>3, <1>4, <1>5, <1>6, <1>7, <1>8, <1>9, <1>10, <1>11,
     <1>12, <1>13, <1>14, <1>15, <1>16, <1>17, <1>18, <1>19
     DEF Next, Begin, Continue
-----------------------------------------------------------------------------
(* Callers and processes.                                                  *)

\* No step lets an operation and the call it waits for part.
LEMMA CallerStep == TypeOK /\ CallerInv /\ [Next]_vars => CallerInv'
  <1> SUFFICES ASSUME TypeOK, CallerInv, [Next]_vars PROVE CallerInv'
    OBVIOUS
  <1>a. NoPid \notin Pids /\ Callers = {Manager, Stopper} /\ Manager # Stopper
    BY SupervisorAssumption, DeviceAssumption
<1>1. ASSUME StartBegin PROVE CallerInv'
  BY <1>1, <1>a DEF StartBegin, CallBegin, CallerInv, supervisor
<1>2. ASSUME StatusReturns PROVE CallerInv'
  BY <1>2, <1>a DEF StatusReturns, KeepSupervisor, SessionStart, CallBegin,
     CallReturns, CallerInv, supervisor
<1>3. ASSUME EnsureReturns PROVE CallerInv'
  BY <1>3, <1>a DEF EnsureReturns, KeepSupervisor, SessionStart, CallReturns,
     CallerInv, supervisor
<1>4. ASSUME Selected PROVE CallerInv'
  BY <1>4, FreeOnes, <1>a DEF Selected, Spawn, StopReturns, Woken, supervisor,
     TypeOK, SupervisorTypeOK, CallerInv
<1>5. ASSUME Launched PROVE CallerInv'
  BY <1>5, <1>a DEF Launched, Spawned, KeepHelper, v4l2, TypeOK,
     SupervisorTypeOK, CallerInv
<1>6. ASSUME StopBegin PROVE CallerInv'
  BY <1>6, <1>a DEF StopBegin, StopReturns, Woken, Terminate, Running,
     KeepHelper, v4l2, TypeOK, SupervisorTypeOK, CallerInv
<1>7. ASSUME ResetBegin PROVE CallerInv'
  BY <1>7, <1>a DEF ResetBegin, Terminate, Running, CallBegin, supervisor, v4l2,
     TypeOK, SupervisorTypeOK, CallerInv
<1>8. ASSUME GraceEnds PROVE CallerInv'
  BY <1>8, <1>a DEF GraceEnds, Kill, StopRaises, GraceOver, KeepHelper, v4l2,
     TypeOK, SupervisorTypeOK, CallerInv
<1>9. ASSUME Stopped PROVE CallerInv'
  BY <1>9, <1>a DEF Stopped, StopReturns, Woken, KeepHelper, v4l2, TypeOK,
     SupervisorTypeOK, CallerInv
<1>10. ASSUME ReloadBegin PROVE CallerInv'
  BY <1>10, <1>a DEF ReloadBegin, KeepSupervisor, CallBegin, CallerInv, supervisor
<1>11. ASSUME ReloadReturns PROVE CallerInv'
  BY <1>11, <1>a DEF ReloadReturns, KeepSupervisor, CallReturns, CallerInv,
     supervisor
<1>12. ASSUME TimedOut PROVE CallerInv'
  BY <1>12, <1>a DEF TimedOut, CallTimesOut, KeepSupervisor, CallerInv, supervisor
<1>13. ASSUME StopAll PROVE CallerInv'
  BY <1>13, <1>a DEF StopAll, StopReturns, Woken, Terminate, Running, Kill,
     StopRaises, GraceOver, v4l2, TypeOK, SupervisorTypeOK, CallerInv
<1>14. ASSUME NEW p \in Pids, ScrcpyExits(p) PROVE CallerInv'
  BY <1>14, <1>a DEF ScrcpyExits, LeaderExits, CallerInv
<1>15. ASSUME NEW h \in Helpers, HelperRuns(h) PROVE CallerInv'
  <2>1. UNCHANGED current
    BY <1>15 DEF HelperRuns, HelperStep, Authorized, Status, Inspect, Unload, Load, Appear, Check,
             GoTo, Answer, Reload
  <2>2. QED
    BY <1>15, <2>1 DEF HelperRuns, CallerInv, supervisor
<1>16. ASSUME NodeAppears PROVE CallerInv'
  BY <1>16 DEF NodeAppears, DeviceAppears, CallerInv, supervisor
<1>17. ASSUME AppOpens PROVE CallerInv'
  BY <1>17 DEF AppOpens, CallerInv, supervisor
<1>18. ASSUME AppCloses PROVE CallerInv'
  BY <1>18 DEF AppCloses, CallerInv, supervisor
<1>19. CASE UNCHANGED vars
  BY <1>19 DEF vars, CallerInv, supervisor, v4l2
<1>20. QED
  BY <1>1, <1>2, <1>3, <1>4, <1>5, <1>6, <1>7, <1>8, <1>9, <1>10, <1>11,
     <1>12, <1>13, <1>14, <1>15, <1>16, <1>17, <1>18, <1>19
     DEF Next, Begin, Continue
-----------------------------------------------------------------------------

\* No step leaves a process behind that nobody knows.
LEMMA ProcessStep ==
  TypeOK /\ CallerInv /\ ProcessInv /\ [Next]_vars => ProcessInv'
  <1> SUFFICES ASSUME TypeOK, CallerInv, ProcessInv, [Next]_vars, shutdown' = "no"
               PROVE  ProcessInv'
    BY DEF ProcessInv
  <1>a. NoPid \notin Pids /\ Callers = {Manager, Stopper} /\ Manager # Stopper
    BY SupervisorAssumption, DeviceAssumption
<1>1. ASSUME StartBegin PROVE ProcessInv'
  BY <1>1 DEF StartBegin, supervisor, ProcessInv, Kept, Running
<1>2. ASSUME StatusReturns PROVE ProcessInv'
  BY <1>2 DEF StatusReturns, KeepSupervisor, SessionStart, supervisor, CallerInv,
     ProcessInv, Kept, Running
<1>3. ASSUME EnsureReturns PROVE ProcessInv'
  BY <1>3 DEF EnsureReturns, KeepSupervisor, SessionStart, supervisor, CallerInv,
     ProcessInv, Kept, Running
<1>4. ASSUME Selected PROVE ProcessInv'
  BY <1>4, FreeOnes, <1>a DEF Selected, Spawn, StopReturns, Woken, Alive,
     LeaderStates, supervisor, TypeOK, SupervisorTypeOK, CallerInv,
     ProcessInv, Kept, Running
<1>5. ASSUME Launched PROVE ProcessInv'
  BY <1>5, <1>a DEF Launched, Spawned, KeepHelper, TypeOK, SupervisorTypeOK,
     CallerInv, ProcessInv, Kept, Running
<1>6. ASSUME StopBegin PROVE ProcessInv'
  BY <1>6, <1>a DEF StopBegin, StopReturns, Woken, Terminate, KeepHelper, TypeOK,
     SupervisorTypeOK, CallerInv, ProcessInv, Kept, Running
<1>7. ASSUME ResetBegin PROVE ProcessInv'
  BY <1>7, <1>a DEF ResetBegin, Terminate, supervisor, TypeOK, SupervisorTypeOK,
     CallerInv, ProcessInv, Kept, Running
<1>8. ASSUME GraceEnds PROVE ProcessInv'
  BY <1>8, <1>a DEF GraceEnds, Kill, StopRaises, GraceOver, KeepHelper, TypeOK,
     SupervisorTypeOK, CallerInv, ProcessInv, Kept, Running
<1>9. ASSUME Stopped PROVE ProcessInv'
  BY <1>9, <1>a DEF Stopped, StopReturns, Woken, LeaderStates, KeepHelper,
     TypeOK, SupervisorTypeOK, CallerInv, ProcessInv, Kept, Running
<1>10. ASSUME ReloadBegin PROVE ProcessInv'
  BY <1>10 DEF ReloadBegin, KeepSupervisor, supervisor, CallerInv, ProcessInv,
     Kept, Running
<1>11. ASSUME ReloadReturns PROVE ProcessInv'
  BY <1>11 DEF ReloadReturns, KeepSupervisor, supervisor, CallerInv, ProcessInv,
     Kept, Running
<1>12. ASSUME TimedOut PROVE ProcessInv'
  BY <1>12 DEF TimedOut, CallTimesOut, KeepSupervisor, supervisor, CallerInv,
     ProcessInv, Kept, Running
<1>13. ASSUME StopAll PROVE ProcessInv'
  BY <1>13 DEF StopAll
<1>14. ASSUME NEW p \in Pids, ScrcpyExits(p) PROVE ProcessInv'
  BY <1>14, <1>a DEF ScrcpyExits, LeaderExits, Alive, TypeOK, SupervisorTypeOK,
     CallerInv, ProcessInv, Kept, Running
<1>15. ASSUME NEW h \in Helpers, HelperRuns(h) PROVE ProcessInv'
  BY <1>15 DEF HelperRuns, supervisor, ProcessInv, Kept, Running
<1>16. ASSUME NodeAppears PROVE ProcessInv'
  BY <1>16 DEF NodeAppears, supervisor, ProcessInv, Kept, Running
<1>17. ASSUME AppOpens PROVE ProcessInv'
  BY <1>17 DEF AppOpens, supervisor, ProcessInv, Kept, Running
<1>18. ASSUME AppCloses PROVE ProcessInv'
  BY <1>18 DEF AppCloses, supervisor, ProcessInv, Kept, Running
<1>19. CASE UNCHANGED vars
  BY <1>19 DEF vars, supervisor, ProcessInv, Kept, Running
<1>20. QED
  BY <1>1, <1>2, <1>3, <1>4, <1>5, <1>6, <1>7, <1>8, <1>9, <1>10, <1>11,
     <1>12, <1>13, <1>14, <1>15, <1>16, <1>17, <1>18, <1>19
     DEF Next, Begin, Continue

\* A process that ended has closed the device.
LEMMA UsersStep ==
  TypeOK /\ UsersInv /\ [Next]_vars => UsersInv'
  <1> SUFFICES ASSUME TypeOK, UsersInv, [Next]_vars PROVE UsersInv'
    OBVIOUS
  <1>a. "app" \notin Pids /\ Callers = {Manager, Stopper}
    BY DeviceAssumption
<1>1. ASSUME StartBegin PROVE UsersInv'
  BY <1>1 DEF StartBegin, CallBegin, supervisor, kernel, UsersInv, Alive
<1>2. ASSUME StatusReturns PROVE UsersInv'
  BY <1>2 DEF StatusReturns, CallBegin, CallReturns, KeepSupervisor, supervisor,
     kernel, UsersInv, Alive
<1>3. ASSUME EnsureReturns PROVE UsersInv'
  BY <1>3 DEF EnsureReturns, CallReturns, KeepSupervisor, supervisor, kernel,
     UsersInv, Alive
<1>4. ASSUME Selected PROVE UsersInv'
  BY <1>4, FreeOnes, <1>a DEF Selected, Spawn, StopReturns, supervisor, TypeOK,
     SupervisorTypeOK, UsersInv, Alive
<1>5. ASSUME Launched PROVE UsersInv'
  BY <1>5 DEF Launched, Spawned, KeepHelper, v4l2, kernel, UsersInv, Alive
<1>6. ASSUME StopBegin PROVE UsersInv'
  BY <1>6 DEF StopBegin, StopReturns, Terminate, KeepHelper, v4l2, kernel,
     TypeOK, SupervisorTypeOK, UsersInv, Alive
<1>7. ASSUME ResetBegin PROVE UsersInv'
  BY <1>7 DEF ResetBegin, Terminate, CallBegin, supervisor, v4l2, kernel, TypeOK,
     SupervisorTypeOK, UsersInv, Alive
<1>8. ASSUME GraceEnds PROVE UsersInv'
  BY <1>8 DEF GraceEnds, Kill, StopRaises, KeepHelper, v4l2, kernel, TypeOK,
     SupervisorTypeOK, UsersInv, Alive
<1>9. ASSUME Stopped PROVE UsersInv'
  BY <1>9 DEF Stopped, StopReturns, KeepHelper, v4l2, kernel, UsersInv, Alive
<1>10. ASSUME ReloadBegin PROVE UsersInv'
  BY <1>10 DEF ReloadBegin, CallBegin, KeepSupervisor, supervisor, kernel,
     UsersInv, Alive
<1>11. ASSUME ReloadReturns PROVE UsersInv'
  BY <1>11 DEF ReloadReturns, CallReturns, KeepSupervisor, supervisor, kernel,
     UsersInv, Alive
<1>12. ASSUME TimedOut PROVE UsersInv'
  BY <1>12 DEF TimedOut, CallTimesOut, KeepSupervisor, supervisor, kernel,
     UsersInv, Alive
<1>13. ASSUME StopAll PROVE UsersInv'
  BY <1>13 DEF StopAll, StopReturns, Terminate, Kill, StopRaises, v4l2, kernel,
     TypeOK, SupervisorTypeOK, UsersInv, Alive
<1>14. ASSUME NEW p \in Pids, ScrcpyExits(p) PROVE UsersInv'
  BY <1>14 DEF ScrcpyExits, LeaderExits, TypeOK, SupervisorTypeOK, UsersInv, Alive
<1>15. ASSUME NEW h \in Helpers, HelperRuns(h) PROVE UsersInv'
  <2>1. UNCHANGED users
    BY <1>15, HelperStepType DEF HelperRuns, TypeOK
  <2>2. QED
    BY <1>15, <2>1 DEF HelperRuns, supervisor, UsersInv, Alive
<1>16. ASSUME NodeAppears PROVE UsersInv'
  BY <1>16 DEF NodeAppears, DeviceAppears, supervisor, UsersInv, Alive
<1>17. ASSUME AppOpens PROVE UsersInv'
  BY <1>17, <1>a DEF AppOpens, supervisor, UsersInv, Alive
<1>18. ASSUME AppCloses PROVE UsersInv'
  BY <1>18, <1>a DEF AppCloses, supervisor, UsersInv, Alive
<1>19. CASE UNCHANGED vars
  BY <1>19 DEF vars, supervisor, v4l2, kernel, UsersInv, Alive
<1>20. QED
  BY <1>1, <1>2, <1>3, <1>4, <1>5, <1>6, <1>7, <1>8, <1>9, <1>10, <1>11,
     <1>12, <1>13, <1>14, <1>15, <1>16, <1>17, <1>18, <1>19
     DEF Next, Begin, Continue
-----------------------------------------------------------------------------
(* The device of a start.                                                  *)

\* While a start that began alone waits for its helper, that helper is the
\* only one to touch the module, and it answers "ok" for a device that is
\* ready.
LEMMA HelperAlone ==
  ASSUME TypeOK, CallerInv, AloneInv, NEW h \in Helpers, HelperRuns(h)
  PROVE  AloneInv'
  <1> SUFFICES ASSUME alone, op \in {"status", "ensure", "select", "spawn"}
               PROVE  AloneInv'
    BY DEF HelperRuns, AloneInv
  <1>1. /\ h = current /\ reply = "none" /\ at[h] # "none"
        /\ op \in {"status", "ensure"} /\ UNCHANGED <<op, alone>>
        /\ \A g \in Helpers : g # h => at[g] = "none"
    <2>1. at[h] # "none" /\ UNCHANGED <<op, alone>>
      BY DEF HelperRuns, HelperStep, Authorized, Status, Inspect, Unload, Load, Appear, Check
    <2>2. QED
      BY <2>1, HelperAssumption DEF AloneInv, CallerInv
  <1> DEFINE Answered(r) == at' = [at EXCEPT ![h] = "none"] /\ reply' = r
  <1> DEFINE Goes(step)  == at' = [at EXCEPT ![h] = step] /\ UNCHANGED <<current, reply>>
  <1>2. ASSUME NEW r, Answered(r), r = "ok" => Ready' PROVE AloneInv'
    <2>1. \A g \in Helpers : at'[g] = "none"
      BY <1>1, <1>2 DEF TypeOK, HelperTypeOK
    <2>2. QED
      BY <1>1, <1>2, <2>1 DEF AloneInv
  <1>3. ASSUME NEW step, Goes(step), step = "check" => device' PROVE AloneInv'
    <2>1. \A g \in Helpers : /\ at'[g] # "none" => g = h
                            /\ at'[g] = "check" => device'
      BY <1>1, <1>3 DEF TypeOK, HelperTypeOK
    <2>2. QED
      BY <1>1, <1>3, <2>1 DEF AloneInv
  <1> HIDE DEF Answered, Goes
  <1>4. CASE Authorized(h)
    BY <1>1, <1>2, <1>3, <1>4 DEF Authorized, GoTo, Answer, Answered, Goes
  <1>5. CASE Status(h)
    BY <1>1, <1>2, <1>5 DEF Status, Answer, Answered, kernel, Ready, RequiresReload
  <1>6. CASE Inspect(h)
    BY <1>1, <1>2, <1>3, <1>6
       DEF Inspect, Reload, Answer, Answered, Goes, kernel, Ready, RequiresReload
  <1>7. CASE Unload(h)
    <2>1. Goes("load")
      BY <1>7 DEF Unload, GoTo, Goes
    <2>2. QED
      BY <1>3, <2>1
  <1>8. CASE Load(h)
    BY <1>1, <1>2, <1>3, <1>8 DEF Load, GoTo, Answer, Answered, Goes
  <1>9. CASE Appear(h)
    BY <1>1, <1>2, <1>3, <1>9 DEF Appear, GoTo, Answer, Answered, Goes, kernel
  <1>10. CASE Check(h)
    <2>1. device
      BY <1>1, <1>10 DEF Check, AloneInv
    <2>2. QED
      BY <1>1, <1>2, <1>10, <2>1 DEF Check, Answer, Answered, kernel, Ready, RequiresReload
  <1>11. QED
    BY <1>4, <1>5, <1>6, <1>7, <1>8, <1>9, <1>10 DEF HelperRuns, HelperStep

\* A call that begins when no helper is at work leaves its own alone.
LEMMA CallAlone ==
  ASSUME TypeOK, NEW action, NEW a, CallBegin(action, a),
         \A h \in Helpers : at[h] = "none", op' \in {"status", "ensure"}
  PROVE  AloneInv'
  <1>1. PICK h \in Helpers :
          /\ at' = [at EXCEPT ![h] = IF action = "status" THEN "promptStatus" ELSE "promptReload"]
          /\ current' = h /\ reply' = "none"
    BY FreeOnes DEF CallBegin
  <1>2. \A g \in Helpers : /\ at'[g] # "none" => g = h
                          /\ at'[g] # "check"
    BY <1>1 DEF TypeOK, HelperTypeOK
  <1>3. QED
    BY <1>1, <1>2 DEF AloneInv

\* No step unmakes the device of a start that began alone.
LEMMA AloneStep ==
  TypeOK /\ CallerInv /\ AloneInv /\ [Next]_vars => AloneInv'
  <1> SUFFICES ASSUME TypeOK, CallerInv, AloneInv, [Next]_vars,
                      alone', op' \in {"status", "ensure", "select", "spawn"}
               PROVE  AloneInv'
    BY DEF AloneInv
<1>1. ASSUME StartBegin PROVE AloneInv'
  BY <1>1, CallAlone DEF StartBegin
<1>2. ASSUME StatusReturns PROVE AloneInv'
  <2>1. alone /\ op = "status"
    BY <1>2 DEF StatusReturns, KeepSupervisor, KeepAlone
  <2>2. CASE CallReturns("ok") /\ SessionStart
    BY <2>1, <2>2 DEF CallReturns, SessionStart, kernel, helpers, AloneInv, Ready, RequiresReload
  <2>3. CASE reply = "stale" /\ CallBegin("reload", NoForce) /\ op' = "ensure"
    <3>1. \A h \in Helpers : at[h] = "none"
      BY <2>1, <2>3 DEF AloneInv
    <3>2. QED
      BY <2>3, <3>1, CallAlone
  <2>4. QED
    BY <1>2, <2>2, <2>3 DEF StatusReturns
<1>3. ASSUME EnsureReturns PROVE AloneInv'
  <2>1. alone /\ op = "ensure"
    BY <1>3 DEF EnsureReturns, KeepSupervisor, KeepAlone
  <2>2. CallReturns("ok") /\ SessionStart
    BY <1>3 DEF EnsureReturns
  <2>3. QED
    BY <2>1, <2>2 DEF CallReturns, SessionStart, kernel, helpers, AloneInv, Ready, RequiresReload
<1>4. ASSUME Selected PROVE AloneInv'
  BY <1>4 DEF Selected, KeepAlone, helpers, AloneInv, Ready, RequiresReload
<1>5. ASSUME Launched PROVE AloneInv'
  BY <1>5 DEF Launched
<1>6. ASSUME StopBegin PROVE AloneInv'
  BY <1>6 DEF StopBegin
<1>7. ASSUME ResetBegin PROVE AloneInv'
  BY <1>7 DEF ResetBegin
<1>8. ASSUME GraceEnds PROVE AloneInv'
  <2>1. op' \in {op, "idle"} /\ op \in {"stopping", "resetting"}
    BY <1>8 DEF GraceEnds
  <2>2. QED
    BY <2>1
<1>9. ASSUME Stopped PROVE AloneInv'
  BY <1>9 DEF Stopped
<1>10. ASSUME ReloadBegin PROVE AloneInv'
  BY <1>10 DEF ReloadBegin
<1>11. ASSUME ReloadReturns PROVE AloneInv'
  BY <1>11 DEF ReloadReturns
<1>12. ASSUME TimedOut PROVE AloneInv'
  BY <1>12 DEF TimedOut
<1>13. ASSUME StopAll PROVE AloneInv'
  BY <1>13 DEF StopAll, v4l2, kernel, helpers, AloneInv, Ready, RequiresReload
<1>14. ASSUME NEW p \in Pids, ScrcpyExits(p) PROVE AloneInv'
  BY <1>14 DEF ScrcpyExits, helpers, AloneInv, Ready, RequiresReload
<1>15. ASSUME NEW h \in Helpers, HelperRuns(h) PROVE AloneInv'
  BY <1>15, HelperAlone
<1>16. ASSUME NodeAppears PROVE AloneInv'
  BY <1>16 DEF NodeAppears, DeviceAppears, helpers, AloneInv, Ready,
     RequiresReload
<1>17. ASSUME AppOpens PROVE AloneInv'
  BY <1>17 DEF AppOpens, helpers, AloneInv, Ready, RequiresReload
<1>18. ASSUME AppCloses PROVE AloneInv'
  BY <1>18 DEF AppCloses, helpers, AloneInv, Ready, RequiresReload
<1>19. CASE UNCHANGED vars
  BY <1>19 DEF vars, v4l2, kernel, helpers, AloneInv, Ready, RequiresReload
<1>20. QED
  BY <1>1, <1>2, <1>3, <1>4, <1>5, <1>6, <1>7, <1>8, <1>9, <1>10, <1>11,
     <1>12, <1>13, <1>14, <1>15, <1>16, <1>17, <1>18, <1>19
     DEF Next, Begin, Continue
-----------------------------------------------------------------------------
(* Theorems.                                                               *)

\* The inductive invariant is one ...
LEMMA InvStep == IInv /\ [Next]_vars => IInv'
  BY TypeStep, CallerStep, ProcessStep, UsersStep, AloneStep DEF IInv

\* ... and holds in every reachable state.
LEMMA Invariant == Spec => []IInv
  <1>1. QED BY InvInit, InvStep, PTL DEF Spec

\* Every variable keeps its type.
THEOREM TypeCorrect == Spec => []TypeOK
  <1>1. IInv => TypeOK
    BY DEF IInv
  <1>2. QED
    BY <1>1, Invariant, PTL

\* Before a shutdown no camera process that was sent no signal is out of
\* reach of the next stop.
THEOREM TrackedAlways == Spec => []Tracked
  <1>1. IInv => Tracked
    BY DEF IInv, ProcessInv, Kept, Tracked
  <1>2. QED
    BY <1>1, Invariant, PTL

\* From Python 3.11 on, two camera processes share the device only if one of
\* them survived SIGKILL.
THEOREM OneWriterAlways == Spec => []OneWriter
  <1>1. ASSUME IInv, newPython, shutdown = "no",
               NEW p \in users \cap Pids, NEW q \in users \cap Pids, p # q,
               leader[p] # "killed", leader[q] # "killed"
        PROVE  FALSE
    <2>1. Kept(p) /\ Kept(q)
      BY <1>1 DEF IInv, UsersInv, Alive, Kept
    <2>2. /\ entry = p \/ (op = "spawn" /\ seen[Manager] = p)
          /\ entry = q \/ (op = "spawn" /\ seen[Manager] = q)
          /\ op = "spawn" => entry = NoPid
      BY <1>1, <2>1 DEF IInv, ProcessInv
    <2>3. QED
      BY <1>1, <2>2, SupervisorAssumption
  <1>2. IInv => OneWriter
    BY <1>1 DEF OneWriter
  <1>3. QED
    BY <1>2, Invariant, PTL

\* From Python 3.11 on, the reload after a stop finds the device held by no
\* camera process but one that survived SIGKILL.
THEOREM OwnCameraGoneAlways == Spec => []OwnCameraGone
  <1>1. ASSUME IInv, newPython, shutdown = "no", op = "reload",
               NEW p \in users \cap Pids, leader[p] # "killed"
        PROVE  FALSE
    <2>1. Kept(p)
      BY <1>1 DEF IInv, UsersInv, Alive, Kept
    <2>2. entry = p /\ ~Running
      BY <1>1, <2>1 DEF IInv, ProcessInv
    <2>3. QED
      BY <2>1, <2>2, SupervisorAssumption DEF Running, Kept
  <1>2. IInv => OwnCameraGone
    BY <1>1 DEF OwnCameraGone
  <1>3. QED
    BY <1>2, Invariant, PTL

\* A start that began with no helper at work launches the camera on a device
\* that exists and has AVream's parameters.
THEOREM LaunchedReady == Spec => []LaunchedOnReady
  <1>1. IInv => LaunchedOnReady
    BY DEF IInv, AloneInv, LaunchedOnReady
  <1>2. QED
    BY <1>1, Invariant, PTL
-----------------------------------------------------------------------------
(* What an operation waits for.                                            *)

\* The answers that an operation knows to deal with where it is.
Expected ==
  CASE op = "status" -> {"ok", "stale", "error"}
    [] op \in {"ensure", "reload"} -> {"ok", "busy", "error"}
    [] OTHER -> {}

\* The helper a call waits for is at work on that call, also when helpers of
\* earlier calls are still alive.
AnswerInv ==
  /\ current # NoHelper <=> op \in {"status", "ensure", "reload"}
  /\ reply \in Expected \cup {"none"}
  /\ current # NoHelper => (reply = "none" <=> at[current] # "none")
  /\ current # NoHelper /\ reply = "none" =>
       (op = "status" <=> at[current] \in {"promptStatus", "status"})

\* A call that begins is at work, and no earlier answer is taken for its own.
LEMMA CallAnswers ==
  ASSUME TypeOK, NEW action \in {"status", "reload"}, NEW a, CallBegin(action, a),
         op' \in {"status", "ensure", "reload"}, op' = "status" <=> action = "status"
  PROVE  AnswerInv'
  <1>1. PICK h \in Helpers :
          /\ at' = [at EXCEPT ![h] = IF action = "status" THEN "promptStatus" ELSE "promptReload"]
          /\ current' = h /\ reply' = "none"
    BY FreeOnes DEF CallBegin
  <1>2. at'[h] = IF action = "status" THEN "promptStatus" ELSE "promptReload"
    BY <1>1 DEF TypeOK, HelperTypeOK
  <1>3. QED
    BY <1>1, <1>2, HelperAssumption DEF AnswerInv, Expected

\* A helper's step answers the call it was made for, or none.
LEMMA HelperAnswers ==
  ASSUME TypeOK, AnswerInv, NEW h \in Helpers, HelperRuns(h)
  PROVE  AnswerInv'
  <1>0. UNCHANGED op /\ at \in [Helpers -> Steps]
    BY DEF HelperRuns, TypeOK, HelperTypeOK
  <1> DEFINE Answers(r) == /\ at' = [at EXCEPT ![h] = "none"]
                           /\ reply' = IF h = current THEN r ELSE reply
                           /\ UNCHANGED current
             Goes(step) == at' = [at EXCEPT ![h] = step] /\ UNCHANGED <<current, reply>>
             forStatus == at[h] \in {"promptStatus", "status"}
  <1>1. ASSUME NEW r, Answers(r), at[h] # "none",
               r \in IF forStatus THEN {"ok", "stale", "error"} ELSE {"ok", "busy", "error"}
        PROVE  AnswerInv'
    <2>1. \A g \in Helpers : at'[g] = IF g = h THEN "none" ELSE at[g]
      BY <1>0, <1>1
    <2>2. CASE h = current /\ reply = "none"
      BY <1>0, <1>1, <2>2, HelperAssumption DEF AnswerInv, Expected
    <2>3. CASE h # current
      BY <1>0, <1>1, <2>1, <2>3 DEF AnswerInv, Expected, TypeOK, HelperTypeOK
    <2>4. CASE h = current /\ reply # "none"
      BY <1>0, <1>1, <2>4, HelperAssumption DEF AnswerInv, Expected
    <2>5. QED
      BY <2>2, <2>3, <2>4
  <1>2. ASSUME NEW step \in Steps \ {"none"}, Goes(step), at[h] # "none",
               step \in {"promptStatus", "status"} <=> forStatus
        PROVE  AnswerInv'
    <2>1. \A g \in Helpers : at'[g] = IF g = h THEN step ELSE at[g]
      BY <1>0, <1>2
    <2>2. QED
      BY <1>0, <1>2, <2>1 DEF AnswerInv, Expected, TypeOK, HelperTypeOK
  <1>3. CASE Authorized(h)
    <2>1. CASE GoTo(h, IF at[h] = "promptStatus" THEN "status" ELSE "inspect")
      BY <1>2, <1>3, <2>1 DEF Authorized, GoTo, Steps
    <2>2. CASE Answer(h, "error")
      BY <1>1, <1>3, <2>2 DEF Authorized, Answer
    <2>3. QED
      BY <1>3, <2>1, <2>2 DEF Authorized
  <1>4. CASE Status(h)
    BY <1>1, <1>4 DEF Status, Answer
  <1>5. CASE Inspect(h)
    <2>1. /\ at[h] = "inspect"
          /\ Reload(h) \/ \E r \in {"ok", "busy", "error"} : Answer(h, r)
      BY <1>5 DEF Inspect
    <2>2. CASE Reload(h)
      BY <1>2, <2>1, <2>2 DEF Reload, Steps
    <2>3. CASE \E r \in {"ok", "busy", "error"} : Answer(h, r)
      BY <1>1, <2>1, <2>3 DEF Answer
    <2>4. QED
      BY <2>1, <2>2, <2>3
  <1>6. CASE Unload(h)
    BY <1>2, <1>6 DEF Unload, GoTo, Steps
  <1>7. CASE Load(h)
    <2>1. at[h] = "load" /\ (GoTo(h, "appear") \/ Answer(h, "error"))
      BY <1>7 DEF Load
    <2>2. CASE GoTo(h, "appear")
      BY <1>2, <2>1, <2>2 DEF GoTo, Steps
    <2>3. CASE Answer(h, "error")
      BY <1>1, <2>1, <2>3 DEF Answer
    <2>4. QED
      BY <2>1, <2>2, <2>3
  <1>8. CASE Appear(h)
    <2>1. at[h] = "appear" /\ (GoTo(h, "check") \/ Answer(h, "error"))
      BY <1>8 DEF Appear
    <2>2. CASE GoTo(h, "check")
      BY <1>2, <2>1, <2>2 DEF GoTo, Steps
    <2>3. CASE Answer(h, "error")
      BY <1>1, <2>1, <2>3 DEF Answer
    <2>4. QED
      BY <2>1, <2>2, <2>3
  <1>9. CASE Check(h)
    BY <1>1, <1>9 DEF Check, Answer
  <1>10. QED
    BY <1>3, <1>4, <1>5, <1>6, <1>7, <1>8, <1>9 DEF HelperRuns, HelperStep

\* No answer comes late, to the wrong call or twice.
LEMMA AnswerStep == TypeOK /\ CallerInv /\ AnswerInv /\ [Next]_vars => AnswerInv'
  <1> SUFFICES ASSUME TypeOK, CallerInv, AnswerInv, [Next]_vars PROVE AnswerInv'
    OBVIOUS
<1>1. ASSUME StartBegin PROVE AnswerInv'
  BY <1>1, CallAnswers DEF StartBegin
<1>2. ASSUME StatusReturns PROVE AnswerInv'
  <2>1. CASE reply = "stale" /\ CallBegin("reload", NoForce) /\ op' = "ensure"
    BY <2>1, CallAnswers
  <2>2. CASE \E r \in {"ok", "error"} : CallReturns(r) /\ op' \in {"idle", "select"}
    BY <2>2 DEF CallReturns, AnswerInv, Expected
  <2>3. QED
    BY <1>2, <2>1, <2>2 DEF StatusReturns, SessionStart
<1>3. ASSUME EnsureReturns PROVE AnswerInv'
  BY <1>3 DEF EnsureReturns, SessionStart, CallReturns, AnswerInv, Expected
<1>4. ASSUME Selected PROVE AnswerInv'
  BY <1>4 DEF Selected, helpers, AnswerInv, Expected
<1>5. ASSUME Launched PROVE AnswerInv'
  BY <1>5 DEF Launched, KeepHelper, v4l2, helpers, AnswerInv, Expected
<1>6. ASSUME StopBegin PROVE AnswerInv'
  BY <1>6 DEF StopBegin, KeepHelper, v4l2, helpers, AnswerInv, Expected
<1>7. ASSUME ResetBegin PROVE AnswerInv'
  <2>1. CASE op' = "resetting" /\ UNCHANGED v4l2
    BY <1>7, <2>1 DEF ResetBegin, v4l2, helpers, AnswerInv, Expected
  <2>2. ASSUME NEW a, CallBegin("reload", a), op' = "reload" PROVE AnswerInv'
    BY <2>2, CallAnswers
  <2>3. QED
    BY <1>7, <2>1, <2>2 DEF ResetBegin
<1>8. ASSUME GraceEnds PROVE AnswerInv'
  BY <1>8 DEF GraceEnds, KeepHelper, v4l2, helpers, AnswerInv, Expected
<1>9. ASSUME Stopped PROVE AnswerInv'
  BY <1>9 DEF Stopped, KeepHelper, v4l2, helpers, AnswerInv, Expected
<1>10. ASSUME ReloadBegin PROVE AnswerInv'
  <2>1. PICK a : CallBegin("reload", a)
    BY <1>10 DEF ReloadBegin
  <2>2. QED
    BY <1>10, <2>1, CallAnswers DEF ReloadBegin
<1>11. ASSUME ReloadReturns PROVE AnswerInv'
  BY <1>11 DEF ReloadReturns, CallReturns, AnswerInv, Expected
<1>12. ASSUME TimedOut PROVE AnswerInv'
  BY <1>12 DEF TimedOut, CallTimesOut, AnswerInv, Expected
<1>13. ASSUME StopAll PROVE AnswerInv'
  BY <1>13 DEF StopAll, v4l2, helpers, AnswerInv, Expected
<1>14. ASSUME NEW p \in Pids, ScrcpyExits(p) PROVE AnswerInv'
  BY <1>14 DEF ScrcpyExits, helpers, AnswerInv, Expected
<1>15. ASSUME NEW h \in Helpers, HelperRuns(h) PROVE AnswerInv'
  BY <1>15, HelperAnswers
<1>16. ASSUME NodeAppears PROVE AnswerInv'
  BY <1>16 DEF NodeAppears, DeviceAppears, helpers, AnswerInv, Expected
<1>17. ASSUME AppOpens PROVE AnswerInv'
  BY <1>17 DEF AppOpens, helpers, AnswerInv, Expected
<1>18. ASSUME AppCloses PROVE AnswerInv'
  BY <1>18 DEF AppCloses, helpers, AnswerInv, Expected
<1>19. CASE UNCHANGED vars
  BY <1>19 DEF vars, v4l2, helpers, AnswerInv, Expected
<1>20. QED
  BY <1>1, <1>2, <1>3, <1>4, <1>5, <1>6, <1>7, <1>8, <1>9, <1>10, <1>11,
     <1>12, <1>13, <1>14, <1>15, <1>16, <1>17, <1>18, <1>19
     DEF Next, Begin, Continue

\* An operation that waits for the helper waits for a call that can be answered
\* or time out, and the answer it is given is one it handles and was made for
\* that call: the answer of a helper whose call had timed out is never taken
\* for another's.
AnswersFit ==
  /\ op \in {"status", "ensure", "reload"} => current \in Helpers
  /\ reply # "none" => reply \in Expected

THEOREM AnswersFitAlways == Spec => []AnswersFit
  <1> DEFINE Inv == IInv /\ AnswerInv
  <1>1. Init => Inv
    BY InvInit DEF Init, HelperInit, AnswerInv, Expected
  <1>2. Inv /\ [Next]_vars => Inv'
    BY InvStep, AnswerStep DEF IInv
  <1>3. Inv => AnswersFit
    BY DEF IInv, TypeOK, HelperTypeOK, AnswerInv, AnswersFit
  <1> HIDE DEF Inv
  <1>4. QED
    BY <1>1, <1>2, <1>3, PTL DEF Spec

\* The waits an operation, and the stop of a shutdown, have left at most.
OpLeft ==
  CASE op = "status" -> 4
    [] op = "ensure" -> 3
    [] op \in {"stopping", "resetting"} -> IF sup[Manager] = "grace" THEN 4 ELSE 3
    [] op \in {"select", "stopped", "resetCall"} -> 2
    [] op \in {"spawn", "reload"} -> 1
    [] op = "idle" -> 0

StopLeft ==
  IF shutdown = "begun" THEN IF sup[Stopper] = "grace" THEN 2 ELSE 1 ELSE 0

\* A step of the operation or of the shutdown leaves it with fewer, and none of
\* another one sends it back.
Advances ==
  /\ Continue => OpLeft' < OpLeft
  /\ ~Begin /\ ~Continue => OpLeft' = OpLeft
  /\ StopAll => shutdown # "begun" \/ StopLeft' < StopLeft
  /\ ~StopAll => StopLeft' = StopLeft

LEMMA StepAdvances == IInv /\ [Next]_vars => [Advances]_vars
  <1> SUFFICES ASSUME IInv, Next PROVE Advances
    BY DEF vars
  <1>a. Callers = {Manager, Stopper} /\ Manager # Stopper
    BY DeviceAssumption
  <1>b. sup \in [Callers -> {"idle", "grace", "killing", "spawning"}]
        /\ (op \in {"stopping", "resetting"} <=> sup[Manager] \in {"grace", "killing"})
        /\ (shutdown # "begun" => sup[Stopper] = "idle")
    BY DEF IInv, TypeOK, SupervisorTypeOK, CallerInv
  <1>1. ASSUME Continue PROVE OpLeft' < OpLeft /\ StopLeft' = StopLeft
    <2>1. ASSUME UNCHANGED <<supervisor, shutdown>> PROVE StopLeft' = StopLeft
      BY <2>1 DEF StopLeft, supervisor
    <2>2. CASE StatusReturns
      BY <2>1, <2>2 DEF StatusReturns, SessionStart, KeepSupervisor, OpLeft
    <2>3. CASE EnsureReturns
      BY <2>1, <2>3 DEF EnsureReturns, SessionStart, KeepSupervisor, OpLeft
    <2>4. CASE Selected
      BY <1>a, <1>b, <2>4
         DEF Selected, Spawn, StopReturns, supervisor, OpLeft, StopLeft
    <2>5. CASE Launched
      BY <1>a, <1>b, <2>5 DEF Launched, Spawned, KeepHelper, OpLeft, StopLeft
    <2>6. CASE GraceEnds
      BY <1>a, <1>b, <2>6
         DEF GraceEnds, Kill, StopRaises, GraceOver, KeepHelper, OpLeft, StopLeft
    <2>7. CASE Stopped
      BY <1>a, <1>b, <2>7 DEF Stopped, StopReturns, KeepHelper, OpLeft, StopLeft
    <2>8. CASE ReloadBegin
      BY <2>1, <2>8 DEF ReloadBegin, KeepSupervisor, OpLeft
    <2>9. CASE ReloadReturns
      BY <2>1, <2>9 DEF ReloadReturns, KeepSupervisor, OpLeft
    <2>10. CASE TimedOut
      <3>1. op \in {"status", "ensure", "reload"} /\ op' = "idle"
        BY <2>10 DEF TimedOut, CallTimesOut, IInv, CallerInv
      <3>2. QED
        BY <2>1, <2>10, <3>1 DEF TimedOut, KeepSupervisor, OpLeft
    <2>11. QED
      BY <1>1, <2>2, <2>3, <2>4, <2>5, <2>6, <2>7, <2>8, <2>9, <2>10 DEF Continue
  <1>2. ASSUME Begin PROVE StopLeft' = StopLeft
    BY <1>2, <1>a, <1>b
       DEF Begin, StartBegin, StopBegin, ResetBegin, StopReturns, Terminate,
           KeepHelper, supervisor, StopLeft
  <1>3. ASSUME StopAll
        PROVE  OpLeft' = OpLeft /\ (shutdown # "begun" \/ StopLeft' < StopLeft)
    BY <1>3, <1>a, <1>b
       DEF StopAll, StopReturns, Terminate, Kill, StopRaises, GraceOver, OpLeft, StopLeft
  <1>4. ASSUME UNCHANGED <<op, sup, shutdown>>
        PROVE  OpLeft' = OpLeft /\ StopLeft' = StopLeft
    BY <1>4 DEF OpLeft, StopLeft
  <1>5. ASSUME ~Begin, ~Continue, ~StopAll PROVE UNCHANGED <<op, sup, shutdown>>
    BY <1>5
       DEF Next, ScrcpyExits, LeaderExits, HelperRuns, NodeAppears, AppOpens,
           AppCloses, supervisor
  <1>6. QED
    BY <1>1, <1>2, <1>3, <1>4, <1>5 DEF Advances

\* An operation ends after at most four waits after its first, the stop of a
\* shutdown after at most two: the part of OperationsEnd that needs no fairness.
\* Neither a scrcpy that ignores its signals nor late helpers, applications or
\* the other of the two make it start over.
THEOREM OperationsAdvance ==
  Spec => [][Advances]_vars /\ [](OpLeft \in 0 .. 4 /\ StopLeft \in 0 .. 2)
  <1>1. IInv => OpLeft \in 0 .. 4 /\ StopLeft \in 0 .. 2
    BY DEF IInv, TypeOK, OpLeft, StopLeft
  <1>2. QED
    BY <1>1, StepAdvances, Invariant, PTL DEF Spec
=============================================================================
