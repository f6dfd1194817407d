---------------------------- MODULE CameraDevice ----------------------------
(***************************************************************************)
(* The supervisor and the helper as the daemon uses them: the operations   *)
(* of VideoManager, one at a time under its lock, stop_all() of the        *)
(* shutdown, which takes no lock, and the applications and the scrcpy      *)
(* processes that have the virtual camera open.                            *)
(*                                                                         *)
(* VideoManager says when an operation is called; here any of them may be  *)
(* called whenever the lock is free, also after the shutdown began, as     *)
(* handlers and the reconnect task are still alive then.                   *)
(***************************************************************************)
EXTENDS ProcessSupervisor, V4l2Helper

CONSTANTS
  Manager, \* the operation that holds the manager lock
  Stopper  \* AvreamDaemon.stop()

ASSUME DeviceAssumption ==
  Callers = {Manager, Stopper} /\ Manager # Stopper /\ "app" \notin Pids

VARIABLES
  op,      \* what the operation in progress waits for
  alone,   \* history: no earlier helper was at work when the last start began
  shutdown \* "no", "begun", "over": stop_all()

vars == <<supervisor, v4l2, op, alone, shutdown>>

Init ==
  /\ SupervisorInit /\ HelperInit
  /\ op = "idle" /\ alone = TRUE /\ shutdown = "no"

NoForce  == [force |-> FALSE, always |-> FALSE]
AfterStop == [force |-> FALSE, always |-> TRUE]

\* `alone` is about the start in progress.
KeepAlone == alone' = (alone \/ op' = "idle")

KeepSupervisor == KeepAlone /\ UNCHANGED <<supervisor, shutdown>>
KeepHelper     == KeepAlone /\ UNCHANGED <<v4l2, shutdown>>

-----------------------------------------------------------------------------
(* start(), by a user or by the reconnect task.                            *)

StartBegin ==
  /\ op = "idle"
  /\ CallBegin("status", NoArgs)
  /\ op' = "status"
  /\ alone' = \A h \in Helpers : at[h] = "none"
  /\ UNCHANGED <<supervisor, shutdown>>

\* The session is asked to start and finds its camera running, or goes on.
SessionStart == op' = IF Running THEN "idle" ELSE "select"

\* ensure_ready(): the status says whether a reload is required.
StatusReturns ==
  /\ op = "status"
  /\ \/ CallReturns("ok") /\ SessionStart
     \/ reply = "stale" /\ CallBegin("reload", NoForce) /\ op' = "ensure"
     \/ CallReturns("error") /\ op' = "idle"
  /\ KeepSupervisor

EnsureReturns ==
  /\ op = "ensure"
  /\ \/ CallReturns("ok") /\ SessionStart
     \/ reply \in {"busy", "error"} /\ CallReturns(reply) /\ op' = "idle"
  /\ KeepSupervisor

\* adb answered and supervisor.start() creates scrcpy, which opens the device
\* it is given; or no phone is named, or scrcpy cannot be executed.
Selected ==
  /\ op = "select"
  /\ \/ /\ \E p \in Pids : /\ Spawn(Manager, p)
                           /\ users' = IF device THEN users \cup {p} ELSE users
        /\ op' = "spawn"
     \/ /\ op' = "idle"
        /\ UNCHANGED users
        /\ StopReturns(Manager) \/ UNCHANGED supervisor
  /\ KeepAlone
  /\ UNCHANGED <<module, device, helpers, current, reply, shutdown>>

Launched ==
  /\ op = "spawn"
  /\ Spawned(Manager)
  /\ op' = "idle"
  /\ KeepHelper

-----------------------------------------------------------------------------
(* stop() and reset().                                                     *)

\* The process is stopped first; the microphone is next in stop().
StopBegin ==
  /\ op = "idle"
  /\ \/ StopReturns(Manager) /\ op' = "stopped"
     \/ Terminate(Manager) /\ op' = "stopping"
  /\ KeepHelper

ResetBegin ==
  /\ op = "idle"
  /\ \/ Running /\ Terminate(Manager) /\ op' = "resetting" /\ UNCHANGED v4l2
     \/ /\ ~Running /\ UNCHANGED supervisor
        /\ \E f \in BOOLEAN : CallBegin("reload", [force |-> f, always |-> FALSE])
        /\ op' = "reload"
  /\ UNCHANGED <<alone, shutdown>>

\* graceful_timeout: the process is killed, or the operation raises.
GraceEnds ==
  /\ op \in {"stopping", "resetting"}
  /\ \/ Kill(Manager) /\ UNCHANGED op
     \/ StopRaises(Manager) /\ op' = "idle"
  /\ KeepHelper

Stopped ==
  /\ op \in {"stopping", "resetting"}
  /\ StopReturns(Manager)
  /\ op' = IF op = "stopping" THEN "stopped" ELSE "resetCall"
  /\ KeepHelper

\* best_effort_reload_after_stop(), or the reload of a reset.
ReloadBegin ==
  /\ \/ op = "stopped" /\ CallBegin("reload", AfterStop)
     \/ op = "resetCall" /\ \E f \in BOOLEAN :
          CallBegin("reload", [force |-> f, always |-> FALSE])
  /\ op' = "reload"
  /\ KeepSupervisor

ReloadReturns ==
  /\ op = "reload"
  /\ reply # "none" /\ CallReturns(reply)
  /\ op' = "idle"
  /\ KeepSupervisor

\* Mutant: a helper call has no timeout.
TimedOut_Never == FALSE /\ UNCHANGED vars

\* A helper call that times out raises; stop() swallows it.
TimedOut ==
  /\ CallTimesOut(newPython)
  /\ op' = "idle"
  /\ KeepSupervisor

-----------------------------------------------------------------------------
(* The shutdown and the environment.                                       *)

\* stop_all() stops the entry, if there is one.
StopAll ==
  /\ \/ shutdown \in {"no", "begun"} /\ StopReturns(Stopper) /\ shutdown' = "over"
     \/ shutdown = "no" /\ Terminate(Stopper) /\ shutdown' = "begun"
     \/ shutdown = "begun" /\ Kill(Stopper) /\ UNCHANGED shutdown
     \/ shutdown = "begun" /\ StopRaises(Stopper) /\ shutdown' = "over"
  /\ UNCHANGED <<v4l2, op, alone>>

ScrcpyExits(p) ==
  /\ LeaderExits(p)
  /\ users' = users \ {p}
  /\ UNCHANGED <<module, device, helpers, current, reply, op, alone, shutdown>>

AppOpens ==
  /\ device /\ "app" \notin users
  /\ users' = users \cup {"app"}
  /\ UNCHANGED <<supervisor, module, device, helpers, current, reply, op, alone, shutdown>>

AppCloses ==
  /\ "app" \in users
  /\ users' = users \ {"app"}
  /\ UNCHANGED <<supervisor, module, device, helpers, current, reply, op, alone, shutdown>>

HelperRuns(h) == HelperStep(h) /\ UNCHANGED <<supervisor, op, alone, shutdown>>

NodeAppears == DeviceAppears /\ UNCHANGED <<supervisor, op, alone, shutdown>>

-----------------------------------------------------------------------------

Begin == StartBegin \/ StopBegin \/ ResetBegin

Continue ==
  \/ StatusReturns \/ EnsureReturns \/ Selected \/ Launched
  \/ GraceEnds \/ Stopped \/ ReloadBegin \/ ReloadReturns \/ TimedOut

Next ==
  \/ Begin \/ Continue \/ StopAll
  \/ \E p \in Pids : ScrcpyExits(p)
  \/ \E h \in Helpers : HelperRuns(h)
  \/ NodeAppears \/ AppOpens \/ AppCloses

\* Timers fire and ready tasks run; that adb answers is an assumption, its
\* commands have no timeout.  Nothing is assumed of scrcpy, helpers, users or
\* the kernel.
Fairness == WF_vars(Continue) /\ WF_vars(shutdown = "begun" /\ StopAll)

Spec == Init /\ [][Next]_vars
FairSpec == Spec /\ Fairness
-----------------------------------------------------------------------------
(* Properties.                                                             *)

TypeOK ==
  /\ SupervisorTypeOK /\ HelperTypeOK
  /\ users \subseteq Pids \cup {"app"}
  /\ op \in {"idle", "status", "ensure", "select", "spawn", "stopping",
             "resetting", "stopped", "resetCall", "reload"}
  /\ alone \in BOOLEAN
  /\ shutdown \in {"no", "begun", "over"}

\* Before a shutdown a process that was sent no signal is the one the
\* supervisor knows, so that the next stop reaches it, or the one that a
\* start is about to record.
Tracked ==
  shutdown = "no" =>
    \A p \in Pids : leader[p] = "running" =>
      entry = p \/ (op = "spawn" /\ seen[Manager] = p)

\* From Python 3.11 on, a new scrcpy never shares the device with an older
\* one, unless that one survived SIGKILL.
OneWriter ==
  newPython /\ shutdown = "no" =>
    \A p, q \in users \cap Pids : p # q => "killed" \in {leader[p], leader[q]}

\* The reload that follows a stop never finds the device held by the camera
\* it has just stopped, unless that one survived SIGKILL.
OwnCameraGone ==
  newPython /\ shutdown = "no" /\ op = "reload" => \A p \in users \cap Pids : leader[p] = "killed"

\* scrcpy is launched on a device that exists and has AVream's parameters,
\* whoever opens it meanwhile, unless a helper whose call had timed out was
\* still at work.
LaunchedOnReady == op \in {"select", "spawn"} /\ alone => Ready

\* Every operation ends, and so does the stop of a shutdown, though it takes
\* no lock: also with a scrcpy that ignores every signal, helpers that never
\* answer, and both of them waiting for one process.
OperationsEnd ==
  /\ op # "idle" ~> op = "idle"
  /\ shutdown = "begun" ~> shutdown = "over"
=============================================================================
