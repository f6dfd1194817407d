-------------------------- MODULE ProcessSupervisor --------------------------
(***************************************************************************)
(* ProcessSupervisor: the one entry "video" of _processes, the scrcpy      *)
(* processes it started, and the calls of start(), stop() and stop_all().  *)
(*                                                                         *)
(* A stop has three ways to go, which a caller composes with what it does  *)
(* next in the same step: it returns, it waits (for the process to obey    *)
(* SIGTERM, then SIGKILL), or, before Python 3.11, it raises the timeout   *)
(* that `except TimeoutError` does not catch.  A process that received     *)
(* SIGKILL may still take longer to die than kill_timeout.                 *)
(*                                                                         *)
(* Not modelled: log files, exit codes, children of scrcpy.                *)
(***************************************************************************)
EXTENDS Naturals

CONSTANTS
  Callers, \* tasks that call the supervisor
  Pids,    \* process identities; that of a process long gone is used again
  NoPid    \* no process

ASSUME SupervisorAssumption == NoPid \notin Pids

VARIABLES
  entry,    \* _processes["video"]
  leader,   \* of each process: what became of it
  sup,      \* where each caller is suspended
  seen,     \* the process it waits for, to end or to be there
  newPython \* 3.11 or later: asyncio.TimeoutError is TimeoutError

supervisor == <<entry, leader, sup, seen, newPython>>

LeaderStates == {"running", "termed", "killed", "exited"}

Alive(p) == leader[p] \in {"running", "termed", "killed"}

\* running(): the entry's process has no return code.
Running == entry # NoPid /\ leader[entry] # "exited"

SupervisorInit ==
  /\ entry = NoPid /\ leader = [p \in Pids |-> "exited"]
  /\ sup = [c \in Callers |-> "idle"] /\ seen = [c \in Callers |-> NoPid]
  /\ newPython \in BOOLEAN

\* The process a caller waits for is gone: the caller runs before anything
\* that takes the event loop another round.
Woken(c) == sup[c] \in {"grace", "killing"} /\ leader[seen[c]] = "exited"

\* Mutant: the process is not waited for.
StopReturns_Hastily(c) ==
  /\ \/ sup[c] = "idle" /\ ~Running
     \/ sup[c] = "grace" /\ newPython
     \/ Woken(c)
     \/ sup[c] = "killing"
  /\ entry' = NoPid
  /\ sup' = [sup EXCEPT ![c] = "idle"]
  /\ seen' = [seen EXCEPT ![c] = NoPid]
  /\ UNCHANGED <<leader, newPython>>

\* stop() returns and its caller goes on: at once when nothing runs, or when
\* the process has died, or kill_timeout is over.  It drops the entry of the
\* name, whichever process that is by now.
StopReturns(c) ==
  /\ \/ sup[c] = "idle" /\ ~Running
     \/ Woken(c)
     \/ sup[c] = "killing"
  /\ entry' = NoPid
  /\ sup' = [sup EXCEPT ![c] = "idle"]
  /\ seen' = [seen EXCEPT ![c] = NoPid]
  /\ UNCHANGED <<leader, newPython>>

\* SIGTERM to the process group and graceful_timeout to obey it.
Terminate(c) ==
  /\ sup[c] = "idle" /\ Running
  /\ leader' = [leader EXCEPT ![entry] = IF @ = "running" THEN "termed" ELSE @]
  /\ sup' = [sup EXCEPT ![c] = "grace"]
  /\ seen' = [seen EXCEPT ![c] = entry]
  /\ UNCHANGED <<entry, newPython>>

GraceOver(c) == sup[c] = "grace" /\ ~Woken(c)

\* Mutant: no SIGKILL is sent.
Kill_NoSignal(c) ==
  /\ GraceOver(c) /\ newPython
  /\ sup' = [sup EXCEPT ![c] = "killing"]
  /\ UNCHANGED <<entry, leader, seen, newPython>>

\* SIGKILL to the group and kill_timeout to die.
Kill(c) ==
  /\ GraceOver(c) /\ newPython
  /\ leader' = [leader EXCEPT ![seen[c]] = "killed"]
  /\ sup' = [sup EXCEPT ![c] = "killing"]
  /\ UNCHANGED <<entry, seen, newPython>>

\* Before 3.11: no SIGKILL, the entry is dropped and the timeout raised.
StopRaises(c) ==
  /\ GraceOver(c) /\ ~newPython
  /\ entry' = NoPid
  /\ sup' = [sup EXCEPT ![c] = "idle"]
  /\ seen' = [seen EXCEPT ![c] = NoPid]
  /\ UNCHANGED <<leader, newPython>>

\* An identity nobody refers to; which one makes no difference.
FreePid ==
  LET free == {p \in Pids : ~Alive(p) /\ \A d \in Callers : seen[d] # p} IN
  IF free = {} THEN {} ELSE {CHOOSE p \in free : TRUE}

\* start(), its own stop() done: the process is created, which the event
\* loop takes a while to notice.
Spawn(c, p) ==
  /\ sup[c] = "idle" /\ ~Running
  /\ p \in FreePid
  /\ entry' = NoPid
  /\ leader' = [leader EXCEPT ![p] = "running"]
  /\ sup' = [sup EXCEPT ![c] = "spawning"]
  /\ seen' = [seen EXCEPT ![c] = p]
  /\ UNCHANGED newPython

\* Mutant: the new process is not recorded.
Spawned_Unrecorded(c) ==
  /\ sup[c] = "spawning" /\ \A d \in Callers : ~Woken(d)
  /\ sup' = [sup EXCEPT ![c] = "idle"]
  /\ seen' = [seen EXCEPT ![c] = NoPid]
  /\ UNCHANGED <<entry, leader, newPython>>

\* The end of start(): the new process becomes the entry.
Spawned(c) ==
  /\ sup[c] = "spawning" /\ \A d \in Callers : ~Woken(d)
  /\ entry' = seen[c]
  /\ sup' = [sup EXCEPT ![c] = "idle"]
  /\ seen' = [seen EXCEPT ![c] = NoPid]
  /\ UNCHANGED <<leader, newPython>>

\* A process ends, of itself or of a signal.
LeaderExits(p) ==
  /\ Alive(p)
  /\ leader' = [leader EXCEPT ![p] = "exited"]
  /\ UNCHANGED <<entry, sup, seen, newPython>>

SupervisorTypeOK ==
  /\ entry \in Pids \cup {NoPid}
  /\ leader \in [Pids -> LeaderStates]
  /\ sup \in [Callers -> {"idle", "grace", "killing", "spawning"}]
  /\ seen \in [Callers -> Pids \cup {NoPid}]
  /\ newPython \in BOOLEAN
=============================================================================
