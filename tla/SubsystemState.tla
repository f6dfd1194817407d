--------------------------- MODULE SubsystemState ---------------------------
(***************************************************************************)
(* The states of a daemon subsystem (video or audio) and the transition    *)
(* table DaemonStateStore enforces.  The store's own asyncio lock guards   *)
(* bodies without an await, so a snapshot or a transition is one step with *)
(* the code around it.                                                     *)
(***************************************************************************)

STOPPED  == "STOPPED"
STARTING == "STARTING"
RUNNING  == "RUNNING"
STOPPING == "STOPPING"
ERROR    == "ERROR"

States == {STOPPED, STARTING, RUNNING, STOPPING, ERROR}

\* VALID_TRANSITIONS: the states each state may be moved to.
ValidTransitions ==
  [s \in States |->
     CASE s = STOPPED  -> {STARTING}
       [] s = STARTING -> {RUNNING, STOPPING, ERROR}
       [] s = RUNNING  -> {STOPPING, ERROR}
       [] s = STOPPING -> {STOPPED, ERROR}
       [] s = ERROR    -> {STOPPED, STARTING}]

\* _transition accepts the move; a move to the current state is a no-op.
Allowed(from, to) == to = from \/ to \in ValidTransitions[from]

\* A transition whose InvalidTransitionError the caller swallows.
TryTransition(from, to) == IF Allowed(from, to) THEN to ELSE from

=============================================================================
