---------------------------- MODULE CameraService ----------------------------
(***************************************************************************)
(* What the daemon promises about the phone camera, without locks, states  *)
(* or reconnect attempts: the camera streams only on behalf of somebody.   *)
(* An owner is a user's start in progress ("user"), the reconnect task     *)
(* that keeps an established camera up ("reconnect") or a stop or reset    *)
(* that is taking it down ("stop").                                        *)
(***************************************************************************)
CONSTANTS Serials, NoSerial

VARIABLES
  camera, \* phone being streamed, or NoSerial
  owners  \* on whose behalf

vars == <<camera, owners>>

Init == camera = NoSerial /\ owners = {}

\* One start or stop at a time is under way.
UserBegins ==
  /\ owners \cap {"user", "stop"} = {}
  /\ owners' = owners \cup {"user"}
  /\ UNCHANGED camera

\* A camera is brought up by a user or by the reconnect task, never during a
\* stop and never over another camera.
Launch ==
  /\ camera = NoSerial
  /\ owners # {} /\ "stop" \notin owners
  /\ camera' \in Serials
  /\ UNCHANGED owners

Lost ==
  /\ camera # NoSerial
  /\ camera' = NoSerial
  /\ UNCHANGED owners

\* The user's camera is up and handed to a fresh reconnect task.
Established ==
  /\ "user" \in owners
  /\ owners' = {"reconnect"}
  /\ UNCHANGED camera

\* A start that fails leaves no camera, or the one that was up before.
UserFails ==
  /\ "user" \in owners
  /\ camera = NoSerial \/ "reconnect" \in owners
  /\ owners' = owners \ {"user"}
  /\ UNCHANGED camera

\* The reconnect task ends only when there is no camera left to keep up, or
\* a user is bringing up another.
ReconnectEnds ==
  /\ "reconnect" \in owners
  /\ camera = NoSerial \/ "user" \in owners
  /\ owners' = owners \ {"reconnect"}
  /\ UNCHANGED camera

StopBegins ==
  /\ owners \cap {"user", "stop"} = {}
  /\ owners' = {"stop"}
  /\ UNCHANGED camera

\* The camera, if it is still up, goes down with the stop.
StopEnds ==
  /\ "stop" \in owners
  /\ owners' = owners \ {"stop"}
  /\ camera' = NoSerial

Next ==
  \/ UserBegins \/ Launch \/ Lost \/ Established \/ UserFails
  \/ ReconnectEnds \/ StopBegins \/ StopEnds

Spec == Init /\ [][Next]_vars

\* No camera streams that nobody asked for.
NoOrphan == camera # NoSerial => owners # {}
=============================================================================
