-------------------------- MODULE MicrophoneService --------------------------
(***************************************************************************)
(* What the daemon promises about the virtual microphone, without backends, *)
(* sound server, state file or tasks: calls take effect one at a time, a   *)
(* stop that is answered leaves the microphone off, and one that is on     *)
(* stays on until somebody asks for a stop.                                *)
(***************************************************************************)
CONSTANTS Clients, Nobody

VARIABLES
  mic,   \* "off", "on", "half" set up, "ending"
  asked, \* what each client waits for: "none", "start", "stop"
  turn   \* whose call is being carried out, or Nobody

vars == <<mic, asked, turn>>

Quiet == [c \in Clients |-> "none"]

Init == mic = "off" /\ asked = Quiet /\ turn = Nobody

Ask(c) ==
  /\ asked[c] = "none"
  /\ \E k \in {"start", "stop"} : asked' = [asked EXCEPT ![c] = k]
  /\ UNCHANGED <<mic, turn>>

\* A start of a microphone that is on, or a stop of one that is off, has
\* nothing to carry out.
Begin(c) ==
  /\ turn = Nobody /\ turn' = c
  /\ \/ asked[c] = "start" /\ mic # "on" /\ mic' = "half"
     \/ asked[c] = "stop" /\ mic # "off" /\ mic' = "ending"
  /\ UNCHANGED asked

\* A start may fail, and then leaves what it had set up to the next call; a
\* stop does not.
Answer(c) ==
  /\ turn \in {c, Nobody} /\ turn' = Nobody
  /\ \/ asked[c] = "stop" /\ mic' = "off"
     \/ asked[c] = "start" /\ mic = "on" /\ mic' = "on"
     \/ asked[c] = "start" /\ mic # "on" /\ mic' = "half"
     \/ asked[c] = "start" /\ turn = c /\ mic' = "on"
  /\ asked' = [asked EXCEPT ![c] = "none"]

\* The daemon ends, and the next one has a microphone that is off.
Dies == mic' = "off" /\ asked' = Quiet /\ turn' = Nobody

Next == Dies \/ \E c \in Clients : Ask(c) \/ Begin(c) \/ Answer(c)

Spec == Init /\ [][Next]_vars

\* Nobody is left behind with a half-made change: while no call is carried
\* out the microphone is on, off, or what a failed start left.
Settled ==
  /\ turn # Nobody => turn \in Clients /\ asked[turn] # "none"
  /\ mic = "ending" => turn # Nobody /\ asked[turn] = "stop"

\* A microphone that is on goes off only for a stop, or with its daemon.
StaysOn ==
  [][mic = "on" /\ mic' # "on" => Dies \/ \E c \in Clients : asked[c] = "stop"]_vars
=============================================================================
