--------------------------- MODULE AndroidDevices ---------------------------
(***************************************************************************)
(* AdbAdapter, the /android routes, the choice of the phone a start makes  *)
(* and the commands of the command line that chain them.                   *)
(*                                                                         *)
(* The adb lock is held for one adb command at a time, so handlers         *)
(* interleave at every command.  An action is a step of a handler: one     *)
(* command, or one look that takes a fixed number of them (the address is  *)
(* asked for by interface, the identity of each serial by property), with  *)
(* the code up to the next.  The phones come and go between any two steps. *)
(***************************************************************************)
EXTENDS Naturals

CONSTANTS
  Phones,   \* phones, each also standing for its serial over USB
  Addrs,    \* Wi-Fi endpoints, which are the serials over Wi-Fi
  Owner,    \* the phone an endpoint belongs to
  Others,   \* requests of the window and of other clients, at once
  Commands, \* requests of the command line the daemon may be handling
  Looks,    \* looks of a polling loop before it gives up
  Dials,    \* attempts of connect_with_retry
  None

ASSUME AdbAssumption ==
  /\ Phones \cap Addrs = {}
  /\ Others \cap Commands = {}
  /\ None \notin Phones \cup Addrs \cup Others \cup Commands
  /\ Owner \in [Addrs -> Phones]
  /\ Looks \in Nat \ {0} /\ Dials \in Nat \ {0}

VARIABLES
  adb,    \* what `adb devices` says of each serial
  camera, \* serial the camera streams, None when it is down
  req,    \* the handler of each request: its next step and its locals
  mine    \* the request the command line waits for

vars == <<adb, camera, req, mine>>

Requests == Others \cup Commands
Serials == Phones \cup Addrs
Listing == [Serials -> {"absent", "offline", "device"}]
PhoneOf(s) == IF s \in Addrs THEN Owner[s] ELSE s
Steps == {"idle", "list", "group", "target", "enable", "tcpip", "address",
          "connect", "dial", "await", "hangup", "select"}

\* list_devices() when adb fails.
Nothing == [s \in Serials |-> "absent"]

\* phone: the one its command was given or chose, None before.
Idle == [at |-> "idle", serial |-> None, addr |-> None, phone |-> None,
         tries |-> 0, list |-> Nothing]

Init ==
  /\ adb = Nothing
  /\ camera = None
  /\ req = [r \in Requests |-> Idle]
  /\ mine = None

-----------------------------------------------------------------------------
(* The answer of /android/devices, for a listing l of which the serials in *)
(* `known` told the identity of their phone when asked.                    *)

Listed(l) == {s \in Serials : l[s] # "absent"}
Ready(l)  == {s \in Serials : l[s] = "device"}

\* One row per identity, and one per serial without one.
Rows(l, known) ==
  ({{s \in known : PhoneOf(s) = p} : p \in Phones} \ {{}})
    \cup {{s} : s \in Listed(l) \ known}

RowReady(l, row) == row \cap Ready(l) # {}
HasUsb(row) == row \cap Phones # {}

\* Mutant: rows with a cable come first.
Before_UsbFirst(l, row, other) ==
  \/ HasUsb(row) /\ ~HasUsb(other)
  \/ (HasUsb(row) <=> HasUsb(other)) /\ RowReady(l, row) /\ ~RowReady(l, other)

\* The order of the rows: ready first, then with a cable, then by name.
Before(l, row, other) ==
  \/ RowReady(l, row) /\ ~RowReady(l, other)
  \/ /\ RowReady(l, row) <=> RowReady(l, other)
     /\ HasUsb(row) /\ ~HasUsb(other)

\* The serial a row is shown with; with two endpoints the last one listed.
Primary(row) == IF HasUsb(row) THEN row \cap Phones ELSE row

\* The serials the answer may recommend.
Recommended(l, known) ==
  LET rows == Rows(l, known)
  IN UNION {Primary(row) : row \in {q \in rows : \A o \in rows : ~Before(l, o, q)}}

\* The serials `avream start --mode usb` may pick from the answer: one with a
\* cable, else another ready one, else the one recommended.
Picked(l, known) ==
  LET offered == UNION {row \in Rows(l, known) : RowReady(l, row)}
  IN CASE offered \cap Phones # {} -> offered \cap Phones
       [] offered # {} /\ offered \cap Phones = {} -> offered
       [] OTHER -> Recommended(l, known)

-----------------------------------------------------------------------------
(* Requests and commands.                                                  *)

\* A request about the serial s, or about no phone in particular.
Request(step, s) ==
  [Idle EXCEPT !.at = step, !.serial = s,
               !.phone = IF s = None THEN None ELSE PhoneOf(s)]

Asks(r, request) ==
  /\ req[r] = Idle
  /\ req' = [req EXCEPT ![r] = request]
  /\ UNCHANGED <<adb, camera>>

\* The window, or another command line.
WifiSetup(r, s)      == Asks(r, Request("target", s)) /\ UNCHANGED mine
WifiEnable(r, s)     == Asks(r, Request("enable", s)) /\ UNCHANGED mine
WifiConnect(r, a)    == Asks(r, [Request("dial", a) EXCEPT !.addr = a]) /\ UNCHANGED mine
WifiDisconnect(r, a) == Asks(r, [Request("hangup", a) EXCEPT !.addr = a]) /\ UNCHANGED mine

\* avream start --mode wifi, avream start --mode usb, avream camera start.
\* With a serial, start --mode usb is the same request as camera start.
CliStart(r, request) == mine = None /\ mine' = r /\ Asks(r, request)
CliStartWifi(r, s)   == CliStart(r, Request("target", s))
CliStartUsb(r)       == CliStart(r, Request("list", None))
CliCameraStart(r, s) == CliStart(r, Request("select", s))

\* The client's timeout: the command ends, the daemon's handler does not.
CliGivesUp == mine # None /\ mine' = None /\ UNCHANGED <<adb, camera, req>>

-----------------------------------------------------------------------------
(* The handlers.                                                           *)

\* The answer ends the handler, and the command that waits for it.
Done(r) ==
  /\ req' = [req EXCEPT ![r] = Idle]
  /\ mine' = IF mine = r THEN None ELSE mine

Goes(r, step) ==
  /\ req' = [req EXCEPT ![r].at = step, ![r].tries = 0]
  /\ UNCHANGED mine

\* The command line's next request, sent when it has the answer.
GoesOn(r, request) ==
  IF mine = r THEN req' = [req EXCEPT ![r] = request] /\ UNCHANGED mine
              ELSE Done(r)

\* Mutant: a loop that never gives up.
Again_Forever(r, max, step) == UNCHANGED <<req, mine>>

\* Mutant: one look too many.
Again_OneMore(r, max, step) ==
  IF req[r].tries + 1 <= max
    THEN req' = [req EXCEPT ![r].tries = @ + 1] /\ UNCHANGED mine
    ELSE IF step = "idle" THEN Done(r) ELSE Goes(r, step)

\* One more look, or the end of the loop: on to step, or an error.
Again(r, max, step) ==
  IF req[r].tries + 1 < max
    THEN req' = [req EXCEPT ![r].tries = @ + 1] /\ UNCHANGED mine
    ELSE IF step = "idle" THEN Done(r) ELSE Goes(r, step)

\* GET /android/devices: the list ...
List(r) ==
  /\ req[r].at = "list"
  /\ \E l \in {adb, Nothing} : req' = [req EXCEPT ![r].at = "group", ![r].list = l]
  /\ UNCHANGED <<adb, camera, mine>>

\* ... and the queries of each ready serial of it, which may have gone
\* meanwhile.  The command goes on with the serial it picks from the answer.
Group(r) ==
  /\ req[r].at = "group"
  /\ \E known \in SUBSET Ready(req[r].list) :
       \/ \E s \in Picked(req[r].list, known) : GoesOn(r, Request("select", s))
       \/ Picked(req[r].list, known) = {} /\ Done(r)
  /\ UNCHANGED <<adb, camera>>

\* The serial wifi_setup() works on: the one asked for, else a ready one with
\* a cable, else any ready one.
Targets(r, l) ==
  CASE req[r].serial # None -> {req[r].serial}
    [] req[r].serial = None /\ Ready(l) \cap Phones # {} -> Ready(l) \cap Phones
    [] OTHER -> Ready(l)

\* POST /android/wifi/setup: its first look.
Target(r) ==
  /\ req[r].at = "target"
  /\ \E l \in {adb, Nothing} :
       \/ Targets(r, l) = {} /\ Done(r)
       \/ \E s \in Targets(r, l) :
            /\ req' = [req EXCEPT ![r].at = "tcpip", ![r].serial = s,
                         ![r].phone = IF @ = None THEN PhoneOf(s) ELSE @]
            /\ UNCHANGED mine
  /\ UNCHANGED <<adb, camera>>

\* adbd of the phone restarts, and all its serials with it.
Restarted(p) ==
  [s \in Serials |-> IF PhoneOf(s) = p /\ adb[s] = "device" THEN "offline" ELSE adb[s]]

\* adb tcpip; the restart comes with it or a moment later (Cable, Air).
Tcpip(r) ==
  /\ req[r].at \in {"tcpip", "enable"}
  /\ \/ /\ adb[req[r].serial] = "device"
        /\ adb' \in {adb, Restarted(PhoneOf(req[r].serial))}
        /\ IF req[r].at = "tcpip" THEN Goes(r, "address") ELSE Done(r)
     \/ UNCHANGED adb /\ Done(r)
  /\ UNCHANGED camera

\* Mutant: adb is not told which phone to ask.
Told_Any(r) == {a \in Addrs : \E s \in Ready(adb) : Owner[a] = PhoneOf(s)}

\* The endpoints the phone may tell when asked for its address.
Told(r) ==
  IF adb[req[r].serial] = "device"
    THEN {a \in Addrs : Owner[a] = PhoneOf(req[r].serial)} ELSE {}

\* detect_device_ip(), polled while adbd restarts.
Address(r) ==
  /\ req[r].at = "address"
  /\ \/ \E a \in Told(r) :
          /\ req' = [req EXCEPT ![r].at = "connect", ![r].addr = a, ![r].tries = 0]
          /\ UNCHANGED mine
     \/ Again(r, Looks, "idle")
  /\ UNCHANGED <<adb, camera>>

\* adb connect: also when it says it worked, the phone may not be there.
Dialled(a) == \E x \in {adb[a], "offline", "device"} : adb' = [adb EXCEPT ![a] = x]

\* connect_with_retry(); what became of it is not looked at.
Connect(r) ==
  /\ req[r].at = "connect"
  /\ \/ Dialled(req[r].addr) /\ Goes(r, "await")
     \/ UNCHANGED adb /\ Again(r, Dials, "await")
  /\ UNCHANGED camera

\* POST /android/wifi/connect.
Dial(r) ==
  /\ req[r].at = "dial"
  /\ \/ Dialled(req[r].addr) /\ Goes(r, "await")
     \/ UNCHANGED adb /\ Done(r)
  /\ UNCHANGED camera

\* The endpoint is listed as ready; avream start goes on with it.
Reached(r) ==
  /\ req[r].at = "await" /\ adb[req[r].addr] = "device"
  /\ GoesOn(r, [Request("select", req[r].addr) EXCEPT !.phone = req[r].phone])
  /\ UNCHANGED <<adb, camera>>

\* Mutant: an endpoint that does not show up is dialled again.
NotYetReached_Redials(r) ==
  /\ req[r].at = "await"
  /\ IF req[r].tries + 1 < Looks THEN Again(r, Looks, "idle") ELSE Goes(r, "connect")
  /\ UNCHANGED <<adb, camera>>

NotYetReached(r) ==
  /\ req[r].at = "await"
  /\ Again(r, Looks, "idle")
  /\ UNCHANGED <<adb, camera>>

\* POST /android/wifi/disconnect.
Hangup(r) ==
  /\ req[r].at = "hangup"
  /\ adb' \in {adb, [adb EXCEPT ![req[r].addr] = "absent"]}
  /\ Done(r)
  /\ UNCHANGED camera

\* POST /video/start with the camera up: already_running, whatever its phone.
AlreadyRunning(r) ==
  /\ req[r].at = "select" /\ camera # None
  /\ Done(r)
  /\ UNCHANGED <<adb, camera>>

\* select_default_source(): the phone asked for, or any ready one.
Selectable(r) ==
  IF req[r].serial = None THEN Ready(adb) ELSE Ready(adb) \cap {req[r].serial}

Launch(r) ==
  /\ req[r].at = "select" /\ camera = None
  /\ camera' \in Selectable(r)
  /\ Done(r)
  /\ UNCHANGED adb

\* No phone fits, adb fails, or the camera does not come up.
StartFails(r) ==
  /\ req[r].at = "select" /\ camera = None
  /\ Done(r)
  /\ UNCHANGED <<adb, camera>>

HandlerStep(r) ==
  \/ List(r) \/ Group(r)
  \/ Target(r) \/ Tcpip(r) \/ Address(r) \/ Connect(r)
  \/ Dial(r) \/ Reached(r) \/ NotYetReached(r) \/ Hangup(r)
  \/ AlreadyRunning(r) \/ Launch(r) \/ StartFails(r)

-----------------------------------------------------------------------------
(* The phones and the camera.                                              *)

\* A cable is plugged or pulled, USB debugging is allowed, adbd restarts.
Cable(p) ==
  \E x \in {"absent", "offline", "device"} \ {adb[p]} :
    /\ adb' = [adb EXCEPT ![p] = x]
    /\ UNCHANGED <<camera, req, mine>>

\* A connection that adb knows is lost or comes back.
Air(a) ==
  /\ adb[a] # "absent"
  /\ adb' = [adb EXCEPT ![a] = IF @ = "device" THEN "offline" ELSE "device"]
  /\ UNCHANGED <<camera, req, mine>>

\* A stop, a reset, or scrcpy ends.
CameraEnds == camera # None /\ camera' = None /\ UNCHANGED <<adb, req, mine>>

-----------------------------------------------------------------------------

Next ==
  \/ \E r \in Others :
       \/ \E s \in Serials \cup {None} : WifiSetup(r, s)
       \/ \E s \in Serials : WifiEnable(r, s)
       \/ \E a \in Addrs : WifiConnect(r, a) \/ WifiDisconnect(r, a)
  \/ \E r \in Commands :
       \/ \E s \in Serials \cup {None} : CliStartWifi(r, s) \/ CliCameraStart(r, s)
       \/ CliStartUsb(r)
  \/ \E r \in Requests : HandlerStep(r)
  \/ CliGivesUp
  \/ \E p \in Phones : Cable(p)
  \/ \E a \in Addrs : Air(a)
  \/ CameraEnds

Spec == Init /\ [][Next]_vars

\* The adb lock is granted in order and, by assumption, each command ends.
FairSpec == Spec /\ \A r \in Requests : WF_vars(HandlerStep(r))

-----------------------------------------------------------------------------
(* Properties.                                                             *)

\* How often a handler looks or dials at a step ...
Most(step) ==
  CASE step \in {"address", "await"} -> Looks
    [] step = "connect" -> Dials
    [] OTHER -> 1

\* ... and the steps it has left at most when that is over.
Rest(step) ==
  CASE step \in {"select", "enable", "hangup"} -> 0
    [] step \in {"group", "await"} -> 1
    [] step = "list" -> 2
    [] step \in {"dial", "connect"} -> 1 + Looks
    [] step = "address" -> 1 + Looks + Dials
    [] step = "tcpip" -> 1 + 2 * Looks + Dials
    [] step = "target" -> 2 + 2 * Looks + Dials

\* The steps handler h has left at most.
StepsLeft(h) == IF h.at = "idle" THEN 0 ELSE Most(h.at) - h.tries + Rest(h.at)

Handlers ==
  [at : Steps, serial : Serials \cup {None}, addr : Addrs \cup {None},
   phone : Phones \cup {None}, tries : Nat, list : Listing]

\* Every variable holds a value of its Python counterpart, and no polling
\* loop looks more often than it may.
TypeOK ==
  /\ adb \in Listing
  /\ camera \in Serials \cup {None}
  /\ req \in [Requests -> Handlers]
  /\ \A r \in Requests : req[r].tries < Most(req[r].at)
  /\ mine \in Requests \cup {None}

\* However the rows of /android/devices come out, whichever serials no longer
\* answer when asked, a ready serial is recommended and picked by the command
\* line whenever the list had one; the offline twin of a phone that is being
\* set up never is.
PickIsReady ==
  \A r \in Requests : \A known \in SUBSET Ready(req[r].list) :
    req[r].at = "group" /\ Ready(req[r].list) # {} =>
      /\ Recommended(req[r].list, known) \subseteq Ready(req[r].list)
      /\ Picked(req[r].list, known) \subseteq Ready(req[r].list)

\* The camera a command brings up is on the phone the command was given or
\* chose first, through the set-up, its loops, its retries and the start, with
\* other requests restarting adbd and connecting between any two of them.
StartsAskedPhone ==
  [][\A r \in Requests :
        Launch(r) /\ req[r].phone # None => PhoneOf(camera') = req[r].phone]_vars

\* Whatever a step finds, its handler is then nearer to its answer, and no
\* phone, client or other handler sends it back: a request is over after
\* 2 * Looks + Dials + 3 steps, though two set-ups of one phone restart each
\* other's adbd.
HandlersAdvance ==
  [][\A r \in Requests :
        req'[r] = req[r] \/ req[r] = Idle \/ StepsLeft(req'[r]) < StepsLeft(req[r])]_vars

\* Every request is answered: adb's commands end by assumption, and no loop
\* waits for the phone it looks for.
RequestsAnswered == \A r \in Requests : req[r].at # "idle" ~> req[r].at = "idle"
=============================================================================
