------------------------------ MODULE UiWindow ------------------------------
(***************************************************************************)
(* The GTK window as a client of the daemon: status polls, phone scans,    *)
(* probes of the saved Wi-Fi endpoint, actions behind a busy flag, the     *)
(* lock page and the connection at start-up.                               *)
(*                                                                         *)
(* A call is a thread: WindowServices.call_async sends it, the daemon      *)
(* answers (or the client gives up after 20 s, or finds no socket), and    *)
(* the callback runs on the GTK thread, in any order.  Callbacks, timers   *)
(* and clicks are the atomic steps of the window.                          *)
(*                                                                         *)
(* The list shows at most one phone; /status is answered or unreachable.   *)
(* Not modelled: texts, dialogs that only inform, versions, the            *)
(* passwordless status, the camera options, the reset of the settings.     *)
(***************************************************************************)
EXTENDS Integers

CONSTANTS
  Endpoints,  \* Wi-Fi endpoints
  Own,        \* the one of the phone
  NoEndpoint, \* the empty entry
  Listed,     \* what a scan may find
  Attempts,   \* ticks of _wait_for_daemon_ready
  MaxMoves    \* bound: what the user does, failures, time-outs, what others
              \* do to the daemon, all together

ASSUME WindowAssumption ==
  /\ Own \in Endpoints /\ NoEndpoint \notin Endpoints
  /\ Attempts \in Nat \ {0} /\ MaxMoves \in Nat

VARIABLES
  at,        \* each call: "none", "sent", or the answer that is on its way
  pending,   \* reads asked for again while in flight
  probed,    \* the endpoint the probe in flight is about
  busy, locked, running, \* _busy, _daemon_locked, _video_running
  entry,     \* the endpoint in the entry
  timer,     \* the probe is scheduled
  label,     \* the endpoint the status label speaks of
  connected, \* _wifi_endpoint_connected
  selected, mode, \* the selected phone, the connection mode
  auto,      \* connection at start-up: see Autos
  ticks, remaining, \* sources of _wait_for_daemon_ready, its attempts left
  asking,    \* confirmations on screen
  up, camera, \* the daemon answers, with the camera RUNNING
  moves,     \* of MaxMoves, those left
  unmet,     \* history: reads asked for and not sent since
  unseen     \* history: the camera changed from elsewhere since the last read

calls    == <<at, pending, probed, unmet>>
endpoint == <<entry, timer, label, connected>>
phone    == <<selected, mode>>
waiting  == <<ticks, remaining>>
daemon   == <<up, camera, unseen>>
vars == <<calls, busy, locked, running, endpoint, phone, auto, waiting, asking, daemon, moves>>

Reads    == {"status", "scan", "probe"}
Stops    == {"stop", "reset", "leave", "leaveWifi"}
Camera   == Stops \cup {"start"}
Local    == {"enable", "helper"}
Actions  == Camera \cup Local \cup {"prepare", "setup", "connect", "manual", "hangup", "check"}
Requests == Reads \cup Actions

\* Not yet due, with a phone in the settings or none; due; over.
Autos == {"saved", "unsaved", "attempted", "done"}

\* A listed phone: the transports it is listed with, ready or not.
Usb    == {"usb", "both", "usbNotReady"}
Wifi   == {"wifi", "both", "wifiNotReady"}
Ready  == {"usb", "wifi", "both"}
Phones == Usb \cup Wifi \cup {"none"}

ASSUME ListedAssumption == Listed \subseteq Phones

Init ==
  /\ entry \in {Own, NoEndpoint}
  /\ at = [r \in Requests |-> IF r = "status" \/ (r = "probe" /\ entry # NoEndpoint)
                              THEN "sent" ELSE "none"]
  /\ unmet = {}
  /\ probed = entry /\ timer = (entry # NoEndpoint)
  /\ label = NoEndpoint /\ connected = FALSE /\ pending = {}
  /\ busy = FALSE /\ locked = FALSE /\ running = FALSE
  /\ selected = "none" /\ mode \in {"usb", "wifi"} /\ auto \in {"saved", "unsaved"}
  /\ ticks = {} /\ remaining = 0 /\ asking = {}
  /\ up \in BOOLEAN /\ camera \in {FALSE, up} /\ unseen = FALSE
  /\ moves = MaxMoves

-----------------------------------------------------------------------------
(* What a step does to the calls: those in `done` are over, the reads in   *)
(* `asks` are wanted, the actions in `sends` are sent; the entry reads     *)
(* `text`.  A read in flight is asked for again when it is done; an empty  *)
(* entry is not probed.  Bound: one action of each kind at a time.         *)

\* Mutant: what was asked for in flight is forgotten.
Proceed_Forgets(done, asks, sends, text) ==
  LET idle   == {r \in Requests : at[r] = "none"} \cup done
      wanted == asks \ (IF text = NoEndpoint THEN {"probe"} ELSE {})
      new    == (wanted \cap idle) \cup sends
  IN /\ sends \subseteq idle
     /\ at' = [r \in Requests |-> IF r \in new THEN "sent"
                                  ELSE IF r \in done THEN "none" ELSE at[r]]
     /\ pending' = (pending \ done) \cup (wanted \ new)
     /\ unmet' = (unmet \cup wanted) \ new
     /\ probed' = IF "probe" \in new THEN text ELSE probed

Proceed(done, asks, sends, text) ==
  LET idle   == {r \in Requests : at[r] = "none"} \cup done
      moot   == IF text = NoEndpoint THEN {"probe"} ELSE {}
      wanted == asks \ moot
      new    == (((wanted \cup (pending \cap done)) \ moot) \cap idle) \cup sends
  IN /\ sends \subseteq idle
     /\ at' = [r \in Requests |-> IF r \in new THEN "sent"
                                  ELSE IF r \in done THEN "none" ELSE at[r]]
     /\ pending' = (pending \ done) \cup (wanted \ new)
     /\ unmet' = (unmet \cup wanted) \ (new \cup (moot \cap (asks \cup done)))
     /\ probed' = IF "probe" \in new THEN text
                  ELSE IF "probe" \in done THEN NoEndpoint ELSE probed

\* _refresh_saved_wifi_endpoint_status, for an empty entry.
Labelled(text) ==
  IF text = NoEndpoint
  THEN label' = NoEndpoint /\ connected' = FALSE
  ELSE UNCHANGED <<label, connected>>

AfterAction(r, a, asks, text) ==
  /\ busy' = FALSE
  /\ locked' = (locked \/ a = "down")
  /\ Proceed({r}, {"status", "probe"} \cup asks, {}, text)
  /\ Labelled(text)

\* A setup or a connection answers the endpoint.
TextAfter(a) == IF a = "ok" THEN Own ELSE entry

\* Mutant: the change of the entry is not noticed.
EntrySet_Unnoticed(a) == entry' = TextAfter(a) /\ UNCHANGED timer

\* Its change schedules a probe.
EntrySet(a) == entry' = TextAfter(a) /\ timer' = (timer \/ a = "ok")

-----------------------------------------------------------------------------
(* Answers.  Those about the camera are decided when the daemon makes them *)
(* (see The daemon); others, which nothing in between can tell from later  *)
(* ones, when the callback gets them.                                      *)

Move  == moves > 0 /\ moves' = moves - 1
Works == up /\ UNCHANGED moves

\* No daemon, or the client's time-out.
Unreachable == (~up /\ UNCHANGED moves) \/ (up /\ Move)

Replies(a) ==
  CASE a = "down" -> Unreachable
    [] a = "fail" -> up /\ Move
    [] OTHER      -> Works

Gets(r, a) ==
  IF r \in Camera \cup {"status"}
  THEN at[r] \notin {"none", "sent"} /\ at[r] = a /\ UNCHANGED moves
  ELSE at[r] = "sent" /\ Replies(a)

Outcomes == {"ok", "fail", "down"}

-----------------------------------------------------------------------------
(* Reads.                                                                  *)

\* _on_phone_use_selected: what it sends.
UseSends(p, m) ==
  IF p = "none" THEN IF m = "wifi" /\ entry # NoEndpoint THEN {"manual"} ELSE {}
  ELSE IF p \notin Ready \/ m = "usb" THEN {}
  ELSE IF p \in Usb THEN {"setup"} ELSE {"connect"}

Due       == auto \in {"saved", "unsaved"}
HasTarget == auto = "saved" \/ (mode = "wifi" /\ entry # NoEndpoint)
Direct    == mode = "wifi" /\ entry # NoEndpoint /\ selected = "none"

StatusDown ==
  /\ Gets("status", "down")
  /\ running' = FALSE /\ locked' = TRUE
  /\ Proceed({"status"}, {}, {}, entry)
  /\ UNCHANGED <<busy, endpoint, phone, auto, waiting, asking, daemon>>

\* Unlocks the window and, once, starts the connection at start-up.
StatusDone(a) ==
  /\ Gets("status", a)
  /\ running' = (a = "on") /\ locked' = FALSE
  /\ \/ /\ Due /\ HasTarget /\ Direct
        /\ auto' = "done" /\ busy' = TRUE
        /\ Proceed({"status"}, {}, {"manual"}, entry)
     \/ /\ Due /\ HasTarget /\ ~Direct
        /\ auto' = "attempted"
        /\ Proceed({"status"}, {"scan"}, {}, entry) /\ UNCHANGED busy
     \/ /\ ~(Due /\ HasTarget)
        /\ auto' = IF Due THEN "done" ELSE auto
        /\ Proceed({"status"}, {}, {}, entry) /\ UNCHANGED busy
  /\ UNCHANGED <<endpoint, phone, waiting, asking, daemon>>

ScanFailed(a) ==
  /\ Gets("scan", a)
  /\ AfterAction("scan", a, {}, entry)
  /\ UNCHANGED <<running, entry, timer, phone, auto, waiting, asking, daemon>>

ScanDone(p) ==
  /\ Gets("scan", p)
  /\ selected' = p
  /\ mode' = IF p = "none" THEN mode ELSE "wifi"
  /\ LET connects == auto = "attempted" /\ ~busy
         sends    == IF connects THEN UseSends(p, mode') ELSE {}
     IN /\ auto' = IF connects THEN "done"
                   ELSE IF auto = "unsaved" /\ p # "none" THEN "saved" ELSE auto
        /\ busy' = (busy \/ sends # {})
        /\ Proceed({"scan"}, {"probe"}, sends, entry)
  /\ Labelled(entry)
  /\ UNCHANGED <<locked, running, entry, timer, waiting, asking, daemon>>

\* An answer about another endpoint than the entry's is dropped.
ProbeDone(a) ==
  /\ Gets("probe", a)
  /\ \/ /\ entry = probed
        /\ label' = entry /\ connected' = (a = "yes")
        /\ Proceed({"probe"}, {}, {}, entry)
     \/ /\ entry # probed
        /\ Proceed({"probe"}, {"probe"}, {}, entry) /\ Labelled(entry)
  /\ UNCHANGED <<busy, locked, running, entry, timer, phone, auto, waiting, asking, daemon>>

TimerFires ==
  /\ timer /\ timer' = FALSE
  /\ Proceed({}, {"probe"}, {}, entry) /\ Labelled(entry)
  /\ UNCHANGED <<busy, locked, running, entry, phone, auto, waiting, asking, daemon, moves>>

-----------------------------------------------------------------------------
(* Actions.                                                                *)

\* start, stop, reset and install end in _after_action alone.
ActionDone(r, a) ==
  /\ Gets(r, a)
  /\ AfterAction(r, a, {}, entry)
  /\ UNCHANGED <<running, entry, timer, phone, auto, waiting, asking, daemon>>

\* A connection by entry and a disconnection scan.
LinkDone(r, a) ==
  /\ Gets(r, a)
  /\ AfterAction(r, a, {"scan"}, entry)
  /\ UNCHANGED <<running, entry, timer, phone, auto, waiting, asking, daemon>>

SetupDone(a) ==
  /\ Gets("setup", a)
  /\ EntrySet(a) /\ AfterAction("setup", a, {"scan"}, TextAfter(a))
  /\ UNCHANGED <<running, phone, auto, waiting, asking, daemon>>

ConnectDone(a) ==
  /\ Gets("connect", a)
  /\ EntrySet(a) /\ AfterAction("connect", a, {}, TextAfter(a))
  /\ UNCHANGED <<running, phone, auto, waiting, asking, daemon>>

\* The camera is started, whatever became of the Wi-Fi setup.
PrepareDone(a) ==
  /\ Gets("prepare", a)
  /\ EntrySet(a) /\ Proceed({"prepare"}, {}, {"start"}, TextAfter(a))
  /\ UNCHANGED <<busy, locked, running, label, connected, phone, auto, waiting, asking, daemon>>

\* Mutant: the status is not asked for.
LeaveDone_Unrefreshed(a) ==
  /\ Gets("leave", a)
  /\ busy' = FALSE
  /\ Proceed({"leave"}, {}, {}, entry)
  /\ UNCHANGED <<locked, running, endpoint, phone, auto, waiting, asking, daemon>>

\* The camera is stopped, or not: a USB phone is left, a Wi-Fi one hung up.
LeaveDone(a) ==
  /\ Gets("leave", a)
  /\ busy' = FALSE
  /\ Proceed({"leave"}, {"status"}, {}, entry)
  /\ UNCHANGED <<locked, running, endpoint, phone, auto, waiting, asking, daemon>>

LeaveWifiDone(a) ==
  /\ Gets("leaveWifi", a)
  /\ Proceed({"leaveWifi"}, {}, {"hangup"}, entry)
  /\ UNCHANGED <<busy, locked, running, endpoint, phone, auto, waiting, asking, daemon>>

\* Mutant: the early return of an unreachable daemon keeps the flag.
CheckDone_StaysBusy(a) ==
  /\ Gets("check", a)
  /\ \/ /\ a = "down" /\ locked' = TRUE
        /\ Proceed({"check"}, {}, {}, entry) /\ UNCHANGED busy
     \/ /\ a # "down" /\ busy' = FALSE
        /\ Proceed({"check"}, {"status"}, {}, entry) /\ UNCHANGED locked
  /\ UNCHANGED <<running, endpoint, phone, auto, waiting, asking, daemon>>

\* An update may be found, and its installation be asked about.
CheckDone(a) ==
  /\ Gets("check", a)
  /\ busy' = FALSE
  /\ \/ /\ a = "down" /\ locked' = TRUE
        /\ Proceed({"check"}, {}, {}, entry) /\ UNCHANGED asking
     \/ /\ a # "down"
        /\ asking' \in {asking} \cup (IF a = "ok" THEN {asking \cup {"reset"}} ELSE {})
        /\ Proceed({"check"}, {"status"}, {}, entry) /\ UNCHANGED locked
  /\ UNCHANGED <<running, endpoint, phone, auto, waiting, daemon>>

\* systemctl and pkexec are commands of the window's own.
CommandEnds(r, a) ==
  /\ at[r] = "sent"
  /\ IF a = "ok" THEN UNCHANGED moves ELSE Move
  /\ Proceed({r}, {}, {}, entry)

HelperDone(a) ==
  /\ CommandEnds("helper", a)
  /\ busy' = FALSE
  /\ UNCHANGED <<locked, running, endpoint, phone, auto, waiting, asking, daemon>>

\* An idle source and a timer share the attempts.
EnableDone(a) ==
  /\ CommandEnds("enable", a)
  /\ IF a = "ok"
     THEN /\ ticks' = {"idle", "timer"} /\ remaining' = Attempts
          /\ up' \in {up, TRUE} /\ UNCHANGED busy
     ELSE busy' = FALSE /\ UNCHANGED <<waiting, up>>
  /\ UNCHANGED <<locked, running, endpoint, phone, auto, asking, camera, unseen>>

\* Mutant: gives up at the last attempt only, which the other source may have
\* used up.
Tick_AtZero(s) ==
  /\ s \in ticks
  /\ Proceed({}, {"status"}, {}, entry)
  /\ remaining' = IF locked THEN remaining - 1 ELSE remaining
  /\ IF ~locked \/ remaining' = 0
     THEN busy' = FALSE /\ ticks' = ticks \ {s}
     ELSE UNCHANGED <<busy, ticks>>
  /\ UNCHANGED <<locked, running, endpoint, phone, auto, asking, daemon, moves>>

\* One look at the flag, and a status poll; the busy flag goes with the source.
\* The source that ends second finds the attempts used up by the first.
Tick(s) ==
  /\ s \in ticks
  /\ Proceed({}, {"status"}, {}, entry)
  /\ remaining' = IF locked THEN remaining - 1 ELSE remaining
  /\ IF ~locked \/ remaining' <= 0
     THEN busy' = FALSE /\ ticks' = ticks \ {s}
     ELSE UNCHANGED <<busy, ticks>>
  /\ UNCHANGED <<locked, running, endpoint, phone, auto, asking, daemon, moves>>

-----------------------------------------------------------------------------
(* The user.  Buttons are insensitive while busy and behind a dialog; the  *)
(* shortcut of the camera looks at the flags only.                         *)

MainPage  == ~busy /\ ~locked /\ asking = {}
LockPage  == ~busy /\ locked /\ asking = {}

\* An action: busy until its callback.
Act(k) == busy' = TRUE /\ Proceed({}, {}, {k}, entry)

ClickScan ==
  /\ Move /\ MainPage
  /\ Proceed({}, {"scan"}, {}, entry)
  /\ UNCHANGED <<busy, locked, running, endpoint, phone, auto, waiting, asking, daemon>>

ClickRefresh ==
  /\ Move /\ (MainPage \/ LockPage)
  /\ Proceed({}, {"status"}, {}, entry)
  /\ UNCHANGED <<busy, locked, running, endpoint, phone, auto, waiting, asking, daemon>>

\* The stream button or the shortcut.
ClickStream ==
  /\ Move /\ ~busy /\ ~locked
  /\ Act(IF running THEN "stop"
         ELSE IF mode = "wifi" /\ selected \in Usb THEN "prepare" ELSE "start")
  /\ UNCHANGED <<locked, running, endpoint, phone, auto, waiting, asking, daemon>>

\* The connect button: disconnects what the label calls connected.
Connected == IF mode = "wifi" THEN entry # NoEndpoint /\ connected ELSE selected # "none"

ClickConnect ==
  /\ Move /\ MainPage /\ ~Connected
  /\ \E k \in UseSends(selected, mode) : Act(k)
  /\ UNCHANGED <<locked, running, endpoint, phone, auto, waiting, asking, daemon>>

ClickDisconnect ==
  /\ Move /\ MainPage /\ Connected
  /\ Act(IF selected = "none" THEN "hangup"
         ELSE IF mode = "wifi" /\ selected \in Wifi THEN "leaveWifi" ELSE "leave")
  /\ UNCHANGED <<locked, running, endpoint, phone, auto, waiting, asking, daemon>>

ClickVersion ==
  /\ Move /\ MainPage
  /\ Act("check")
  /\ UNCHANGED <<locked, running, endpoint, phone, auto, waiting, asking, daemon>>

\* Bound: not while a source of an earlier wait is left, half a second at most
\* after the busy flag went.
ClickEnable ==
  /\ Move /\ LockPage /\ ticks = {}
  /\ Act("enable")
  /\ UNCHANGED <<locked, running, endpoint, phone, auto, waiting, asking, daemon>>

\* Reset of the camera, passwordless helper: confirmed later, busy or not.
Ask(d) ==
  /\ Move /\ MainPage /\ asking' = {d}
  /\ UNCHANGED <<calls, busy, locked, running, endpoint, phone, auto, waiting, daemon>>

Confirm(d) ==
  /\ d \in asking /\ asking' = asking \ {d}
  /\ \/ Act(d)
     \/ UNCHANGED <<calls, busy>>
  /\ UNCHANGED <<locked, running, endpoint, phone, auto, waiting, daemon, moves>>

Type(e) ==
  /\ Move /\ ~locked /\ asking = {} /\ e # entry
  /\ entry' = e /\ timer' = TRUE
  /\ UNCHANGED <<calls, busy, locked, running, label, connected, phone, auto, waiting, asking, daemon>>

\* The mode can be chosen when the phone is listed with a cable.
ChooseMode(m) ==
  /\ Move /\ ~locked /\ asking = {} /\ selected \in Usb /\ m # mode
  /\ mode' = m
  /\ UNCHANGED <<calls, busy, locked, running, endpoint, selected, auto, waiting, asking, daemon>>

-----------------------------------------------------------------------------
(* The daemon.                                                             *)

Answer(r, a) == at[r] = "sent" /\ at' = [at EXCEPT ![r] = a]

Status ==
  /\ \/ /\ Works /\ unseen' = FALSE
        /\ Answer("status", IF camera THEN "on" ELSE "off")
     \/ /\ Unreachable /\ UNCHANGED unseen
        /\ Answer("status", "down")
  /\ UNCHANGED <<pending, probed, unmet, busy, locked, running, endpoint, phone, auto, waiting,
                 asking, up, camera>>

\* A reset stops the camera and may start it again; a stop that fails may have
\* stopped it.
Post(r, a) ==
  /\ Answer(r, a) /\ Replies(a)
  /\ CASE a = "ok"   -> camera' \in IF r = "reset" THEN {camera, FALSE} ELSE {r = "start"}
       [] a = "fail" -> camera' \in {camera, camera /\ r = "start"}
       [] a = "down" -> UNCHANGED camera
  /\ UNCHANGED <<pending, probed, unmet, busy, locked, running, endpoint, phone, auto, waiting,
                 asking, up, unseen>>

\* The CLI, a call given up by its client, the reconnect task, a crash.
CameraChanges ==
  /\ up /\ Move
  /\ camera' = ~camera /\ unseen' = TRUE
  /\ UNCHANGED <<calls, busy, locked, running, endpoint, phone, auto, waiting, asking, up>>

DaemonStops ==
  /\ up /\ Move
  /\ up' = FALSE /\ camera' = FALSE /\ unseen' = (unseen \/ camera)
  /\ UNCHANGED <<calls, busy, locked, running, endpoint, phone, auto, waiting, asking>>

DaemonStarts ==
  /\ ~up /\ up' = TRUE
  /\ UNCHANGED <<calls, busy, locked, running, endpoint, phone, auto, waiting, asking, camera,
                 unseen, moves>>

-----------------------------------------------------------------------------

Callback ==
  \/ StatusDown \/ StatusDone("on") \/ StatusDone("off")
  \/ ScanFailed("fail") \/ ScanFailed("down") \/ (\E p \in Listed : ScanDone(p))
  \/ (\E a \in {"yes", "no", "down"} : ProbeDone(a))
  \/ \E a \in Outcomes :
       \/ SetupDone(a) \/ ConnectDone(a) \/ PrepareDone(a) \/ LeaveDone(a) \/ LeaveWifiDone(a)
       \/ CheckDone(a)
       \/ \E r \in {"start", "stop", "reset"} : ActionDone(r, a)
       \/ \E r \in {"manual", "hangup"} : LinkDone(r, a)
  \/ \E a \in {"ok", "fail"} : HelperDone(a) \/ EnableDone(a)

User ==
  \/ ClickScan \/ ClickRefresh \/ ClickStream \/ ClickConnect \/ ClickDisconnect
  \/ ClickVersion \/ ClickEnable
  \/ \E d \in {"reset", "helper"} : Ask(d) \/ Confirm(d)
  \/ \E e \in Endpoints \cup {NoEndpoint} : Type(e)
  \/ \E m \in {"usb", "wifi"} : ChooseMode(m)

Daemon == Status \/ \E r \in Camera, a \in Outcomes : Post(r, a)

Elsewhere == CameraChanges \/ DaemonStops \/ DaemonStarts

Next == Callback \/ TimerFires \/ (\E s \in {"idle", "timer"} : Tick(s)) \/ User \/ Daemon \/ Elsewhere

Spec == Init /\ [][Next]_vars

-----------------------------------------------------------------------------
(* Properties.                                                             *)

\* Every variable has its type.
TypeOK ==
  /\ at \in [Requests -> {"none", "sent", "ok", "fail", "down", "on", "off"}]
  /\ pending \subseteq Reads /\ unmet \subseteq Reads
  /\ entry \in Endpoints \cup {NoEndpoint} /\ label \in Endpoints \cup {NoEndpoint}
  /\ probed \in Endpoints \cup {NoEndpoint}
  /\ busy \in BOOLEAN /\ locked \in BOOLEAN /\ running \in BOOLEAN
  /\ timer \in BOOLEAN /\ connected \in BOOLEAN
  /\ up \in BOOLEAN /\ camera \in BOOLEAN /\ unseen \in BOOLEAN
  /\ selected \in Phones /\ mode \in {"usb", "wifi"}
  /\ auto \in Autos
  /\ ticks \subseteq {"idle", "timer"} /\ remaining \in -1..Attempts
  /\ asking \subseteq {"reset", "helper"}
  /\ moves \in 0..MaxMoves

\* _refresh_status and its like: a read asked for while one is in flight is
\* not lost: when none is in flight, one was sent since the last request.
NoReadLost == \A r \in Reads : at[r] = "none" => r \notin unmet

\* The stream button is right about the camera once all answers are in,
\* unless the camera changed without the window.
ShownIsTrue ==
  (at["status"] = "none" /\ ~locked /\ ~unseen /\ \A r \in Actions : at[r] = "none")
    => running = camera

\* The endpoint status speaks of the endpoint in the entry, once the probe
\* and its timer are over: late answers do not label another endpoint.
LabelIsForEntry == (at["probe"] = "none" /\ ~timer) => label = entry

\* A busy window waits for something: no callback forgets the flag.
BusyHasCause == busy => ticks # {} \/ \E r \in Actions : at[r] # "none"
=============================================================================
