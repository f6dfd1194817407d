--------------------------- MODULE UiWindowProofs ---------------------------
(***************************************************************************)
(* Proofs about UiWindow, for any endpoints, any list of phones, any       *)
(* number of attempts and of moves.                                        *)
(***************************************************************************)
EXTENDS UiWindow, TLAPS

\* A read that is wanted and not sent is remembered, and waits for one in
\* flight.
ReadsInv ==
  /\ unmet \subseteq pending
  /\ \A r \in pending : at[r] # "none"

\* The calls whose answers ask for the status as they may have moved the
\* camera, and the call that comes between.
CameraCalls == Camera \cup {"hangup"}

\* With none of those in flight the window is right about the camera, and so
\* is an answer on its way unless it is to be asked for again.
ShownInv ==
  ~unseen /\ (\A r \in CameraCalls : at[r] = "none") =>
    /\ at["status"] = "none" /\ ~locked => running = camera
    /\ at["status"] \in {"on", "off"} /\ "status" \notin pending =>
         (at["status"] = "on") = camera

\* While both sources of _wait_for_daemon_ready run there are attempts left;
\* the one that is left finds none below zero.
TickInv ==
  /\ ticks # {} => remaining >= 0
  /\ ticks = {"idle", "timer"} => remaining >= 1

\* The inductive invariant of the window.
Core == TypeOK /\ ReadsInv /\ LabelIsForEntry /\ BusyHasCause /\ ShownInv
IInv == Core /\ TickInv
-----------------------------------------------------------------------------

\* What Proceed does to the requests, to wanted reads and to the calls that
\* are neither over nor sent.
LEMMA Calls ==
  ASSUME TypeOK, ReadsInv, NEW done \in SUBSET Requests, NEW asks \in SUBSET Reads,
         NEW sends \in SUBSET Actions, NEW text \in Endpoints \cup {NoEndpoint},
         Proceed(done, asks, sends, text)
  PROVE  /\ ReadsInv'
         /\ at' \in [Requests -> {"none", "sent", "ok", "fail", "down", "on", "off"}]
         /\ pending' \subseteq Reads /\ unmet' \subseteq Reads
         /\ probed' \in Endpoints \cup {NoEndpoint}
         /\ \A r \in Actions : at'[r] = IF r \in sends THEN "sent"
                                        ELSE IF r \in done THEN "none" ELSE at[r]
  <1> DEFINE moot == IF text = NoEndpoint THEN {"probe"} ELSE {}
             wanted == asks \ moot
             idle == {r \in Requests : at[r] = "none"} \cup done
             new == (((wanted \cup (pending \cap done)) \ moot) \cap idle) \cup sends
  <1>1. /\ at' = [r \in Requests |-> IF r \in new THEN "sent"
                                     ELSE IF r \in done THEN "none" ELSE at[r]]
        /\ pending' = (pending \ done) \cup (wanted \ new)
        /\ unmet' = (unmet \cup wanted) \ (new \cup (moot \cap (asks \cup done)))
        /\ probed' = IF "probe" \in new THEN text
                     ELSE IF "probe" \in done THEN NoEndpoint ELSE probed
    BY DEF Proceed
  <1>2. Reads \cap Actions = {} /\ Reads \subseteq Requests /\ Actions \subseteq Requests
    BY DEF Reads, Actions, Requests, Camera, Stops, Local
  <1>3. unmet' \subseteq pending'
    BY <1>1, <1>2 DEF ReadsInv, TypeOK
  <1>4. \A r \in pending' : at'[r] # "none"
    <2> SUFFICES ASSUME NEW r \in pending' PROVE at'[r] # "none"
      OBVIOUS
    <2>1. r \in Requests /\ at'[r] = IF r \in new THEN "sent"
                                     ELSE IF r \in done THEN "none" ELSE at[r]
      BY <1>1, <1>2 DEF TypeOK
    <2>2. CASE r \in pending \ done
      BY <2>1, <2>2 DEF ReadsInv
    <2>3. CASE r \in wanted \ new
      BY <2>1, <2>3
    <2>4. QED
      BY <1>1, <2>2, <2>3
  <1>5. at' \in [Requests -> {"none", "sent", "ok", "fail", "down", "on", "off"}]
    BY <1>1 DEF TypeOK
  <1>6. pending' \subseteq Reads /\ unmet' \subseteq Reads
    BY <1>1 DEF TypeOK
  <1>7. probed' \in Endpoints \cup {NoEndpoint}
    BY <1>1 DEF TypeOK
  <1>8. ASSUME NEW r \in Actions
        PROVE  at'[r] = IF r \in sends THEN "sent" ELSE IF r \in done THEN "none" ELSE at[r]
    BY <1>1, <1>2 DEF TypeOK
  <1>9. QED
    BY <1>3, <1>4, <1>5, <1>6, <1>7, <1>8 DEF ReadsInv

\* What Proceed does to a probe.
LEMMA Probe ==
  ASSUME TypeOK, NEW done, NEW asks, NEW sends \in SUBSET Actions, NEW text,
         Proceed(done, asks, sends, text)
  PROVE  /\ "probe" \notin done \cup asks => at'["probe"] = at["probe"]
         /\ "probe" \in asks /\ text # NoEndpoint => at'["probe"] # "none"
  <1>1. "probe" \notin sends /\ "probe" \in Requests
    BY DEF Actions, Camera, Stops, Local, Requests, Reads
  <1>2. QED
    BY <1>1 DEF Proceed, TypeOK

\* What Proceed does to a status poll that is not over.
LEMMA Poll ==
  ASSUME TypeOK, NEW done, NEW asks, NEW sends \in SUBSET Actions, NEW text,
         Proceed(done, asks, sends, text), "status" \notin done
  PROVE  /\ at["status"] # "none" => at'["status"] = at["status"]
         /\ "status" \in pending => "status" \in pending'
         /\ "status" \notin asks => at'["status"] = at["status"]
         /\ "status" \in asks => \/ at["status"] = "none" /\ at'["status"] = "sent"
                                 \/ at["status"] # "none" /\ "status" \in pending'
  <1>1. "status" \notin sends /\ "status" \in Requests
    BY DEF Actions, Camera, Stops, Local, Requests, Reads
  <1>2. QED
    BY <1>1 DEF Proceed, TypeOK

\* What Proceed does to a status poll whose answer is used.
LEMMA PollOver ==
  ASSUME TypeOK, NEW asks, NEW sends \in SUBSET Actions, NEW text,
         Proceed({"status"}, asks, sends, text)
  PROVE  /\ at'["status"] \in {"none", "sent"}
         /\ at'["status"] = "none" => "status" \notin pending
  <1>1. "status" \notin sends /\ "status" \in Requests
    BY DEF Actions, Camera, Stops, Local, Requests, Reads
  <1>2. QED
    BY <1>1 DEF Proceed, TypeOK

\* A busy window goes on waiting for something if it sends an action, if its
\* timers run, or if none of its actions is over.
LEMMA BusyKept ==
  ASSUME TypeOK, ReadsInv, BusyHasCause, NEW done \in SUBSET Requests,
         NEW asks \in SUBSET Reads, NEW sends \in SUBSET Actions,
         NEW text \in Endpoints \cup {NoEndpoint}, Proceed(done, asks, sends, text),
         busy' => \/ sends # {} \/ ticks' # {}
                  \/ busy /\ ticks' = ticks /\ done \cap Actions = {}
  PROVE  BusyHasCause'
  <1> SUFFICES ASSUME busy', ticks' = {} PROVE \E r \in Actions : at'[r] # "none"
    BY DEF BusyHasCause
  <1>1. CASE sends # {}
    BY <1>1, Calls
  <1>2. CASE busy /\ ticks = {} /\ done \cap Actions = {}
    <2>1. PICK r \in Actions : at[r] # "none"
      BY <1>2 DEF BusyHasCause
    <2>2. sends = {} \/ r \notin done
      BY <1>2
    <2>3. at'[r] = IF r \in sends THEN "sent" ELSE IF r \in done THEN "none" ELSE at[r]
      BY Calls
    <2>4. QED
      BY <1>2, <2>1, <2>2, <2>3
  <1>3. QED
    BY <1>1, <1>2

\* The label stays right if the entry's timer runs, if a probe of the entry is
\* asked for, or if neither changes.
LEMMA LabelKept ==
  ASSUME TypeOK, LabelIsForEntry, NEW done, NEW asks,
         NEW sends \in SUBSET Actions, NEW text, Proceed(done, asks, sends, text),
         \/ timer'
         \/ entry' = text /\ "probe" \in asks /\ Labelled(text)
         \/ /\ UNCHANGED <<entry, label>> /\ timer' = timer
            /\ "probe" \notin asks \cup done
  PROVE  LabelIsForEntry'
  BY Probe DEF LabelIsForEntry, Labelled

\* What is shown of the camera stays right if the camera stays, and if a call
\* that may have moved it asks for the status, or hands over to another.
LEMMA ShownKept ==
  ASSUME TypeOK, ReadsInv, ShownInv, NEW done \in SUBSET Requests,
         NEW asks \in SUBSET Reads, NEW sends \in SUBSET Actions,
         NEW text \in Endpoints \cup {NoEndpoint}, Proceed(done, asks, sends, text),
         "status" \notin done, UNCHANGED <<running, camera, unseen>>,
         locked => locked',
         done \cap CameraCalls # {} => "status" \in asks \/ sends \cap CameraCalls # {}
  PROVE  ShownInv'
  <1> SUFFICES ASSUME ~unseen, \A r \in CameraCalls : at'[r] = "none"
               PROVE  /\ at'["status"] = "none" /\ ~locked' => running = camera
                      /\ at'["status"] \in {"on", "off"} /\ "status" \notin pending' =>
                           (at'["status"] = "on") = camera
    BY DEF ShownInv
  <1>1. CameraCalls \subseteq Actions
    BY DEF CameraCalls, Actions, Camera, Stops
  <1>2. sends \cap CameraCalls = {}
    BY <1>1, Calls
  <1>3. CASE "status" \in asks
    BY <1>3, Poll
  <1>4. CASE "status" \notin asks
    <2>1. done \cap CameraCalls = {}
      BY <1>2, <1>4
    <2>2. \A r \in CameraCalls : at[r] = "none"
      BY <1>1, <1>2, <2>1, Calls
    <2>3. QED
      BY <1>4, <2>2, Poll DEF ShownInv
  <1>5. QED
    BY <1>3, <1>4

\* Answers and clicks cost no more than the moves left.
LEMMA MovesType ==
  ASSUME TypeOK, NEW r, NEW a, Gets(r, a) \/ Move \/ Works \/ Unreachable \/ UNCHANGED moves
  PROVE  moves' \in 0..MaxMoves
  BY WindowAssumption DEF TypeOK, Gets, Replies, Works, Move, Unreachable

\* The end of an action keeps its variables' types, and a locked window locked.
LEMMA AfterType ==
  ASSUME TypeOK, NEW r, NEW a, NEW asks, NEW text, AfterAction(r, a, asks, text)
  PROVE  /\ busy' = FALSE /\ locked' \in BOOLEAN /\ (locked => locked')
         /\ label' \in Endpoints \cup {NoEndpoint} /\ connected' \in BOOLEAN
  <1>1. label' \in Endpoints \cup {NoEndpoint} /\ connected' \in BOOLEAN
    BY DEF AfterAction, Labelled, TypeOK
  <1>2. locked' \in BOOLEAN
    BY DEF AfterAction
  <1>3. locked => locked'
    BY DEF AfterAction, TypeOK
  <1>4. QED
    BY <1>1, <1>2, <1>3 DEF AfterAction

-----------------------------------------------------------------------------

\* The window opens with nothing shown but what it has asked for.
LEMMA InvInit == Init => IInv
  <1> SUFFICES ASSUME Init PROVE IInv
    OBVIOUS
  <1>1. TypeOK
    <2>1. at \in [Requests -> {"none", "sent", "ok", "fail", "down", "on", "off"}]
      BY DEF Init
    <2>2. selected \in Phones /\ auto \in Autos
      BY DEF Init, Phones, Autos
    <2>3. remaining \in -1..Attempts /\ moves \in 0..MaxMoves
      BY WindowAssumption DEF Init
    <2>4. /\ entry \in Endpoints \cup {NoEndpoint} /\ label \in Endpoints \cup {NoEndpoint}
          /\ probed \in Endpoints \cup {NoEndpoint}
      BY WindowAssumption DEF Init
    <2>5. timer \in BOOLEAN /\ camera \in BOOLEAN
      BY DEF Init
    <2>6. QED
      BY <2>1, <2>2, <2>3, <2>4, <2>5 DEF Init, TypeOK, Reads
  <1>2. ReadsInv /\ BusyHasCause
    BY DEF Init, ReadsInv, BusyHasCause
  <1>3. "status" \in Requests /\ "probe" \in Requests
    BY DEF Requests, Reads
  <1>4. LabelIsForEntry
    BY <1>3 DEF Init, LabelIsForEntry
  <1>5. ShownInv
    BY <1>3 DEF Init, ShownInv
  <1>6. TickInv
    BY DEF Init, TickInv
  <1>7. QED
    BY <1>1, <1>2, <1>4, <1>5, <1>6 DEF IInv, Core

\* No step but a source's own and the beginning of a wait moves the attempts.
LEMMA TickStep == TypeOK /\ TickInv /\ [Next]_vars => TickInv'
  <1> SUFFICES ASSUME TypeOK, TickInv, [Next]_vars PROVE TickInv'
    OBVIOUS
  <1>1. CASE UNCHANGED waiting
    BY <1>1 DEF TickInv, waiting
  <1>2. ASSUME NEW a, EnableDone(a) PROVE TickInv'
    <2>1. CASE a = "ok"
      <3>1. remaining' = Attempts /\ Attempts \in Nat \ {0}
        BY <1>2, <2>1, WindowAssumption DEF EnableDone
      <3>2. QED
        BY <3>1 DEF TickInv
    <2>2. CASE a # "ok"
      BY <1>1, <1>2, <2>2 DEF EnableDone
    <2>3. QED
      BY <2>1, <2>2
  <1>3. ASSUME NEW s \in {"idle", "timer"}, Tick(s) PROVE TickInv'
    <2>1. remaining \in Int /\ s \in ticks /\ ticks \subseteq {"idle", "timer"}
      BY <1>3, WindowAssumption DEF Tick, TypeOK
    <2>2. \/ ticks' = ticks /\ remaining' >= 1
          \/ ticks' = ticks \ {s} /\ (ticks = {"idle", "timer"} => remaining' >= 0)
      BY <1>3, <2>1 DEF Tick, TickInv
    <2>3. remaining' \in Int
      BY <1>3, <2>1 DEF Tick
    <2>4. CASE ticks' = ticks /\ remaining' >= 1
      BY <2>3, <2>4 DEF TickInv
    <2>5. CASE ticks' = ticks \ {s} /\ (ticks = {"idle", "timer"} => remaining' >= 0)
      <3>1. ticks' # {"idle", "timer"}
        BY <2>1, <2>5
      <3>2. ticks' # {} => ticks = {"idle", "timer"}
        BY <2>1, <2>5
      <3>3. QED
        BY <2>5, <3>1, <3>2 DEF TickInv
    <2>6. QED
      BY <2>2, <2>4, <2>5
  <1>4. ASSUME Callback, \A a \in {"ok", "fail"} : ~EnableDone(a) PROVE UNCHANGED waiting
    BY <1>4 DEF Callback, StatusDown, StatusDone, ScanFailed, ScanDone, ProbeDone, SetupDone,
       ConnectDone, PrepareDone, LeaveDone, LeaveWifiDone, CheckDone, ActionDone, LinkDone,
       HelperDone
  <1>5. ASSUME User \/ Daemon \/ Elsewhere \/ TimerFires \/ UNCHANGED vars
        PROVE  UNCHANGED waiting
    BY <1>5 DEF User, ClickScan, ClickRefresh, ClickStream, ClickConnect, ClickDisconnect,
       ClickVersion, ClickEnable, Ask, Confirm, Type, ChooseMode, Daemon, Status, Post,
       Elsewhere, CameraChanges, DaemonStops, DaemonStarts, TimerFires, vars
  <1>6. QED
    BY <1>1, <1>2, <1>3, <1>4, <1>5 DEF Next

\* No step breaks it: a step that uses no answer about the camera keeps it by
\* the lemmas above, the others are looked at one by one.
LEMMA CoreStep == Core /\ TickInv /\ [Next]_vars => Core'
  <1> SUFFICES ASSUME Core, TickInv, [Next]_vars PROVE Core'
    OBVIOUS
  <1> USE DEF Core
  \* Reads.
  <1>1. ASSUME StatusDown PROVE Core'
    <2>1. Proceed({"status"}, {}, {}, entry) /\ entry \in Endpoints \cup {NoEndpoint}
      BY <1>1 DEF StatusDown, TypeOK
    <2>2. /\ {"status"} \in SUBSET Requests /\ {"status"} \cap Actions = {}
          /\ {} \in SUBSET Reads /\ {} \in SUBSET Actions
      BY DEF Requests, Reads, Actions, Camera, Stops, Local
    <2>3. TypeOK'
      BY ZenonT(40), <1>1, <2>1, <2>2, Calls DEF StatusDown, TypeOK, Gets, endpoint, phone, waiting, daemon
    <2>4. ReadsInv'
      BY <2>1, <2>2, Calls
    <2>5. BusyHasCause'
      BY <1>1, <2>1, <2>2, BusyKept DEF StatusDown, waiting
    <2>6. LabelIsForEntry'
      BY <1>1, <2>1, <2>2, LabelKept DEF StatusDown, endpoint
    <2>7. ShownInv'
      BY <1>1, <2>1, <2>2, PollOver DEF StatusDown, ShownInv
    <2>8. QED
      BY <2>3, <2>4, <2>5, <2>6, <2>7
  <1>2. ASSUME NEW a \in {"on", "off"}, StatusDone(a) PROVE Core'
    <2>1. PICK asks \in SUBSET {"scan"}, sends \in SUBSET {"manual"} :
            /\ Proceed({"status"}, asks, sends, entry) /\ entry \in Endpoints \cup {NoEndpoint}
            /\ (busy' = TRUE /\ sends # {}) \/ busy' = busy
      BY <1>2 DEF StatusDone, TypeOK
    <2>2. /\ {"status"} \in SUBSET Requests /\ {"status"} \cap Actions = {}
          /\ asks \in SUBSET Reads /\ sends \in SUBSET Actions
          /\ sends \cap CameraCalls = {}
      BY DEF Requests, Reads, Actions, Camera, Stops, Local, CameraCalls
    <2>3. auto' \in Autos /\ busy' \in BOOLEAN /\ moves' = moves
      BY <1>2 DEF StatusDone, TypeOK, Autos, Gets
    <2>4. TypeOK'
      BY <1>2, <2>1, <2>2, <2>3, Calls DEF StatusDone, TypeOK, endpoint, phone, waiting, daemon
    <2>5. ReadsInv'
      BY <2>1, <2>2, Calls
    <2>6. BusyHasCause'
      BY <1>2, <2>1, <2>2, BusyKept DEF StatusDone, waiting
    <2>7. LabelIsForEntry'
      BY <1>2, <2>1, <2>2, LabelKept DEF StatusDone, endpoint
    <2>8. ShownInv'
      <3>1. /\ CameraCalls \subseteq Actions /\ {"status"} \cap CameraCalls = {}
            /\ at["status"] = a /\ running' = (a = "on") /\ UNCHANGED <<camera, unseen>>
        BY <1>2 DEF StatusDone, Gets, daemon, CameraCalls, Actions, Camera, Stops
      <3>2. \A r \in CameraCalls : at'[r] = at[r]
        BY <2>1, <2>2, <3>1, Calls
      <3>3. at'["status"] \in {"none", "sent"} /\ (at'["status"] = "none" => "status" \notin pending)
        BY <2>1, <2>2, PollOver
      <3>4. QED
        BY <3>1, <3>2, <3>3 DEF ShownInv
    <2>9. QED
      BY <2>4, <2>5, <2>6, <2>7, <2>8
  <1>3. ASSUME NEW a \in {"fail", "down"}, ScanFailed(a) PROVE Core'
    <2>1. /\ Proceed({"scan"}, {"status", "probe"} \cup {}, {}, entry) /\ {"scan"} \in SUBSET Requests
          /\ {"status", "probe"} \cup {} \in SUBSET Reads /\ {} \in SUBSET Actions
          /\ entry \in Endpoints \cup {NoEndpoint}
      BY <1>3 DEF ScanFailed, AfterAction, Requests, Reads, Actions, Camera, Stops,
         Local, TypeOK
    <2>2. TypeOK'
      <3>1. moves' \in 0..MaxMoves
        BY <1>3, MovesType DEF ScanFailed
      <3>2. /\ busy' = FALSE /\ locked' \in BOOLEAN
            /\ label' \in Endpoints \cup {NoEndpoint} /\ connected' \in BOOLEAN
        BY <1>3, AfterType DEF ScanFailed
      <3>3. QED
        BY <1>3, <2>1, <3>1, <3>2, Calls DEF ScanFailed, phone, waiting, daemon,
           TypeOK
    <2>3. ReadsInv'
      BY <2>1, Calls
    <2>4. BusyHasCause'
      BY <1>3, <2>1, BusyKept DEF ScanFailed, AfterAction, waiting, Requests,
         Reads, Actions, Camera, Stops, Local
    <2>5. LabelIsForEntry'
      BY <1>3, <2>1, LabelKept DEF ScanFailed, AfterAction
    <2>6. ShownInv'
      BY <1>3, <2>1, ShownKept DEF ScanFailed, AfterAction, daemon, CameraCalls,
         Requests, Reads, Actions, Camera, Stops, Local
    <2>7. QED
      BY <2>2, <2>3, <2>4, <2>5, <2>6
  <1>4. ASSUME NEW p \in Listed, ScanDone(p) PROVE Core'
    <2>1. PICK sends \in SUBSET {"manual", "setup", "connect"} :
            /\ Proceed({"scan"}, {"probe"}, sends, entry) /\ entry \in Endpoints \cup {NoEndpoint}
            /\ busy' = (busy \/ sends # {})
      BY <1>4 DEF ScanDone, TypeOK, UseSends
    <2>2. /\ {"scan"} \in SUBSET Requests /\ {"scan"} \cap Actions = {}
          /\ {"probe"} \in SUBSET Reads /\ sends \in SUBSET Actions
          /\ {"scan"} \cap CameraCalls = {}
      BY DEF Requests, Reads, Actions, Camera, Stops, Local, CameraCalls
    <2>3. selected' \in Phones /\ mode' \in {"usb", "wifi"} /\ auto' \in Autos
      BY <1>4, ListedAssumption DEF ScanDone, TypeOK, Autos
    <2>4. moves' \in 0..MaxMoves
      BY <1>4, MovesType DEF ScanDone
    <2>5. TypeOK'
      BY ZenonT(40), <1>4, <2>1, <2>2, <2>3, <2>4, Calls DEF ScanDone, TypeOK, Labelled, waiting, daemon
    <2>6. ReadsInv'
      BY <2>1, <2>2, Calls
    <2>7. BusyHasCause'
      BY <1>4, <2>1, <2>2, BusyKept DEF ScanDone, waiting
    <2>8. LabelIsForEntry'
      BY <1>4, <2>1, <2>2, LabelKept DEF ScanDone
    <2>9. ShownInv'
      BY <1>4, <2>1, <2>2, ShownKept DEF ScanDone, daemon
    <2>10. QED
      BY <2>5, <2>6, <2>7, <2>8, <2>9
  <1>5. ASSUME NEW a \in {"yes", "no", "down"}, ProbeDone(a) PROVE Core'
    <2>1. PICK asks \in SUBSET {"probe"} : Proceed({"probe"}, asks, {}, entry)
      BY <1>5 DEF ProbeDone
    <2>2. /\ {"probe"} \in SUBSET Requests /\ {"probe"} \cap Actions = {}
          /\ asks \in SUBSET Reads /\ {} \in SUBSET Actions /\ {"probe"} \cap CameraCalls = {}
          /\ entry \in Endpoints \cup {NoEndpoint}
      BY DEF TypeOK, Requests, Reads, Actions, Camera, Stops, Local, CameraCalls
    <2>3. moves' \in 0..MaxMoves /\ connected' \in BOOLEAN
      <3>1. moves' \in 0..MaxMoves
        BY <1>5, MovesType DEF ProbeDone
      <3>2. connected' \in BOOLEAN
        BY <1>5 DEF ProbeDone, Labelled, TypeOK
      <3>3. QED
        BY <3>1, <3>2
    <2>4. TypeOK'
      BY <1>5, <2>1, <2>2, <2>3, Calls DEF ProbeDone, TypeOK, Labelled, phone, waiting, daemon
    <2>5. ReadsInv'
      BY <2>1, <2>2, Calls
    <2>6. BusyHasCause'
      BY <1>5, <2>1, <2>2, BusyKept DEF ProbeDone, waiting
    <2>7. LabelIsForEntry'
      <3>1. CASE entry # probed
        <4>1. Proceed({"probe"}, {"probe"}, {}, entry) /\ Labelled(entry) /\ UNCHANGED <<entry, timer>>
          BY <1>5, <3>1 DEF ProbeDone
        <4>2. QED
          BY <2>2, <4>1, LabelKept
      <3>2. CASE entry = probed
        BY <1>5, <3>2 DEF ProbeDone, LabelIsForEntry
      <3>3. QED
        BY <3>1, <3>2
    <2>8. ShownInv'
      BY <1>5, <2>1, <2>2, ShownKept DEF ProbeDone, daemon
    <2>9. QED
      BY <2>4, <2>5, <2>6, <2>7, <2>8
  <1>6. ASSUME TimerFires PROVE Core'
    <2>1. /\ Proceed({}, {"probe"}, {}, entry) /\ {} \in SUBSET Requests
          /\ {"probe"} \in SUBSET Reads /\ {} \in SUBSET Actions
          /\ entry \in Endpoints \cup {NoEndpoint}
      BY <1>6 DEF TimerFires, Requests, Reads, Actions, Camera, Stops, Local,
         TypeOK
    <2>2. TypeOK'
      <3>1. moves' \in 0..MaxMoves
        BY <1>6, MovesType DEF TimerFires
      <3>2. QED
        BY ZenonT(40), <1>6, <2>1, <3>1, Calls DEF TimerFires, Labelled, phone, waiting, daemon,
           TypeOK
    <2>3. ReadsInv'
      BY <2>1, Calls
    <2>4. BusyHasCause'
      BY <1>6, <2>1, BusyKept DEF TimerFires, waiting, Requests, Reads, Actions,
         Camera, Stops, Local
    <2>5. LabelIsForEntry'
      BY <1>6, <2>1, LabelKept DEF TimerFires
    <2>6. ShownInv'
      BY <1>6, <2>1, ShownKept DEF TimerFires, daemon, CameraCalls, Requests,
         Reads, Actions, Camera, Stops, Local
    <2>7. QED
      BY <2>2, <2>3, <2>4, <2>5, <2>6
  \* Actions.
  <1>7. ASSUME NEW r \in {"start", "stop", "reset"}, NEW a \in Outcomes, ActionDone(r, a) PROVE Core'
    <2>1. /\ Proceed({r}, {"status", "probe"} \cup {}, {}, entry) /\ {r} \in SUBSET Requests
          /\ {"status", "probe"} \cup {} \in SUBSET Reads /\ {} \in SUBSET Actions
          /\ entry \in Endpoints \cup {NoEndpoint}
      BY <1>7 DEF ActionDone, AfterAction, Requests, Reads, Actions, Camera, Stops,
         Local, TypeOK
    <2>2. TypeOK'
      <3>1. moves' \in 0..MaxMoves
        BY <1>7, MovesType DEF ActionDone
      <3>2. /\ busy' = FALSE /\ locked' \in BOOLEAN
            /\ label' \in Endpoints \cup {NoEndpoint} /\ connected' \in BOOLEAN
        BY <1>7, AfterType DEF ActionDone
      <3>3. QED
        BY <1>7, <2>1, <3>1, <3>2, Calls DEF ActionDone, phone, waiting, daemon,
           TypeOK
    <2>3. ReadsInv'
      BY <2>1, Calls
    <2>4. BusyHasCause'
      BY <1>7, <2>1, BusyKept DEF ActionDone, AfterAction, waiting, Requests,
         Reads, Actions, Camera, Stops, Local
    <2>5. LabelIsForEntry'
      BY <1>7, <2>1, LabelKept DEF ActionDone, AfterAction
    <2>6. ShownInv'
      BY <1>7, <2>1, ShownKept DEF ActionDone, AfterAction, daemon, CameraCalls,
         Requests, Reads, Actions, Camera, Stops, Local
    <2>7. QED
      BY <2>2, <2>3, <2>4, <2>5, <2>6
  <1>8. ASSUME NEW r \in {"manual", "hangup"}, NEW a \in Outcomes, LinkDone(r, a) PROVE Core'
    <2>1. /\ Proceed({r}, {"status", "probe"} \cup {"scan"}, {}, entry) /\ {r} \in SUBSET Requests
          /\ {"status", "probe"} \cup {"scan"} \in SUBSET Reads /\ {} \in SUBSET Actions
          /\ entry \in Endpoints \cup {NoEndpoint}
      BY <1>8 DEF LinkDone, AfterAction, Requests, Reads, Actions, Camera, Stops,
         Local, TypeOK
    <2>2. TypeOK'
      <3>1. moves' \in 0..MaxMoves
        BY <1>8, MovesType DEF LinkDone
      <3>2. /\ busy' = FALSE /\ locked' \in BOOLEAN
            /\ label' \in Endpoints \cup {NoEndpoint} /\ connected' \in BOOLEAN
        BY <1>8, AfterType DEF LinkDone
      <3>3. QED
        BY <1>8, <2>1, <3>1, <3>2, Calls DEF LinkDone, phone, waiting, daemon, TypeOK
    <2>3. ReadsInv'
      BY <2>1, Calls
    <2>4. BusyHasCause'
      BY <1>8, <2>1, BusyKept DEF LinkDone, AfterAction, waiting, Requests, Reads,
         Actions, Camera, Stops, Local
    <2>5. LabelIsForEntry'
      BY <1>8, <2>1, LabelKept DEF LinkDone, AfterAction
    <2>6. ShownInv'
      BY <1>8, <2>1, ShownKept DEF LinkDone, AfterAction, daemon, CameraCalls,
         Requests, Reads, Actions, Camera, Stops, Local
    <2>7. QED
      BY <2>2, <2>3, <2>4, <2>5, <2>6
  <1>9. ASSUME NEW a \in Outcomes, SetupDone(a) PROVE Core'
    <2>1. /\ Proceed({"setup"}, {"status", "probe"} \cup {"scan"}, {}, TextAfter(a)) /\ {"setup"} \in SUBSET Requests
          /\ {"status", "probe"} \cup {"scan"} \in SUBSET Reads /\ {} \in SUBSET Actions
          /\ TextAfter(a) \in Endpoints \cup {NoEndpoint}
      BY <1>9, WindowAssumption DEF SetupDone, AfterAction, Requests, Reads,
         Actions, Camera, Stops, Local, TypeOK, TextAfter
    <2>2. TypeOK'
      <3>1. moves' \in 0..MaxMoves
        BY <1>9, MovesType DEF SetupDone
      <3>2. /\ busy' = FALSE /\ locked' \in BOOLEAN
            /\ label' \in Endpoints \cup {NoEndpoint} /\ connected' \in BOOLEAN
        BY <1>9, AfterType DEF SetupDone
      <3>3. timer' \in BOOLEAN /\ entry' = TextAfter(a)
        BY <1>9 DEF SetupDone, EntrySet, TypeOK
      <3>4. QED
        BY <1>9, <2>1, <3>1, <3>2, <3>3, Calls DEF SetupDone, EntrySet, phone,
           waiting, daemon, TypeOK
    <2>3. ReadsInv'
      BY <2>1, Calls
    <2>4. BusyHasCause'
      BY <1>9, <2>1, BusyKept DEF SetupDone, AfterAction, waiting, Requests, Reads,
         Actions, Camera, Stops, Local
    <2>5. LabelIsForEntry'
      BY <1>9, <2>1, LabelKept DEF SetupDone, EntrySet, AfterAction
    <2>6. ShownInv'
      BY <1>9, <2>1, ShownKept DEF SetupDone, AfterAction, daemon, CameraCalls,
         Requests, Reads, Actions, Camera, Stops, Local
    <2>7. QED
      BY <2>2, <2>3, <2>4, <2>5, <2>6
  <1>10. ASSUME NEW a \in Outcomes, ConnectDone(a) PROVE Core'
    <2>1. /\ Proceed({"connect"}, {"status", "probe"} \cup {}, {}, TextAfter(a)) /\ {"connect"} \in SUBSET Requests
          /\ {"status", "probe"} \cup {} \in SUBSET Reads /\ {} \in SUBSET Actions
          /\ TextAfter(a) \in Endpoints \cup {NoEndpoint}
      BY <1>10, WindowAssumption DEF ConnectDone, AfterAction, Requests, Reads,
         Actions, Camera, Stops, Local, TypeOK, TextAfter
    <2>2. TypeOK'
      <3>1. moves' \in 0..MaxMoves
        BY <1>10, MovesType DEF ConnectDone
      <3>2. /\ busy' = FALSE /\ locked' \in BOOLEAN
            /\ label' \in Endpoints \cup {NoEndpoint} /\ connected' \in BOOLEAN
        BY <1>10, AfterType DEF ConnectDone
      <3>3. timer' \in BOOLEAN /\ entry' = TextAfter(a)
        BY <1>10 DEF ConnectDone, EntrySet, TypeOK
      <3>4. QED
        BY ZenonT(40), <1>10, <2>1, <3>1, <3>2, <3>3, Calls DEF ConnectDone, EntrySet, phone,
           waiting, daemon, TypeOK
    <2>3. ReadsInv'
      BY <2>1, Calls
    <2>4. BusyHasCause'
      BY <1>10, <2>1, BusyKept DEF ConnectDone, AfterAction, waiting, Requests,
         Reads, Actions, Camera, Stops, Local
    <2>5. LabelIsForEntry'
      BY <1>10, <2>1, LabelKept DEF ConnectDone, EntrySet, AfterAction
    <2>6. ShownInv'
      BY <1>10, <2>1, ShownKept DEF ConnectDone, AfterAction, daemon, CameraCalls,
         Requests, Reads, Actions, Camera, Stops, Local
    <2>7. QED
      BY <2>2, <2>3, <2>4, <2>5, <2>6
  <1>11. ASSUME NEW a \in Outcomes, PrepareDone(a) PROVE Core'
    <2>1. /\ Proceed({"prepare"}, {}, {"start"}, TextAfter(a)) /\ {"prepare"} \in SUBSET Requests
          /\ {} \in SUBSET Reads /\ {"start"} \in SUBSET Actions
          /\ TextAfter(a) \in Endpoints \cup {NoEndpoint}
      BY <1>11, WindowAssumption DEF PrepareDone, Requests, Reads, Actions, Camera,
         Stops, Local, TypeOK, TextAfter
    <2>2. TypeOK'
      <3>1. moves' \in 0..MaxMoves
        BY <1>11, MovesType DEF PrepareDone
      <3>2. timer' \in BOOLEAN /\ entry' = TextAfter(a)
        BY <1>11 DEF PrepareDone, EntrySet, TypeOK
      <3>3. QED
        BY <1>11, <2>1, <3>1, <3>2, Calls DEF PrepareDone, EntrySet, phone, waiting,
           daemon, TypeOK
    <2>3. ReadsInv'
      BY <2>1, Calls
    <2>4. BusyHasCause'
      BY <1>11, <2>1, BusyKept DEF PrepareDone, waiting, Requests, Reads, Actions,
         Camera, Stops, Local
    <2>5. LabelIsForEntry'
      BY <1>11, <2>1, LabelKept DEF PrepareDone, EntrySet, TextAfter, TypeOK
    <2>6. ShownInv'
      BY <1>11, <2>1, ShownKept DEF PrepareDone, daemon, CameraCalls, Requests,
         Reads, Actions, Camera, Stops, Local
    <2>7. QED
      BY <2>2, <2>3, <2>4, <2>5, <2>6
  <1>12. ASSUME NEW a \in Outcomes, LeaveDone(a) PROVE Core'
    <2>1. /\ Proceed({"leave"}, {"status"}, {}, entry) /\ {"leave"} \in SUBSET Requests
          /\ {"status"} \in SUBSET Reads /\ {} \in SUBSET Actions
          /\ entry \in Endpoints \cup {NoEndpoint}
      BY <1>12 DEF LeaveDone, Requests, Reads, Actions, Camera, Stops, Local, TypeOK
    <2>2. TypeOK'
      <3>1. moves' \in 0..MaxMoves
        BY <1>12, MovesType DEF LeaveDone
      <3>2. QED
        BY ZenonT(40), <1>12, <2>1, <3>1, Calls DEF LeaveDone, endpoint, phone, waiting, daemon,
           TypeOK
    <2>3. ReadsInv'
      BY <2>1, Calls
    <2>4. BusyHasCause'
      BY <1>12, <2>1, BusyKept DEF LeaveDone, waiting, Requests, Reads, Actions,
         Camera, Stops, Local
    <2>5. LabelIsForEntry'
      BY <1>12, <2>1, LabelKept DEF LeaveDone, endpoint
    <2>6. ShownInv'
      BY <1>12, <2>1, ShownKept DEF LeaveDone, daemon, CameraCalls, Requests, Reads,
         Actions, Camera, Stops, Local
    <2>7. QED
      BY <2>2, <2>3, <2>4, <2>5, <2>6
  <1>13. ASSUME NEW a \in Outcomes, LeaveWifiDone(a) PROVE Core'
    <2>1. /\ Proceed({"leaveWifi"}, {}, {"hangup"}, entry) /\ {"leaveWifi"} \in SUBSET Requests
          /\ {} \in SUBSET Reads /\ {"hangup"} \in SUBSET Actions
          /\ entry \in Endpoints \cup {NoEndpoint}
      BY <1>13 DEF LeaveWifiDone, Requests, Reads, Actions, Camera, Stops, Local,
         TypeOK
    <2>2. TypeOK'
      <3>1. moves' \in 0..MaxMoves
        BY <1>13, MovesType DEF LeaveWifiDone
      <3>2. QED
        BY <1>13, <2>1, <3>1, Calls DEF LeaveWifiDone, endpoint, phone, waiting,
           daemon, TypeOK
    <2>3. ReadsInv'
      BY <2>1, Calls
    <2>4. BusyHasCause'
      BY <1>13, <2>1, BusyKept DEF LeaveWifiDone, waiting, Requests, Reads, Actions,
         Camera, Stops, Local
    <2>5. LabelIsForEntry'
      BY <1>13, <2>1, LabelKept DEF LeaveWifiDone, endpoint
    <2>6. ShownInv'
      BY <1>13, <2>1, ShownKept DEF LeaveWifiDone, daemon, CameraCalls, Requests,
         Reads, Actions, Camera, Stops, Local
    <2>7. QED
      BY <2>2, <2>3, <2>4, <2>5, <2>6
  <1>14. ASSUME NEW a \in Outcomes, CheckDone(a) PROVE Core'
    <2>1. PICK asks \in SUBSET {"status"} : Proceed({"check"}, asks, {}, entry)
      BY <1>14 DEF CheckDone
    <2>2. /\ {"check"} \in SUBSET Requests /\ {"check"} \cap CameraCalls = {}
          /\ asks \in SUBSET Reads /\ {} \in SUBSET Actions
          /\ entry \in Endpoints \cup {NoEndpoint}
      BY DEF TypeOK, Requests, Reads, Actions, Camera, Stops, Local, CameraCalls
    <2>3. moves' \in 0..MaxMoves
      BY <1>14, MovesType DEF CheckDone
    <2>4. locked' \in BOOLEAN /\ (locked => locked') /\ asking' \subseteq {"reset", "helper"}
      <3>1. CASE a = "down"
        BY <1>14, <3>1 DEF CheckDone, TypeOK
      <3>2. CASE a # "down"
        <4>1. locked' = locked
          BY <1>14, <3>2 DEF CheckDone
        <4>2. asking' = asking \/ asking' = asking \cup {"reset"}
          BY <1>14, <3>2 DEF CheckDone
        <4>3. QED
          BY <4>1, <4>2 DEF TypeOK
      <3>3. QED
        BY <3>1, <3>2
    <2>5. TypeOK'
      BY ZenonT(40), <1>14, <2>1, <2>2, <2>3, <2>4, Calls DEF CheckDone, TypeOK, endpoint, phone, waiting, daemon
    <2>6. ReadsInv'
      BY <2>1, <2>2, Calls
    <2>7. BusyHasCause'
      BY <1>14 DEF CheckDone, BusyHasCause
    <2>8. LabelIsForEntry'
      BY <1>14, <2>1, <2>2, LabelKept DEF CheckDone, endpoint
    <2>9. ShownInv'
      BY <1>14, <2>1, <2>2, <2>4, ShownKept DEF CheckDone, daemon
    <2>10. QED
      BY <2>5, <2>6, <2>7, <2>8, <2>9
  <1>15. ASSUME NEW a \in {"ok", "fail"}, HelperDone(a) PROVE Core'
    <2>1. /\ Proceed({"helper"}, {}, {}, entry) /\ {"helper"} \in SUBSET Requests
          /\ {} \in SUBSET Reads /\ {} \in SUBSET Actions
          /\ entry \in Endpoints \cup {NoEndpoint}
      BY <1>15 DEF HelperDone, CommandEnds, Requests, Reads, Actions, Camera, Stops,
         Local, TypeOK
    <2>2. TypeOK'
      <3>1. moves' \in 0..MaxMoves
        BY <1>15, MovesType DEF HelperDone, CommandEnds
      <3>2. QED
        BY ZenonT(40), <1>15, <2>1, <3>1, Calls DEF HelperDone, CommandEnds, endpoint, phone,
           waiting, daemon, TypeOK
    <2>3. ReadsInv'
      BY <2>1, Calls
    <2>4. BusyHasCause'
      BY <1>15, <2>1, BusyKept DEF HelperDone, waiting, Requests, Reads, Actions,
         Camera, Stops, Local
    <2>5. LabelIsForEntry'
      BY <1>15, <2>1, LabelKept DEF HelperDone, endpoint
    <2>6. ShownInv'
      BY <1>15, <2>1, ShownKept DEF HelperDone, daemon, CameraCalls, Requests,
         Reads, Actions, Camera, Stops, Local
    <2>7. QED
      BY <2>2, <2>3, <2>4, <2>5, <2>6
  <1>16. ASSUME NEW a \in {"ok", "fail"}, EnableDone(a) PROVE Core'
    <2>1. /\ Proceed({"enable"}, {}, {}, entry) /\ {"enable"} \in SUBSET Requests
          /\ {} \in SUBSET Reads /\ {} \in SUBSET Actions
          /\ entry \in Endpoints \cup {NoEndpoint}
      BY <1>16 DEF EnableDone, CommandEnds, Requests, Reads, Actions, Camera, Stops,
         Local, TypeOK
    <2>2. TypeOK'
      <3>1. moves' \in 0..MaxMoves
        BY <1>16, MovesType DEF EnableDone, CommandEnds
      <3>2. busy' \in BOOLEAN /\ up' \in BOOLEAN
        BY <1>16 DEF EnableDone, TypeOK, waiting
      <3>3. ticks' \subseteq {"idle", "timer"}
        BY <1>16 DEF EnableDone, TypeOK, waiting
      <3>4. remaining' = Attempts \/ remaining' = remaining
        BY <1>16 DEF EnableDone, waiting
      <3>5. remaining' \in -1..Attempts
        BY <3>4, WindowAssumption DEF TypeOK
      <3>6. QED
        BY <1>16, <2>1, <3>1, <3>2, <3>3, <3>4, <3>5, Calls DEF EnableDone,
           CommandEnds, endpoint, phone, waiting, TypeOK
    <2>3. ReadsInv'
      BY <2>1, Calls
    <2>4. BusyHasCause'
      BY <1>16, <2>1, BusyKept DEF EnableDone, waiting, Requests, Reads, Actions,
         Camera, Stops, Local
    <2>5. LabelIsForEntry'
      BY <1>16, <2>1, LabelKept DEF EnableDone, endpoint
    <2>6. ShownInv'
      BY <1>16, <2>1, ShownKept DEF EnableDone, CameraCalls, Requests, Reads,
         Actions, Camera, Stops, Local
    <2>7. QED
      BY <2>2, <2>3, <2>4, <2>5, <2>6
  <1>17. ASSUME NEW s \in {"idle", "timer"}, Tick(s) PROVE Core'
    <2>1. /\ Proceed({}, {"status"}, {}, entry) /\ {} \in SUBSET Requests
          /\ {"status"} \in SUBSET Reads /\ {} \in SUBSET Actions
          /\ entry \in Endpoints \cup {NoEndpoint}
      BY <1>17 DEF Tick, Requests, Reads, Actions, Camera, Stops, Local, TypeOK
    <2>2. TypeOK'
      <3>1. moves' \in 0..MaxMoves
        BY <1>17, MovesType DEF Tick
      <3>2. remaining' \in -1..Attempts
        BY <1>17, WindowAssumption DEF Tick, TickInv, TypeOK
      <3>3. busy' \in BOOLEAN /\ ticks' \subseteq {"idle", "timer"}
        BY <1>17 DEF Tick, TypeOK
      <3>4. QED
        BY <1>17, <2>1, <3>1, <3>2, <3>3, Calls DEF Tick, endpoint, phone, daemon,
           TypeOK
    <2>3. ReadsInv'
      BY <2>1, Calls
    <2>4. BusyHasCause'
      BY <1>17, <2>1, BusyKept DEF Tick, Requests, Reads, Actions, Camera, Stops,
         Local
    <2>5. LabelIsForEntry'
      BY <1>17, <2>1, LabelKept DEF Tick, endpoint
    <2>6. ShownInv'
      BY <1>17, <2>1, ShownKept DEF Tick, daemon, CameraCalls, Requests, Reads,
         Actions, Camera, Stops, Local
    <2>7. QED
      BY <2>2, <2>3, <2>4, <2>5, <2>6
  \* The user.
  <1>18. ASSUME ClickScan PROVE Core'
    <2>1. /\ Proceed({}, {"scan"}, {}, entry) /\ {} \in SUBSET Requests
          /\ {"scan"} \in SUBSET Reads /\ {} \in SUBSET Actions
          /\ entry \in Endpoints \cup {NoEndpoint}
      BY <1>18 DEF ClickScan, Requests, Reads, Actions, Camera, Stops, Local, TypeOK
    <2>2. TypeOK'
      <3>1. moves' \in 0..MaxMoves
        BY <1>18, MovesType DEF ClickScan
      <3>2. QED
        BY <1>18, <2>1, <3>1, Calls DEF ClickScan, endpoint, phone, waiting, daemon,
           TypeOK
    <2>3. ReadsInv'
      BY <2>1, Calls
    <2>4. BusyHasCause'
      BY <1>18, <2>1, BusyKept DEF ClickScan, waiting, Requests, Reads, Actions,
         Camera, Stops, Local
    <2>5. LabelIsForEntry'
      BY <1>18, <2>1, LabelKept DEF ClickScan, endpoint
    <2>6. ShownInv'
      BY <1>18, <2>1, ShownKept DEF ClickScan, daemon, CameraCalls, Requests, Reads,
         Actions, Camera, Stops, Local
    <2>7. QED
      BY <2>2, <2>3, <2>4, <2>5, <2>6
  <1>19. ASSUME ClickRefresh PROVE Core'
    <2>1. /\ Proceed({}, {"status"}, {}, entry) /\ {} \in SUBSET Requests
          /\ {"status"} \in SUBSET Reads /\ {} \in SUBSET Actions
          /\ entry \in Endpoints \cup {NoEndpoint}
      BY <1>19 DEF ClickRefresh, Requests, Reads, Actions, Camera, Stops, Local,
         TypeOK
    <2>2. TypeOK'
      <3>1. moves' \in 0..MaxMoves
        BY <1>19, MovesType DEF ClickRefresh
      <3>2. QED
        BY <1>19, <2>1, <3>1, Calls DEF ClickRefresh, endpoint, phone, waiting,
           daemon, TypeOK
    <2>3. ReadsInv'
      BY <2>1, Calls
    <2>4. BusyHasCause'
      BY <1>19, <2>1, BusyKept DEF ClickRefresh, waiting, Requests, Reads, Actions,
         Camera, Stops, Local
    <2>5. LabelIsForEntry'
      BY <1>19, <2>1, LabelKept DEF ClickRefresh, endpoint
    <2>6. ShownInv'
      BY <1>19, <2>1, ShownKept DEF ClickRefresh, daemon, CameraCalls, Requests,
         Reads, Actions, Camera, Stops, Local
    <2>7. QED
      BY <2>2, <2>3, <2>4, <2>5, <2>6
  <1>20. ASSUME ClickStream PROVE Core'
    <2>1. PICK k \in {"stop", "prepare", "start"} : Act(k)
      BY <1>20 DEF ClickStream
    <2>2. /\ Proceed({}, {}, {k}, entry) /\ {} \in SUBSET Requests
          /\ {} \in SUBSET Reads /\ {k} \in SUBSET Actions
          /\ entry \in Endpoints \cup {NoEndpoint}
      BY <2>1 DEF Act, TypeOK, Actions, Camera, Stops, Local
    <2>3. TypeOK'
      BY <1>20, <2>1, <2>2, Calls, WindowAssumption
      DEF ClickStream, Act, TypeOK, Move, endpoint, phone, waiting, daemon
    <2>4. ReadsInv'
      BY <2>2, Calls
    <2>5. BusyHasCause'
      BY <1>20, <2>2, BusyKept DEF ClickStream, waiting
    <2>6. LabelIsForEntry'
      BY <1>20, <2>2, LabelKept DEF ClickStream, endpoint
    <2>7. ShownInv'
      BY <1>20, <2>2, ShownKept DEF ClickStream, daemon
    <2>8. QED
      BY <2>3, <2>4, <2>5, <2>6, <2>7
  <1>21. ASSUME ClickConnect PROVE Core'
    <2>1. PICK k \in {"manual", "setup", "connect"} : Act(k)
      BY <1>21 DEF ClickConnect, UseSends
    <2>2. /\ Proceed({}, {}, {k}, entry) /\ {} \in SUBSET Requests
          /\ {} \in SUBSET Reads /\ {k} \in SUBSET Actions
          /\ entry \in Endpoints \cup {NoEndpoint}
      BY <2>1 DEF Act, TypeOK, Actions, Camera, Stops, Local
    <2>3. TypeOK'
      BY <1>21, <2>1, <2>2, Calls, WindowAssumption
      DEF ClickConnect, Act, TypeOK, Move, endpoint, phone, waiting, daemon
    <2>4. ReadsInv'
      BY <2>2, Calls
    <2>5. BusyHasCause'
      BY <1>21, <2>2, BusyKept DEF ClickConnect, waiting
    <2>6. LabelIsForEntry'
      BY <1>21, <2>2, LabelKept DEF ClickConnect, endpoint
    <2>7. ShownInv'
      BY <1>21, <2>2, ShownKept DEF ClickConnect, daemon
    <2>8. QED
      BY <2>3, <2>4, <2>5, <2>6, <2>7
  <1>22. ASSUME ClickDisconnect PROVE Core'
    <2>1. PICK k \in {"hangup", "leaveWifi", "leave"} : Act(k)
      BY <1>22 DEF ClickDisconnect
    <2>2. /\ Proceed({}, {}, {k}, entry) /\ {} \in SUBSET Requests
          /\ {} \in SUBSET Reads /\ {k} \in SUBSET Actions
          /\ entry \in Endpoints \cup {NoEndpoint}
      BY <2>1 DEF Act, TypeOK, Actions, Camera, Stops, Local
    <2>3. TypeOK'
      BY <1>22, <2>1, <2>2, Calls, WindowAssumption
      DEF ClickDisconnect, Act, TypeOK, Move, endpoint, phone, waiting, daemon
    <2>4. ReadsInv'
      BY <2>2, Calls
    <2>5. BusyHasCause'
      BY <1>22, <2>2, BusyKept DEF ClickDisconnect, waiting
    <2>6. LabelIsForEntry'
      BY <1>22, <2>2, LabelKept DEF ClickDisconnect, endpoint
    <2>7. ShownInv'
      BY <1>22, <2>2, ShownKept DEF ClickDisconnect, daemon
    <2>8. QED
      BY <2>3, <2>4, <2>5, <2>6, <2>7
  <1>23. ASSUME ClickVersion PROVE Core'
    <2>1. PICK k \in {"check"} : Act(k)
      BY <1>23 DEF ClickVersion
    <2>2. /\ Proceed({}, {}, {k}, entry) /\ {} \in SUBSET Requests
          /\ {} \in SUBSET Reads /\ {k} \in SUBSET Actions
          /\ entry \in Endpoints \cup {NoEndpoint}
      BY <2>1 DEF Act, TypeOK, Actions, Camera, Stops, Local
    <2>3. TypeOK'
      BY <1>23, <2>1, <2>2, Calls, WindowAssumption
      DEF ClickVersion, Act, TypeOK, Move, endpoint, phone, waiting, daemon
    <2>4. ReadsInv'
      BY <2>2, Calls
    <2>5. BusyHasCause'
      BY <1>23, <2>2, BusyKept DEF ClickVersion, waiting
    <2>6. LabelIsForEntry'
      BY <1>23, <2>2, LabelKept DEF ClickVersion, endpoint
    <2>7. ShownInv'
      BY <1>23, <2>2, ShownKept DEF ClickVersion, daemon
    <2>8. QED
      BY <2>3, <2>4, <2>5, <2>6, <2>7
  <1>24. ASSUME ClickEnable PROVE Core'
    <2>1. PICK k \in {"enable"} : Act(k)
      BY <1>24 DEF ClickEnable
    <2>2. /\ Proceed({}, {}, {k}, entry) /\ {} \in SUBSET Requests
          /\ {} \in SUBSET Reads /\ {k} \in SUBSET Actions
          /\ entry \in Endpoints \cup {NoEndpoint}
      BY <2>1 DEF Act, TypeOK, Actions, Camera, Stops, Local
    <2>3. TypeOK'
      BY <1>24, <2>1, <2>2, Calls, WindowAssumption
      DEF ClickEnable, Act, TypeOK, Move, endpoint, phone, waiting, daemon
    <2>4. ReadsInv'
      BY <2>2, Calls
    <2>5. BusyHasCause'
      BY <1>24, <2>2, BusyKept DEF ClickEnable, waiting
    <2>6. LabelIsForEntry'
      BY <1>24, <2>2, LabelKept DEF ClickEnable, endpoint
    <2>7. ShownInv'
      BY <1>24, <2>2, ShownKept DEF ClickEnable, daemon
    <2>8. QED
      BY <2>3, <2>4, <2>5, <2>6, <2>7
  <1>25. ASSUME NEW d \in {"reset", "helper"}, Ask(d) PROVE Core'
    <2>1. TypeOK'
      BY <1>25, WindowAssumption DEF Ask, TypeOK, Move, calls, endpoint, phone, waiting, daemon
    <2>2. ReadsInv' /\ BusyHasCause'
      BY <1>25 DEF Ask, ReadsInv, BusyHasCause, calls, waiting
    <2>3. LabelIsForEntry'
      BY <1>25 DEF Ask, LabelIsForEntry, calls, endpoint
    <2>4. ShownInv'
      BY <1>25 DEF Ask, ShownInv, TypeOK, calls, daemon
    <2>5. QED
      BY <2>1, <2>2, <2>3, <2>4
  <1>26. ASSUME NEW d \in {"reset", "helper"}, Confirm(d) PROVE Core'
    <2>1. Act(d) \/ UNCHANGED <<calls, busy>>
      BY <1>26 DEF Confirm
    <2>2. CASE Act(d)
      <3>1. /\ Proceed({}, {}, {d}, entry) /\ {} \in SUBSET Requests
            /\ {} \in SUBSET Reads /\ {d} \in SUBSET Actions
            /\ entry \in Endpoints \cup {NoEndpoint}
        BY <2>2 DEF Act, TypeOK, Actions, Camera, Stops, Local
      <3>2. TypeOK'
        BY <1>26, <2>2, <3>1, Calls, WindowAssumption
        DEF Confirm, Act, TypeOK, Move, endpoint, phone, waiting, daemon
      <3>3. ReadsInv'
        BY <3>1, Calls
      <3>4. BusyHasCause'
        BY <1>26, <3>1, BusyKept DEF Confirm, waiting
      <3>5. LabelIsForEntry'
        BY <1>26, <3>1, LabelKept DEF Confirm, endpoint
      <3>6. ShownInv'
        BY <1>26, <3>1, ShownKept DEF Confirm, daemon
      <3>7. QED
        BY <3>2, <3>3, <3>4, <3>5, <3>6
    <2>3. CASE UNCHANGED <<calls, busy>>
      <3>1. TypeOK'
        BY <1>26, <2>3, WindowAssumption DEF Confirm, TypeOK, Move, calls, endpoint, phone, waiting, daemon
      <3>2. ReadsInv' /\ BusyHasCause'
        BY <1>26, <2>3 DEF Confirm, ReadsInv, BusyHasCause, calls, waiting
      <3>3. LabelIsForEntry'
        BY <1>26, <2>3 DEF Confirm, LabelIsForEntry, calls, endpoint
      <3>4. ShownInv'
        BY <1>26, <2>3 DEF Confirm, ShownInv, TypeOK, calls, daemon
      <3>5. QED
        BY <3>1, <3>2, <3>3, <3>4
    <2>4. QED
      BY <2>1, <2>2, <2>3
  <1>27. ASSUME NEW e \in Endpoints \cup {NoEndpoint}, Type(e) PROVE Core'
    <2>1. TypeOK'
      BY <1>27, WindowAssumption DEF Type, TypeOK, Move, calls, endpoint, phone, waiting, daemon
    <2>2. ReadsInv' /\ BusyHasCause'
      BY <1>27 DEF Type, ReadsInv, BusyHasCause, calls, waiting
    <2>3. LabelIsForEntry'
      BY <1>27 DEF Type, LabelIsForEntry, calls, endpoint
    <2>4. ShownInv'
      BY <1>27 DEF Type, ShownInv, TypeOK, calls, daemon
    <2>5. QED
      BY <2>1, <2>2, <2>3, <2>4
  <1>28. ASSUME NEW m \in {"usb", "wifi"}, ChooseMode(m) PROVE Core'
    <2>1. TypeOK'
      BY <1>28, WindowAssumption DEF ChooseMode, TypeOK, Move, calls, endpoint, phone, waiting, daemon
    <2>2. ReadsInv' /\ BusyHasCause'
      BY <1>28 DEF ChooseMode, ReadsInv, BusyHasCause, calls, waiting
    <2>3. LabelIsForEntry'
      BY <1>28 DEF ChooseMode, LabelIsForEntry, calls, endpoint
    <2>4. ShownInv'
      BY <1>28 DEF ChooseMode, ShownInv, TypeOK, calls, daemon
    <2>5. QED
      BY <2>1, <2>2, <2>3, <2>4
  \* The daemon.
  <1>29. ASSUME Status PROVE Core'
    <2>1. at["status"] = "sent" /\ "status" \notin CameraCalls
      BY <1>29 DEF Status, Answer, CameraCalls, Camera, Stops
    <2>2. PICK x \in {"on", "off", "down"} :
            /\ at' = [at EXCEPT !["status"] = x]
            /\ x # "down" => x = (IF camera THEN "on" ELSE "off")
            /\ x = "down" => unseen' = unseen
      BY <1>29 DEF Status, Answer
    <2>3. TypeOK'
      <3>1. moves' \in 0..MaxMoves
        BY <1>29, MovesType DEF Status
      <3>2. unseen' \in BOOLEAN
        BY <1>29 DEF Status, TypeOK
      <3>3. at' \in [Requests -> {"none", "sent", "ok", "fail", "down", "on", "off"}]
        BY <2>2 DEF TypeOK
      <3>4. QED
        BY <1>29, <3>1, <3>2, <3>3 DEF Status, TypeOK, endpoint, phone, waiting
    <2>4. ReadsInv'
      BY <1>29, <2>2 DEF Status, ReadsInv, TypeOK
    <2>5. BusyHasCause'
      BY <1>29, <2>2 DEF Status, BusyHasCause, TypeOK, waiting, Requests
    <2>6. LabelIsForEntry'
      BY <1>29, <2>2 DEF Status, LabelIsForEntry, TypeOK, endpoint, Requests, Reads
    <2>7. ShownInv'
      BY <1>29, <2>1, <2>2 DEF Status, ShownInv, TypeOK, Requests, Reads
    <2>8. QED
      BY <2>3, <2>4, <2>5, <2>6, <2>7
  <1>30. ASSUME NEW r \in Camera, NEW a \in Outcomes, Post(r, a) PROVE Core'
    <2>1. /\ at[r] = "sent" /\ at' = [at EXCEPT ![r] = a] /\ r \in CameraCalls
          /\ r \in Requests /\ r \notin Reads /\ a # "none"
      BY <1>30 DEF Post, Answer, CameraCalls, Camera, Stops, Requests, Reads, Actions, Outcomes
    <2>2. camera' \in BOOLEAN
      BY <1>30 DEF Post, TypeOK, Outcomes
    <2>3. TypeOK'
      BY <1>30, <2>1, <2>2, WindowAssumption
      DEF Post, TypeOK, Outcomes, Replies, Works, Unreachable, Move, endpoint, phone, waiting
    <2>4. ReadsInv'
      BY <1>30, <2>1 DEF Post, ReadsInv, TypeOK
    <2>5. BusyHasCause'
      BY <1>30, <2>1 DEF Post, BusyHasCause, TypeOK, waiting, Requests
    <2>6. LabelIsForEntry'
      BY <1>30, <2>1 DEF Post, LabelIsForEntry, TypeOK, endpoint, Reads
    <2>7. ShownInv'
      BY <2>1 DEF ShownInv, TypeOK
    <2>8. QED
      BY <2>3, <2>4, <2>5, <2>6, <2>7
  <1>31. ASSUME CameraChanges PROVE Core'
    <2>1. TypeOK'
      BY <1>31, WindowAssumption DEF CameraChanges, TypeOK, Move, calls, endpoint, phone, waiting, daemon
    <2>2. ReadsInv' /\ BusyHasCause'
      BY <1>31 DEF CameraChanges, ReadsInv, BusyHasCause, calls, waiting
    <2>3. LabelIsForEntry'
      BY <1>31 DEF CameraChanges, LabelIsForEntry, calls, endpoint
    <2>4. ShownInv'
      BY <1>31 DEF CameraChanges, ShownInv, TypeOK, calls, daemon
    <2>5. QED
      BY <2>1, <2>2, <2>3, <2>4
  <1>32. ASSUME DaemonStops PROVE Core'
    <2>1. TypeOK'
      BY <1>32, MovesType, Zenon DEF DaemonStops, TypeOK, calls, endpoint, phone, waiting, daemon
    <2>2. ReadsInv' /\ BusyHasCause'
      BY <1>32 DEF DaemonStops, ReadsInv, BusyHasCause, calls, waiting
    <2>3. LabelIsForEntry'
      BY <1>32 DEF DaemonStops, LabelIsForEntry, calls, endpoint
    <2>4. ShownInv'
      BY <1>32 DEF DaemonStops, ShownInv, TypeOK, calls, daemon
    <2>5. QED
      BY <2>1, <2>2, <2>3, <2>4
  <1>33. ASSUME DaemonStarts PROVE Core'
    <2>1. TypeOK'
      BY <1>33, WindowAssumption DEF DaemonStarts, TypeOK, Move, calls, endpoint, phone, waiting, daemon
    <2>2. ReadsInv' /\ BusyHasCause'
      BY <1>33 DEF DaemonStarts, ReadsInv, BusyHasCause, calls, waiting
    <2>3. LabelIsForEntry'
      BY <1>33 DEF DaemonStarts, LabelIsForEntry, calls, endpoint
    <2>4. ShownInv'
      BY <1>33 DEF DaemonStarts, ShownInv, TypeOK, calls, daemon
    <2>5. QED
      BY <2>1, <2>2, <2>3, <2>4
  <1>34. ASSUME UNCHANGED vars PROVE Core'
    <2>1. TypeOK'
      BY <1>34 DEF vars, TypeOK, calls, endpoint, phone, waiting, daemon
    <2>2. QED
      BY <1>34, <2>1
      DEF vars, ReadsInv, LabelIsForEntry, BusyHasCause, ShownInv, calls, endpoint, phone,
          waiting, daemon
  <1>35. QED
    BY <1>1, <1>2, <1>3, <1>4, <1>5, <1>6, <1>7, <1>8, <1>9, <1>10, <1>11,
       <1>12, <1>13, <1>14, <1>15, <1>16, <1>17, <1>18, <1>19, <1>20, <1>21,
       <1>22, <1>23, <1>24, <1>25, <1>26, <1>27, <1>28, <1>29, <1>30, <1>31,
       <1>32, <1>33, <1>34
    DEF Next, Callback, User, Daemon, Elsewhere

LEMMA InvStep == IInv /\ [Next]_vars => IInv'
  BY CoreStep, TickStep DEF IInv, Core

-----------------------------------------------------------------------------

\* The inductive invariant of the window.
THEOREM WindowInvariant == Spec => []IInv
  BY InvInit, InvStep, PTL DEF Spec

\* Every variable has its type, whatever arrives in whatever order; of the two
\* sources that count the attempts down the second goes one below zero at most.
THEOREM TypeCorrect == Spec => []TypeOK
  <1>1. IInv => TypeOK
    BY DEF IInv, Core
  <1>2. QED
    BY <1>1, WindowInvariant, PTL

\* No poll, scan or probe that was asked for in flight is lost.
THEOREM NoReadLostAlways == Spec => []NoReadLost
  <1>1. IInv => NoReadLost
    BY DEF IInv, Core, ReadsInv, NoReadLost
  <1>2. QED
    BY <1>1, WindowInvariant, PTL

\* The stream button is right once all answers are in.
THEOREM ShownIsTrueAlways == Spec => []ShownIsTrue
  <1>1. CameraCalls \subseteq Actions
    BY DEF CameraCalls, Actions, Camera, Stops
  <1>2. IInv => ShownIsTrue
    BY <1>1 DEF IInv, Core, ShownInv, ShownIsTrue
  <1>3. QED
    BY <1>2, WindowInvariant, PTL

\* A late answer never labels another endpoint than the entry's.
THEOREM LabelIsForEntryAlways == Spec => []LabelIsForEntry
  <1>1. IInv => LabelIsForEntry
    BY DEF IInv, Core
  <1>2. QED
    BY <1>1, WindowInvariant, PTL

\* A busy window always waits for an answer or a timer.
THEOREM BusyHasCauseAlways == Spec => []BusyHasCause
  <1>1. IInv => BusyHasCause
    BY DEF IInv, Core
  <1>2. QED
    BY <1>1, WindowInvariant, PTL
=============================================================================
