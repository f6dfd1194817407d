------------------------ MODULE AndroidDevicesProofs ------------------------
(***************************************************************************)
(* Proofs about AndroidDevices, for every number of phones, endpoints,     *)
(* requests and attempts.                                                  *)
(***************************************************************************)
EXTENDS AndroidDevices, Integers, FiniteSets, FiniteSetTheorems, TLAPS

\* What a handler h knows at each of its commands: the serial or the endpoint
\* it is about, both of the phone its command is for; and how often it looked.
Fits(h) ==
  /\ h.at \in {"tcpip", "enable", "address"} => h.serial # None
  /\ h.at \in {"connect", "dial", "await", "hangup"} => h.addr # None
  /\ h.phone # None => h.serial # None
  /\ h.serial # None => h.phone = PhoneOf(h.serial)
  /\ h.addr # None => h.phone = Owner[h.addr]
  /\ h.tries < Most(h.at)

HandlerInv == \A r \in Requests : Fits(req[r])

\* The inductive invariant.
IInv == TypeOK /\ HandlerInv
-----------------------------------------------------------------------------

\* A serial belongs to a phone.
LEMMA PhoneOfType == \A s \in Serials : PhoneOf(s) \in Phones
  BY AdbAssumption DEF Serials, PhoneOf

\* The handlers' records that steps start from have their type.
LEMMA RequestType ==
  /\ Idle \in Handlers
  /\ \A step \in Steps, s \in Serials \cup {None} : Request(step, s) \in Handlers
  /\ \A step \in Steps, s \in Addrs :
       [Request(step, s) EXCEPT !.addr = s] \in Handlers
  <1>1. Idle \in Handlers
    BY AdbAssumption DEF Idle, Handlers, Steps, Nothing, Listing
  <1>2. ASSUME NEW step \in Steps, NEW s \in Serials \cup {None}
        PROVE  Request(step, s) \in Handlers
    BY <1>1, PhoneOfType, AdbAssumption DEF Request, Handlers, Idle
  <1>3. ASSUME NEW step \in Steps, NEW s \in Addrs
        PROVE  [Request(step, s) EXCEPT !.addr = s] \in Handlers
    BY <1>2, AdbAssumption DEF Handlers, Serials
  <1>4. QED
    BY <1>1, <1>2, <1>3

\* The fields a request starts with.
LEMMA RequestFields ==
  ASSUME NEW step, NEW s
  PROVE  /\ Request(step, s).at = step /\ Request(step, s).serial = s
         /\ Request(step, s).addr = None /\ Request(step, s).tries = 0
         /\ Request(step, s).phone = IF s = None THEN None ELSE PhoneOf(s)
         /\ Request(step, s).list = Nothing
  BY DEF Request, Idle

\* Every step may be taken once.
LEMMA MostType == \A step : Most(step) \in Nat /\ 0 < Most(step)
  BY AdbAssumption DEF Most

\* The daemon just started satisfies the invariant.
LEMMA InvInit == Init => IInv
  BY RequestType, MostType, AdbAssumption
  DEF Init, IInv, TypeOK, HandlerInv, Fits, Idle, Nothing, Listing

\* A step of one handler keeps the invariant when the record it leaves fits.
LEMMA OneHandler ==
  ASSUME IInv, NEW r \in Requests, NEW h \in Handlers, Fits(h),
         req' = [req EXCEPT ![r] = h],
         adb' \in Listing, camera' \in Serials \cup {None},
         mine' \in Requests \cup {None}
  PROVE  IInv'
  <1>1. req' \in [Requests -> Handlers]
    BY DEF IInv, TypeOK
  <1>2. \A q \in Requests : req'[q] = IF q = r THEN h ELSE req[q]
    BY DEF IInv, TypeOK
  <1>3. \A q \in Requests : Fits(req'[q])
    BY <1>2 DEF IInv, HandlerInv
  <1>4. \A q \in Requests : Fits(req[q])'
    BY <1>3 DEF Fits, PhoneOf
  <1>5. TypeOK'
    BY <1>1, <1>3 DEF TypeOK, Fits
  <1>6. QED
    BY <1>4, <1>5 DEF IInv, HandlerInv

\* The ends of the handlers' commands: an answer, ...
LEMMA DoneKeeps ==
  ASSUME IInv, NEW r \in Requests, Done(r),
         adb' \in Listing, camera' \in Serials \cup {None}
  PROVE  IInv'
  <1>1. Fits(Idle)
    BY MostType, AdbAssumption DEF Fits, Idle
  <1>2. mine' \in Requests \cup {None}
    BY DEF Done, IInv, TypeOK
  <1>3. QED
    BY <1>1, <1>2, RequestType, OneHandler DEF Done

\* ... the next command, ...
LEMMA GoesKeeps ==
  ASSUME IInv, NEW r \in Requests, NEW step \in Steps, Goes(r, step),
         step \in {"tcpip", "enable", "address"} => req[r].serial # None,
         step \in {"connect", "dial", "await", "hangup"} => req[r].addr # None,
         adb' \in Listing, camera' \in Serials \cup {None}
  PROVE  IInv'
  <1> DEFINE h == [req[r] EXCEPT !.at = step, !.tries = 0]
  <1>1. req[r] \in Handlers /\ Fits(req[r])
    BY DEF IInv, TypeOK, HandlerInv
  <1>2. h \in Handlers
    BY <1>1 DEF Handlers
  <1>3. Fits(h)
    BY <1>1, <1>2, MostType, AdbAssumption DEF Fits, Handlers
  <1>4. req' = [req EXCEPT ![r] = h]
    BY DEF Goes
  <1>5. mine' \in Requests \cup {None}
    BY DEF Goes, IInv, TypeOK
  <1>6. QED
    BY <1>2, <1>3, <1>4, <1>5, OneHandler

\* ... another look, ...
LEMMA AgainKeeps ==
  ASSUME IInv, NEW r \in Requests, NEW max, max = Most(req[r].at),
         NEW step \in {"idle", "await"}, Again(r, max, step),
         step = "await" => req[r].addr # None,
         adb' \in Listing, camera' \in Serials \cup {None}
  PROVE  IInv'
  <1>1. CASE req[r].tries + 1 < max
    <2> DEFINE h == [req[r] EXCEPT !.tries = @ + 1]
    <2>1. req[r] \in Handlers /\ Fits(req[r])
      BY DEF IInv, TypeOK, HandlerInv
    <2>2. h \in Handlers
      BY <2>1 DEF Handlers
    <2>3. Fits(h)
      BY <1>1, <2>1, <2>2 DEF Fits, Handlers
    <2>4. req' = [req EXCEPT ![r] = h]
      BY <1>1 DEF Again
    <2>5. mine' \in Requests \cup {None}
      BY <1>1 DEF Again, IInv, TypeOK
    <2>6. QED
      BY <2>2, <2>3, <2>4, <2>5, OneHandler
  <1>2. CASE ~(req[r].tries + 1 < max) /\ step = "idle"
    BY <1>2, DoneKeeps DEF Again
  <1>3. CASE ~(req[r].tries + 1 < max) /\ step = "await"
    BY <1>3, GoesKeeps DEF Again, Steps
  <1>4. QED
    BY <1>1, <1>2, <1>3

\* ... or the command line's next request.
LEMMA GoesOnKeeps ==
  ASSUME IInv, NEW r \in Requests, NEW h \in Handlers, Fits(h), GoesOn(r, h),
         adb' \in Listing, camera' \in Serials \cup {None}
  PROVE  IInv'
  <1>1. CASE mine = r
    BY <1>1, OneHandler DEF GoesOn, IInv, TypeOK
  <1>2. CASE mine # r
    BY <1>2, DoneKeeps DEF GoesOn
  <1>3. QED
    BY <1>1, <1>2

\* A new request about a serial, or about none, fits.
LEMMA RequestFits ==
  ASSUME NEW step \in Steps, NEW s \in Serials \cup {None},
         step \in {"tcpip", "enable", "address"} => s # None,
         step \notin {"connect", "dial", "await", "hangup"}
  PROVE  Fits(Request(step, s))
  BY RequestFields, PhoneOfType, MostType, AdbAssumption DEF Fits

\* A client's request, with what the daemon keeps of it, keeps the invariant.
LEMMA AsksKeeps ==
  ASSUME IInv, NEW r \in Requests, NEW h \in Handlers, Fits(h), Asks(r, h),
         mine' \in Requests \cup {None}
  PROVE  IInv'
  BY OneHandler DEF Asks, IInv, TypeOK

\* What the commands of adb read and change keeps its type.
LEMMA Listings ==
  ASSUME IInv
  PROVE  /\ adb \in Listing /\ Nothing \in Listing
         /\ camera \in Serials \cup {None} /\ mine \in Requests \cup {None}
         /\ \A p \in Phones : Restarted(p) \in Listing
         /\ \A s \in Serials : \A x \in {"absent", "offline", "device"} :
              [adb EXCEPT ![s] = x] \in Listing
         /\ \A r \in Requests : req[r] \in Handlers /\ Fits(req[r])
  BY DEF IInv, TypeOK, HandlerInv, Listing, Nothing, Restarted

\* The serials the command line may pick are serials.
LEMMA PickedType ==
  ASSUME NEW l \in Listing, NEW known \in SUBSET Ready(l)
  PROVE  Picked(l, known) \subseteq Serials
  <1>1. \A row \in Rows(l, known) : row \subseteq Serials
    BY DEF Rows, Ready, Listed
  <1>2. Recommended(l, known) \subseteq Serials
    BY <1>1 DEF Recommended, Primary
  <1>3. UNION {row \in Rows(l, known) : RowReady(l, row)} \subseteq Serials
    BY <1>1
  <1>4. QED
    BY <1>2, <1>3 DEF Picked

\* Every command of every handler, and every change of the phones between
\* them, keeps the invariant.
LEMMA InvStep == IInv /\ [Next]_vars => IInv'
  <1> SUFFICES ASSUME IInv, [Next]_vars PROVE IInv'
    OBVIOUS
  <1> USE Listings
<1>1. ASSUME NEW r \in Others, NEW s \in Serials \cup {None}, WifiSetup(r, s) PROVE IInv'
  BY <1>1, RequestFits, RequestType, AsksKeeps DEF WifiSetup, Requests, Steps
<1>2. ASSUME NEW r \in Others, NEW s \in Serials, WifiEnable(r, s) PROVE IInv'
  BY <1>2, RequestFits, RequestType, AsksKeeps, AdbAssumption
     DEF WifiEnable, Requests, Steps, Serials
<1>3. ASSUME NEW r \in Others, NEW a \in Addrs, NEW step \in {"dial", "hangup"},
             Asks(r, [Request(step, a) EXCEPT !.addr = a]), UNCHANGED mine
      PROVE  IInv'
  <2> DEFINE h == [Request(step, a) EXCEPT !.addr = a]
  <2>1. h \in Handlers
    BY RequestType DEF Steps
  <2>2. /\ h.at = step /\ h.serial = a /\ h.addr = a /\ h.tries = 0
        /\ h.phone = PhoneOf(a)
    BY RequestFields, AdbAssumption DEF Request, Idle
  <2>3. Fits(h)
    BY <2>2, MostType, AdbAssumption DEF Fits, PhoneOf
  <2>4. QED
    BY <1>3, <2>1, <2>3, AsksKeeps DEF Requests
<1>4. ASSUME NEW r \in Commands, NEW s \in Serials \cup {None},
             CliStartWifi(r, s) \/ CliCameraStart(r, s)
      PROVE  IInv'
  BY <1>4, RequestFits, RequestType, AsksKeeps
     DEF CliStartWifi, CliCameraStart, CliStart, Requests, Steps
<1>5. ASSUME NEW r \in Commands, CliStartUsb(r) PROVE IInv'
  BY <1>5, RequestFits, RequestType, AsksKeeps
     DEF CliStartUsb, CliStart, Requests, Steps
<1>6. ASSUME NEW r \in Requests, List(r) PROVE IInv'
  <2>1. PICK l \in {adb, Nothing} :
          req' = [req EXCEPT ![r] = [req[r] EXCEPT !.at = "group", !.list = l]]
    BY <1>6 DEF List
  <2>2. [req[r] EXCEPT !.at = "group", !.list = l] \in Handlers
    BY DEF Handlers, Steps
  <2>3. Fits([req[r] EXCEPT !.at = "group", !.list = l])
    BY <1>6, <2>2 DEF List, Fits, Most, Handlers
  <2>4. QED
    BY <1>6, <2>1, <2>2, <2>3, OneHandler DEF List
<1>7. ASSUME NEW r \in Requests, Group(r) PROVE IInv'
  <2>1. PICK known \in SUBSET Ready(req[r].list) :
          \/ \E s \in Picked(req[r].list, known) : GoesOn(r, Request("select", s))
          \/ Picked(req[r].list, known) = {} /\ Done(r)
    BY <1>7 DEF Group
  <2>2. Picked(req[r].list, known) \subseteq Serials
    BY PickedType DEF Handlers
  <2>3. QED
    BY <1>7, <2>1, <2>2, DoneKeeps, GoesOnKeeps, RequestFits, RequestType
       DEF Group, Steps
<1>8. ASSUME NEW r \in Requests, Target(r) PROVE IInv'
  <2>1. PICK l \in {adb, Nothing} :
          \/ Targets(r, l) = {} /\ Done(r)
          \/ \E s \in Targets(r, l) :
               /\ req' = [req EXCEPT ![r].at = "tcpip", ![r].serial = s,
                            ![r].phone = IF @ = None THEN PhoneOf(s) ELSE @]
               /\ UNCHANGED mine
    BY <1>8 DEF Target
  <2>2. CASE Targets(r, l) = {} /\ Done(r)
    BY <1>8, <2>2, DoneKeeps DEF Target
  <2>3. ASSUME NEW s \in Targets(r, l), UNCHANGED mine,
               req' = [req EXCEPT ![r].at = "tcpip", ![r].serial = s,
                         ![r].phone = IF @ = None THEN PhoneOf(s) ELSE @]
        PROVE  IInv'
    <3> DEFINE ph == IF req[r].phone = None THEN PhoneOf(s) ELSE req[r].phone
               h == [req[r] EXCEPT !.at = "tcpip", !.serial = s, !.phone = ph]
    <3>1. s \in Serials /\ (req[r].serial # None => s = req[r].serial)
      BY DEF Targets, Ready, Handlers
    <3>2. ph \in Phones /\ ph = PhoneOf(s) /\ s # None
      BY <3>1, PhoneOfType, AdbAssumption DEF Fits, Serials, Handlers
    <3>3. h \in Handlers
      BY <3>1, <3>2 DEF Handlers, Steps
    <3>4. /\ h.at = "tcpip" /\ h.serial = s /\ h.phone = ph
          /\ h.addr = req[r].addr /\ h.tries = req[r].tries
      BY DEF Handlers
    <3>5. req[r].addr # None => ph = Owner[req[r].addr]
      BY <3>2, AdbAssumption DEF Fits, Handlers
    <3>6. Fits(h)
      BY <1>8, <3>2, <3>4, <3>5 DEF Target, Fits, Most
    <3>7. req' = [req EXCEPT ![r] = h]
      BY <2>3
    <3>8. QED
      BY <1>8, <2>3, <3>3, <3>6, <3>7, OneHandler DEF Target
  <2>4. QED
    BY <2>1, <2>2, <2>3
<1>9. ASSUME NEW r \in Requests, Tcpip(r) PROVE IInv'
  <2>1. PhoneOf(req[r].serial) \in Phones
    BY <1>9, PhoneOfType DEF Tcpip, Fits, Handlers
  <2>2. adb' \in Listing /\ camera' \in Serials \cup {None}
    BY <1>9, <2>1 DEF Tcpip
  <2>3. CASE Goes(r, "address") /\ req[r].at = "tcpip"
    BY <2>2, <2>3, GoesKeeps DEF Steps, Fits
  <2>4. CASE Done(r)
    BY <2>2, <2>4, DoneKeeps
  <2>5. QED
    BY <1>9, <2>3, <2>4 DEF Tcpip
<1>10. ASSUME NEW r \in Requests, Address(r) PROVE IInv'
  <2>1. CASE Again(r, Looks, "idle")
    BY <1>10, <2>1, AgainKeeps DEF Address, Most
  <2>2. ASSUME NEW a \in Told(r), UNCHANGED mine,
               req' = [req EXCEPT ![r].at = "connect", ![r].addr = a, ![r].tries = 0]
        PROVE  IInv'
    <3> DEFINE h == [req[r] EXCEPT !.at = "connect", !.addr = a, !.tries = 0]
    <3>1. a \in Addrs /\ Owner[a] = PhoneOf(req[r].serial)
      BY DEF Told
    <3>2. req[r].phone = PhoneOf(req[r].serial)
      BY <1>10 DEF Address, Fits
    <3>3. h \in Handlers
      BY <3>1 DEF Handlers, Steps
    <3>4. /\ h.at = "connect" /\ h.serial = req[r].serial /\ h.phone = req[r].phone
          /\ h.addr = a /\ h.tries = 0
      BY DEF Handlers
    <3>5. Fits(h)
      BY <3>1, <3>2, <3>4, MostType, AdbAssumption DEF Fits
    <3>6. req' = [req EXCEPT ![r] = h]
      BY <2>2
    <3>7. QED
      BY <1>10, <2>2, <3>3, <3>5, <3>6, OneHandler DEF Address
  <2>3. QED
    BY <1>10, <2>1, <2>2 DEF Address
<1>11. ASSUME NEW r \in Requests, Connect(r) \/ Dial(r) PROVE IInv'
  <2>1. req[r].addr \in Addrs /\ req[r].addr # None
    BY <1>11 DEF Connect, Dial, Fits, Handlers
  <2>2. Dialled(req[r].addr) => adb' \in Listing
    <3>1. adb[req[r].addr] \in {"absent", "offline", "device"}
      BY <2>1 DEF Listing, Serials
    <3>2. \A x \in {adb[req[r].addr], "offline", "device"} :
            [adb EXCEPT ![req[r].addr] = x] \in Listing
      BY <2>1, <3>1 DEF Serials
    <3>3. QED
      BY <3>2 DEF Dialled
  <2>3. adb' \in Listing /\ camera' \in Serials \cup {None}
    BY <1>11, <2>2 DEF Connect, Dial
  <2>4. QED
    BY <1>11, <2>1, <2>3, GoesKeeps, AgainKeeps, DoneKeeps DEF Connect, Dial, Steps, Most
<1>12. ASSUME NEW r \in Requests, Reached(r) PROVE IInv'
  <2> DEFINE a == req[r].addr
             h == [Request("select", a) EXCEPT !.phone = req[r].phone]
  <2>1. a \in Addrs /\ req[r].phone = Owner[a]
    BY <1>12 DEF Reached, Fits, Handlers
  <2>2. Request("select", a) \in Handlers
    BY <2>1, RequestType DEF Serials, Steps
  <2>3. h \in Handlers
    BY <2>1, <2>2, AdbAssumption DEF Handlers
  <2>4. /\ h.at = "select" /\ h.serial = a /\ h.addr = None /\ h.tries = 0
        /\ h.phone = Owner[a]
    BY <2>1, <2>2, RequestFields DEF Handlers
  <2>5. Fits(h)
    BY <2>1, <2>4, MostType, AdbAssumption DEF Fits, PhoneOf
  <2>6. QED
    BY <1>12, <2>3, <2>5, GoesOnKeeps DEF Reached
<1>13. ASSUME NEW r \in Requests, NotYetReached(r) PROVE IInv'
  BY <1>13, AgainKeeps DEF NotYetReached, Most
<1>14. ASSUME NEW r \in Requests, Hangup(r) PROVE IInv'
  <2>1. req[r].addr \in Serials
    BY <1>14 DEF Hangup, Fits, Handlers, Serials
  <2>2. QED
    BY <1>14, <2>1, DoneKeeps DEF Hangup
<1>15. ASSUME NEW r \in Requests, AlreadyRunning(r) \/ StartFails(r) PROVE IInv'
  BY <1>15, DoneKeeps DEF AlreadyRunning, StartFails
<1>16. ASSUME NEW r \in Requests, Launch(r) PROVE IInv'
  <2>1. camera' \in Serials
    BY <1>16 DEF Launch, Selectable, Ready
  <2>2. QED
    BY <1>16, <2>1, DoneKeeps DEF Launch
<1>17. ASSUME CliGivesUp \/ CameraEnds PROVE IInv'
  BY <1>17 DEF CliGivesUp, CameraEnds, IInv, TypeOK, HandlerInv, Fits, PhoneOf
<1>18. ASSUME adb' \in Listing, UNCHANGED <<camera, req, mine>> PROVE IInv'
  BY <1>18 DEF IInv, TypeOK, HandlerInv, Fits, PhoneOf
<1>19. ASSUME NEW p \in Phones, Cable(p) PROVE IInv'
  BY ZenonT(40), <1>18, <1>19 DEF Cable, Serials
<1>20. ASSUME NEW a \in Addrs, Air(a) PROVE IInv'
  BY <1>18, <1>20 DEF Air, Serials
<1>21. CASE UNCHANGED vars
  BY <1>18, <1>21 DEF vars
<1>22. QED
  BY <1>1, <1>2, <1>3, <1>4, <1>5, <1>6, <1>7, <1>8, <1>9, <1>10, <1>11, <1>12,
     <1>13, <1>14, <1>15, <1>16, <1>17, <1>19, <1>20, <1>21
     DEF Next, HandlerStep, WifiConnect, WifiDisconnect

\* No handler takes a variable out of its type or looks more often than its
\* loop allows.
THEOREM TypeCorrect == Spec => []TypeOK
  <1>1. IInv => TypeOK
    BY DEF IInv
  <1>2. QED
    BY <1>1, InvInit, InvStep, PTL DEF Spec

\* Every handler is at every command about the phone of its command.
THEOREM DevicesInvariant == Spec => []IInv
  <1>1. QED BY InvInit, InvStep, PTL DEF Spec

\* The rows of an answer: each is listed, a row with a ready serial has only
\* ready ones, and every ready serial is in a row.
LEMMA RowsAreSound ==
  ASSUME NEW l \in Listing, NEW known \in SUBSET Ready(l)
  PROVE  /\ \A row \in Rows(l, known) : RowReady(l, row) => row \subseteq Ready(l)
         /\ \A s \in Ready(l) : \E row \in Rows(l, known) : s \in row
  <1>1. \A row \in Rows(l, known) : RowReady(l, row) => row \subseteq Ready(l)
    BY DEF Rows, RowReady
  <1>2. ASSUME NEW s \in Ready(l) PROVE \E row \in Rows(l, known) : s \in row
    <2>1. CASE s \in known
      <3> DEFINE row == {q \in known : PhoneOf(q) = PhoneOf(s)}
      <3>1. PhoneOf(s) \in Phones
        BY PhoneOfType DEF Ready
      <3>2. s \in row
        BY <2>1
      <3>3. row \in Rows(l, known)
        BY <3>1, <3>2 DEF Rows
      <3>4. QED
        BY <3>2, <3>3
    <2>2. CASE s \notin known
      <3>1. {s} \in Rows(l, known)
        BY <2>2 DEF Rows, Listed, Ready
      <3>2. QED
        BY <3>1
    <2>3. QED
      BY <2>1, <2>2
  <1>3. QED
    BY <1>1, <1>2

\* Whatever adb lists and whichever serials tell their identity, the serials
\* recommended and picked are ready ones, if there is any.
LEMMA ReadyIsPreferred ==
  ASSUME NEW l \in Listing, NEW known \in SUBSET Ready(l), Ready(l) # {}
  PROVE  Recommended(l, known) \subseteq Ready(l) /\ Picked(l, known) \subseteq Ready(l)
  <1> DEFINE rows == Rows(l, known)
             first == {q \in rows : \A o \in rows : ~Before(l, o, q)}
             offered == UNION {row \in rows : RowReady(l, row)}
  <1>1. PICK some \in rows : RowReady(l, some)
    BY RowsAreSound DEF RowReady
  <1>2. \A row \in first : RowReady(l, row)
    BY <1>1 DEF Before
  <1>3. \A row \in first : Primary(row) \subseteq Ready(l)
    BY <1>2, RowsAreSound DEF Primary
  <1>4. Recommended(l, known) \subseteq Ready(l)
    BY <1>3 DEF Recommended
  <1>5. offered \subseteq Ready(l)
    BY RowsAreSound
  <1>6. Picked(l, known) \subseteq Ready(l)
    BY <1>4, <1>5 DEF Picked
  <1>7. QED
    BY <1>4, <1>6

\* The command line never picks, and the daemon never recommends, a phone that
\* is not ready while another one is.
THEOREM PickIsReadyAlways == Spec => []PickIsReady
  <1>1. IInv => PickIsReady
    BY ReadyIsPreferred DEF IInv, TypeOK, Handlers, PickIsReady
  <1>2. QED
    BY <1>1, DevicesInvariant, PTL

\* The camera comes up on the phone the command is for.
THEOREM StartsAsked == Spec => StartsAskedPhone
  <1>1. ASSUME IInv, NEW r \in Requests, Launch(r), req[r].phone # None
        PROVE  PhoneOf(camera') = req[r].phone
    <2>1. req[r].serial # None /\ req[r].phone = PhoneOf(req[r].serial)
      BY <1>1 DEF IInv, HandlerInv, Fits
    <2>2. camera' = req[r].serial
      BY <1>1, <2>1 DEF Launch, Selectable
    <2>3. QED
      BY <2>1, <2>2
  <1>2. IInv /\ [Next]_vars =>
          [\A r \in Requests :
             Launch(r) /\ req[r].phone # None => PhoneOf(camera') = req[r].phone]_vars
    BY <1>1
  <1>3. QED
    BY <1>2, DevicesInvariant, PTL DEF Spec, StartsAskedPhone
-----------------------------------------------------------------------------
(* Every request is over after a bounded number of steps and of commands:  *)
(* the part of RequestsAnswered that needs no fairness.                    *)

\* At most two polling loops and one of dialling, and a step around each.
Longest == 2 * Looks + Dials + 3

\* The steps a handler has left are counted, and one that is busy has some.
LEMMA StepsLeftType ==
  ASSUME NEW h \in Handlers, Fits(h)
  PROVE  /\ StepsLeft(h) \in 0 .. Longest
         /\ h.at # "idle" => StepsLeft(h) > Rest(h.at) /\ Rest(h.at) \in Nat
  <1>1. h.tries \in Nat /\ h.at \in Steps /\ h.tries < Most(h.at)
    BY DEF Handlers, Fits
  <1>2. Looks \in Nat \ {0} /\ Dials \in Nat \ {0}
    BY AdbAssumption
  <1>3. QED
    BY <1>1, <1>2 DEF StepsLeft, Longest, Most, Rest, Steps

\* Handler r goes to a record with fewer steps left, the others stay.
Nearer(r) ==
  \E h : req' = [req EXCEPT ![r] = h] /\ StepsLeft(h) < StepsLeft(req[r])

\* What is left after the last look of a step is what Rest says.
LEMMA RestNearer ==
  ASSUME IInv, NEW r \in Requests, req[r].at # "idle", NEW h,
         req' = [req EXCEPT ![r] = h],
         StepsLeft(h) \in Nat, StepsLeft(h) <= Rest(req[r].at)
  PROVE  Nearer(r)
  <1>1. StepsLeft(req[r]) \in Nat /\ StepsLeft(req[r]) > Rest(req[r].at)
        /\ Rest(req[r].at) \in Nat
    BY Listings, StepsLeftType DEF Longest
  <1>2. StepsLeft(h) < StepsLeft(req[r])
    BY <1>1
  <1>3. QED
    BY <1>2 DEF Nearer

\* The ends of the handlers' steps come nearer to the answer: the answer, ...
LEMMA DoneNearer ==
  ASSUME IInv, NEW r \in Requests, req[r].at # "idle", Done(r)
  PROVE  Nearer(r)
  <1>1. StepsLeft(Idle) = 0
    BY DEF StepsLeft, Idle
  <1>2. Rest(req[r].at) \in Nat
    BY Listings, StepsLeftType
  <1>3. StepsLeft(Idle) \in Nat /\ StepsLeft(Idle) <= Rest(req[r].at)
    BY <1>1, <1>2
  <1>4. QED
    BY <1>3, RestNearer DEF Done

\* ... the next step, ...
LEMMA GoesNearer ==
  ASSUME IInv, NEW r \in Requests, req[r].at # "idle",
         NEW step \in Steps \ {"idle"}, Goes(r, step),
         Most(step) + Rest(step) \in Nat,
         Most(step) + Rest(step) <= Rest(req[r].at)
  PROVE  Nearer(r)
  <1> DEFINE h == [req[r] EXCEPT !.at = step, !.tries = 0]
  <1>1. h.at = step /\ h.tries = 0
    BY Listings DEF Handlers
  <1>2. StepsLeft(h) = Most(step) + Rest(step)
    BY <1>1, MostType DEF StepsLeft
  <1>3. req' = [req EXCEPT ![r] = h]
    BY DEF Goes
  <1>4. QED
    BY <1>2, <1>3, RestNearer

\* ... another look, ...
LEMMA AgainNearer ==
  ASSUME IInv, NEW r \in Requests, req[r].at # "idle", NEW max,
         NEW step \in {"idle", "await"}, Again(r, max, step),
         step = "await" => Most(step) + Rest(step) <= Rest(req[r].at)
  PROVE  Nearer(r)
  <1>1. CASE req[r].tries + 1 < max
    <2> DEFINE h == [req[r] EXCEPT !.tries = @ + 1]
    <2>1. h.at = req[r].at /\ h.tries = req[r].tries + 1 /\ req[r].tries \in Nat
      BY Listings DEF Handlers
    <2>2. Most(h.at) \in Nat /\ Rest(h.at) \in Nat
      BY <2>1, Listings, MostType, StepsLeftType
    <2>3. StepsLeft(h) < StepsLeft(req[r])
      BY <2>1, <2>2 DEF StepsLeft
    <2>4. req' = [req EXCEPT ![r] = h]
      BY <1>1 DEF Again
    <2>5. QED
      BY <2>3, <2>4 DEF Nearer
  <1>2. CASE ~(req[r].tries + 1 < max) /\ step = "idle"
    BY <1>2, DoneNearer DEF Again
  <1>3. CASE ~(req[r].tries + 1 < max) /\ step = "await"
    <2>1. Most("await") + Rest("await") \in Nat
      BY AdbAssumption DEF Most, Rest
    <2>2. QED
      BY <1>3, <2>1, GoesNearer DEF Again, Steps
  <1>4. QED
    BY <1>1, <1>2, <1>3

\* ... or the start the command line asks for next.
LEMMA GoesOnNearer ==
  ASSUME IInv, NEW r \in Requests, req[r].at # "idle", NEW h, GoesOn(r, h),
         h.at = "select", h.tries = 0, 1 <= Rest(req[r].at)
  PROVE  Nearer(r)
  <1>1. StepsLeft(h) = 1
    BY DEF StepsLeft, Most, Rest
  <1>2. CASE mine = r
    BY <1>1, <1>2, RestNearer DEF GoesOn
  <1>3. CASE mine # r
    BY <1>3, DoneNearer DEF GoesOn
  <1>4. QED
    BY <1>2, <1>3

\* Whatever a handler's step finds, it brings the answer nearer.
LEMMA HandlerNearer ==
  ASSUME IInv, NEW r \in Requests, HandlerStep(r)
  PROVE  Nearer(r)
  <1> USE Listings
  <1>0. Looks \in Nat \ {0} /\ Dials \in Nat \ {0}
    BY AdbAssumption
  <1>1. CASE List(r)
    <2>1. PICK l \in {adb, Nothing} :
            req' = [req EXCEPT ![r] = [req[r] EXCEPT !.at = "group", !.list = l]]
      BY <1>1 DEF List
    <2>2. req[r].at = "list" /\ req[r].tries = 0
      BY <1>1 DEF List, Fits, Most, Handlers
    <2>3. StepsLeft([req[r] EXCEPT !.at = "group", !.list = l]) = 2
      BY <2>2 DEF StepsLeft, Most, Rest, Handlers
    <2> DEFINE h == [req[r] EXCEPT !.at = "group", !.list = l]
    <2>4. StepsLeft(h) \in Nat /\ StepsLeft(h) <= Rest(req[r].at)
      BY <2>2, <2>3 DEF Rest
    <2>5. req' = [req EXCEPT ![r] = h] /\ req[r].at # "idle"
      BY <2>1, <2>2
    <2> HIDE DEF h
    <2>6. QED
      BY <2>4, <2>5, RestNearer
  <1>2. CASE Group(r)
    <2>1. PICK known \in SUBSET Ready(req[r].list) :
            \/ \E s \in Picked(req[r].list, known) : GoesOn(r, Request("select", s))
            \/ Picked(req[r].list, known) = {} /\ Done(r)
      BY <1>2 DEF Group
    <2>2. QED
      BY <1>2, <2>1, RequestFields, DoneNearer, GoesOnNearer DEF Group, Rest
  <1>3. CASE Target(r)
    <2>1. PICK l \in {adb, Nothing} :
            \/ Targets(r, l) = {} /\ Done(r)
            \/ \E s \in Targets(r, l) :
                 /\ req' = [req EXCEPT ![r].at = "tcpip", ![r].serial = s,
                              ![r].phone = IF @ = None THEN PhoneOf(s) ELSE @]
                 /\ UNCHANGED mine
      BY <1>3 DEF Target
    <2>2. CASE Done(r)
      BY <1>3, <2>2, DoneNearer DEF Target
    <2>3. ASSUME NEW s,
                 req' = [req EXCEPT ![r].at = "tcpip", ![r].serial = s,
                           ![r].phone = IF @ = None THEN PhoneOf(s) ELSE @]
          PROVE  Nearer(r)
      <3> DEFINE ph == IF req[r].phone = None THEN PhoneOf(s) ELSE req[r].phone
                 h == [req[r] EXCEPT !.at = "tcpip", !.serial = s, !.phone = ph]
      <3>0. req[r].at = "target" /\ req[r].tries = 0
        <4>1. req[r].at = "target" /\ req[r].tries < Most("target")
          BY <1>3 DEF Target, Fits
        <4>2. QED
          BY <4>1 DEF Most, Handlers
      <3>1. h.at = "tcpip" /\ h.tries = 0 /\ req[r].at = "target"
        BY <3>0 DEF Handlers
      <3>2. StepsLeft(h) = 2 + 2 * Looks + Dials
        BY <1>0, <3>1 DEF StepsLeft, Most, Rest
      <3>3. req' = [req EXCEPT ![r] = h]
        BY <2>3
      <3>4. StepsLeft(h) \in Nat /\ StepsLeft(h) <= Rest(req[r].at)
        BY <1>0, <3>1, <3>2 DEF Rest
      <3>5. QED
        BY <3>1, <3>3, <3>4, RestNearer
    <2>4. QED
      BY <2>1, <2>2, <2>3
  <1>4. CASE Tcpip(r)
    <2>1. CASE Done(r)
      BY <1>4, <2>1, DoneNearer DEF Tcpip
    <2>2. CASE Goes(r, "address") /\ req[r].at = "tcpip"
      <3>1. /\ Most("address") + Rest("address") \in Nat
            /\ Most("address") + Rest("address") <= Rest("tcpip")
        BY <1>0 DEF Most, Rest
      <3>2. QED
        BY <2>2, <3>1, GoesNearer DEF Steps
    <2>3. QED
      BY <1>4, <2>1, <2>2 DEF Tcpip
  <1>5. CASE Address(r)
    <2>1. CASE Again(r, Looks, "idle")
      BY <1>5, <2>1, AgainNearer DEF Address
    <2>2. ASSUME NEW a,
                 req' = [req EXCEPT ![r].at = "connect", ![r].addr = a, ![r].tries = 0]
          PROVE  Nearer(r)
      <3> DEFINE h == [req[r] EXCEPT !.at = "connect", !.addr = a, !.tries = 0]
      <3>1. h.at = "connect" /\ h.tries = 0 /\ req[r].at = "address"
        BY <1>5 DEF Address, Handlers
      <3>2. StepsLeft(h) = 1 + Looks + Dials
        BY <1>0, <3>1 DEF StepsLeft, Most, Rest
      <3>3. req' = [req EXCEPT ![r] = h]
        BY <2>2
      <3>4. StepsLeft(h) \in Nat /\ StepsLeft(h) <= Rest(req[r].at)
        BY <1>0, <3>1, <3>2 DEF Rest
      <3>5. QED
        BY <3>1, <3>3, <3>4, RestNearer
    <2>3. QED
      BY <1>5, <2>1, <2>2 DEF Address
  <1>6. CASE Connect(r) \/ Dial(r)
    <2>1. /\ Most("await") + Rest("await") \in Nat
          /\ Most("await") + Rest("await") <= Rest("connect")
          /\ Most("await") + Rest("await") <= Rest("dial")
      BY <1>0 DEF Most, Rest
    <2>2. QED
      BY <1>6, <2>1, DoneNearer, AgainNearer, GoesNearer DEF Connect, Dial, Steps
  <1>7. CASE Reached(r)
    <2> DEFINE h == [Request("select", req[r].addr) EXCEPT !.phone = req[r].phone]
    <2>1. h.at = "select" /\ h.tries = 0
      BY RequestFields DEF Request, Idle
    <2>2. GoesOn(r, h) /\ req[r].at = "await"
      BY <1>7 DEF Reached
    <2>3. 1 <= Rest(req[r].at) /\ req[r].at # "idle"
      BY <2>2 DEF Rest
    <2> HIDE DEF h
    <2>4. QED
      BY <2>1, <2>2, <2>3, GoesOnNearer
  <1>8. CASE NotYetReached(r)
    BY <1>8, AgainNearer DEF NotYetReached
  <1>9. CASE Hangup(r) \/ AlreadyRunning(r) \/ Launch(r) \/ StartFails(r)
    BY <1>9, DoneNearer DEF Hangup, AlreadyRunning, Launch, StartFails
  <1>10. QED
    BY <1>1, <1>2, <1>3, <1>4, <1>5, <1>6, <1>7, <1>8, <1>9 DEF HandlerStep

\* A step that brings one handler nearer leaves the others alone.
LEMMA OthersStay ==
  ASSUME IInv, NEW r \in Requests, Nearer(r)
  PROVE  /\ StepsLeft(req'[r]) < StepsLeft(req[r])
         /\ \A q \in Requests \ {r} : req'[q] = req[q]
  BY DEF Nearer, IInv, TypeOK

\* A handler only changes by a step of its own, or by a new request.
LEMMA ClientsAskIdle ==
  ASSUME IInv, [Next]_vars, NEW q \in Requests, req'[q] # req[q]
  PROVE  req[q] = Idle \/ HandlerStep(q)
  <1> USE DEF IInv, TypeOK
  <1>1. ASSUME NEW r \in Requests, NEW h, Asks(r, h) PROVE q = r /\ req[q] = Idle
    BY <1>1 DEF Asks
  <1>2. ASSUME NEW r \in Requests, HandlerStep(r) PROVE HandlerStep(q)
    BY <1>2, HandlerNearer, OthersStay
  <1>3. CASE UNCHANGED req
    BY <1>3
  <1>4. QED
    BY <1>1, <1>2, <1>3
       DEF Next, Requests, WifiSetup, WifiEnable, WifiConnect, WifiDisconnect,
           CliStartWifi, CliCameraStart, CliStartUsb, CliStart, CliGivesUp,
           Cable, Air, CameraEnds, vars

\* No phone, client or other handler sends a handler back: while it is busy,
\* what it has left only shrinks.
THEOREM HandlersAdvanceAlways == Spec => HandlersAdvance
  <1>1. ASSUME IInv, [Next]_vars, NEW r \in Requests
        PROVE  req'[r] = req[r] \/ req[r] = Idle \/ StepsLeft(req'[r]) < StepsLeft(req[r])
    BY <1>1, ClientsAskIdle, HandlerNearer, OthersStay
  <1>2. IInv /\ [Next]_vars =>
          [\A r \in Requests :
             req'[r] = req[r] \/ req[r] = Idle \/ StepsLeft(req'[r]) < StepsLeft(req[r])]_vars
    BY <1>1
  <1>3. QED
    BY <1>2, DevicesInvariant, PTL DEF Spec, HandlersAdvance

\* The adb commands a step runs at most: detect_device_ip() asks for five
\* interfaces and then for all addresses; the grouping of the list asks each
\* ready serial for two properties, and one with a cable for its address.
Runs(step) ==
  CASE step = "address" -> 6
    [] step = "group" -> 8 * Cardinality(Serials)
    [] OTHER -> 1

\* What the steps that handler h has left may run beyond one command each.
Extra(h) ==
  CASE h.at \in {"target", "tcpip"} -> 5 * Looks
    [] h.at = "address" -> 5 * (Looks - h.tries)
    [] h.at \in {"list", "group"} -> 8 * Cardinality(Serials) - 1
    [] OTHER -> 0

\* The adb commands handler h has left at most.
CommandsLeft(h) == StepsLeft(h) + Extra(h)

\* A step of a handler that leaves it no nearer to its answer by the commands
\* that it may run: there is none.
Overruns ==
  \E r \in Requests :
    HandlerStep(r) /\ ~(CommandsLeft(req'[r]) + Runs(req[r].at) <= CommandsLeft(req[r]))

\* The steps after the costly ones run one command each.
Plain == Steps \ {"target", "tcpip", "address", "list", "group"}

\* A step leaves its handler where what its commands cost has been spent.
LEMMA ExtraSpent ==
  ASSUME IInv, Cardinality(Serials) \in Nat, NEW r \in Requests, HandlerStep(r)
  PROVE  Extra(req'[r]) + Runs(req[r].at) - 1 <= Extra(req[r])
  <1> DEFINE n == Cardinality(Serials)
  <1>0. /\ Looks \in Nat \ {0} /\ req \in [Requests -> Handlers]
        /\ req[r] \in Handlers /\ Fits(req[r])
    BY AdbAssumption, Listings DEF IInv, TypeOK
  <1>1. ASSUME req'[r].at \in Plain PROVE Extra(req'[r]) = 0
    BY <1>1 DEF Extra, Plain, Steps
  <1>2. ASSUME Done(r) PROVE req'[r].at \in Plain
    BY <1>0, <1>2 DEF Done, Idle, Plain, Steps
  <1>3. ASSUME NEW step \in Plain, Goes(r, step) PROVE req'[r].at \in Plain
    BY <1>0, <1>3 DEF Goes, Handlers
  <1>4. ASSUME NEW h, h.at = "select", GoesOn(r, h) PROVE req'[r].at \in Plain
    BY <1>0, <1>2, <1>4 DEF GoesOn, Plain, Steps
  <1>5. CASE req'[r].at \in Plain /\ req[r].at # "list"
    <2>1. Runs(req[r].at) - 1 <= Extra(req[r])
      BY <1>0, <1>5 DEF Runs, Extra, Fits, Most, Handlers
    <2>2. Runs(req[r].at) \in Nat
      BY DEF Runs
    <2>3. QED
      BY <1>1, <1>5, <2>1, <2>2
  <1>6. CASE List(r)
    <2>1. req[r].at = "list" /\ req'[r].at = "group"
      BY <1>0, <1>6 DEF List, Handlers
    <2>2. QED
      BY <2>1 DEF Extra, Runs
  <1>7. CASE Target(r)
    <2>1. req[r].at = "target"
      BY <1>7 DEF Target
    <2>2. CASE Done(r)
      BY <1>2, <1>5, <2>1, <2>2
    <2>3. CASE req'[r].at = "tcpip"
      BY <1>0, <2>1, <2>3 DEF Extra, Runs
    <2>4. ASSUME NEW s,
                 req' = [req EXCEPT ![r].at = "tcpip", ![r].serial = s,
                           ![r].phone = IF @ = None THEN PhoneOf(s) ELSE @]
          PROVE  req'[r].at = "tcpip"
      BY <1>0, <2>4 DEF Handlers
    <2>5. QED
      BY <1>7, <2>2, <2>3, <2>4 DEF Target
  <1>8. CASE Tcpip(r)
    <2>1. CASE Done(r)
      BY <1>2, <1>5, <1>8, <2>1 DEF Tcpip
    <2>2. CASE Goes(r, "address") /\ req[r].at = "tcpip"
      <3>1. req'[r].at = "address" /\ req'[r].tries = 0
        BY <1>0, <2>2 DEF Goes, Handlers
      <3>2. QED
        BY <1>0, <2>2, <3>1 DEF Extra, Runs
    <2>3. QED
      BY <1>8, <2>1, <2>2 DEF Tcpip
  <1>9. CASE Address(r)
    <2>1. req[r].at = "address" /\ req[r].tries \in Nat
      BY <1>0, <1>9 DEF Address, Handlers
    <2>2. \/ req'[r].at \in Plain
          \/ req'[r].at = "address" /\ req'[r].tries = req[r].tries + 1
      <3>1. CASE Again(r, Looks, "idle")
        BY <1>0, <1>2, <2>1, <3>1 DEF Again, Handlers
      <3>2. ASSUME NEW a,
                   req' = [req EXCEPT ![r].at = "connect", ![r].addr = a, ![r].tries = 0]
            PROVE  req'[r].at \in Plain
        BY <1>0, <3>2 DEF Handlers, Plain, Steps
      <3>3. QED
        BY <1>9, <3>1, <3>2 DEF Address
    <2>3. CASE req'[r].at \in Plain
      BY <1>5, <2>1, <2>3
    <2>4. CASE req'[r].at = "address" /\ req'[r].tries = req[r].tries + 1
      BY <1>0, <2>1, <2>4 DEF Extra, Runs
    <2>5. QED
      BY <2>2, <2>3, <2>4
  <1>10. CASE Group(r)
    <2>1. req[r].at = "group" /\ req'[r].at \in Plain
      BY <1>2, <1>4, <1>10, RequestFields DEF Group
    <2>2. QED
      BY <1>5, <2>1
  <1>11. CASE Connect(r) \/ Dial(r) \/ NotYetReached(r)
    <2>1. req[r].at \in {"connect", "dial", "await"} /\ req'[r].at \in Plain
      BY <1>0, <1>2, <1>3, <1>11 DEF Connect, Dial, NotYetReached, Again, Handlers, Plain, Steps
    <2>2. QED
      BY <1>5, <2>1
  <1>12. CASE Reached(r) \/ Hangup(r) \/ AlreadyRunning(r) \/ Launch(r) \/ StartFails(r)
    <2>1. [Request("select", req[r].addr) EXCEPT !.phone = req[r].phone].at = "select"
      BY RequestFields DEF Request, Idle
    <2>2. req[r].at \in {"await", "hangup", "select"} /\ req'[r].at \in Plain
      BY <1>2, <1>4, <1>12, <2>1 DEF Reached, Hangup, AlreadyRunning, Launch, StartFails
    <2>3. QED
      BY <1>5, <2>2
  <1>13. QED
    BY <1>6, <1>7, <1>8, <1>9, <1>10, <1>11, <1>12 DEF HandlerStep

\* The commands left are few whatever is asked for.
LEMMA CommandsLeftType ==
  ASSUME NEW h \in Handlers, Fits(h), Cardinality(Serials) \in Nat
  PROVE  \/ CommandsLeft(h) \in 0 .. 7 * Looks + Dials + 3
         \/ CommandsLeft(h) \in 0 .. 8 * Cardinality(Serials) + 2
  <1>1. h.tries \in Nat /\ h.at \in Steps /\ h.tries < Most(h.at)
    BY DEF Handlers, Fits
  <1>2. Looks \in Nat \ {0} /\ Dials \in Nat \ {0}
    BY AdbAssumption
  <1>3. CASE h.at \in {"list", "group"}
    BY <1>1, <1>2, <1>3 DEF CommandsLeft, Extra, StepsLeft, Most, Rest
  <1>4. CASE h.at \in {"target", "tcpip", "address"}
    BY <1>1, <1>2, <1>4 DEF CommandsLeft, Extra, StepsLeft, Most, Rest
  <1>5. CASE h.at \in Plain
    BY <1>1, <1>2, <1>5 DEF CommandsLeft, Extra, StepsLeft, Most, Rest, Plain, Steps
  <1>6. QED
    BY <1>1, <1>3, <1>4, <1>5 DEF Plain

\* Every adb command counts, and a request is over after so many of them,
\* whatever the phones and the other requests do meanwhile: a set-up after two
\* waits for the phone, of which the first asks for its address up to six
\* times a look, one series of dials and a command around each; a start that
\* asks for the list first after at most eight for each serial and two.
THEOREM RequestsAreBounded ==
  ASSUME IsFiniteSet(Serials)
  PROVE  Spec => /\ [][~Overruns]_vars
                 /\ [](\A r \in Requests :
                         \/ CommandsLeft(req[r]) \in 0 .. 7 * Looks + Dials + 3
                         \/ CommandsLeft(req[r]) \in 0 .. 8 * Cardinality(Serials) + 2)
  <1>0. Cardinality(Serials) \in Nat
    BY FS_CardinalityType
  <1>1. ASSUME IInv, NEW r \in Requests, HandlerStep(r)
        PROVE  CommandsLeft(req'[r]) + Runs(req[r].at) <= CommandsLeft(req[r])
    <2>1. Extra(req'[r]) + Runs(req[r].at) - 1 <= Extra(req[r])
      BY <1>0, <1>1, ExtraSpent
    <2>2. StepsLeft(req'[r]) < StepsLeft(req[r])
      BY <1>1, HandlerNearer, OthersStay
    <2>3. /\ req[r] \in Handlers /\ Fits(req[r])
          /\ req'[r] \in Handlers /\ Fits(req'[r])
      BY <1>1, InvStep DEF Next, IInv, TypeOK, HandlerInv
    <2>4. \A h \in Handlers : Fits(h) =>
            StepsLeft(h) \in Int /\ Extra(h) \in Int /\ Runs(h.at) \in Int
      BY <1>0, StepsLeftType, AdbAssumption DEF Extra, Runs, Longest, Handlers
    <2>5. QED
      BY <2>1, <2>2, <2>3, <2>4 DEF CommandsLeft
  <1>2. IInv /\ [Next]_vars => [~Overruns]_vars
    BY <1>1 DEF Overruns
  <1>3. IInv => \A r \in Requests :
                  \/ CommandsLeft(req[r]) \in 0 .. 7 * Looks + Dials + 3
                  \/ CommandsLeft(req[r]) \in 0 .. 8 * Cardinality(Serials) + 2
    BY <1>0, Listings, CommandsLeftType
  <1>4. QED
    BY <1>2, <1>3, DevicesInvariant, PTL DEF Spec
=============================================================================
