------------------------- MODULE VideoManagerProofs -------------------------
(***************************************************************************)
(* Proofs about VideoManager, for every number of requests, reconnect      *)
(* tasks, phones and attempts.                                             *)
(***************************************************************************)
EXTENDS VideoManager, TLAPS

\* The manager lock is held exactly by the task inside its `async with`.
LockInv == \A p \in Procs : pc[p] \in CriticalPcs <=> lock = p

\* What the state store holds while an operation is suspended at an await.
HolderInv ==
  \A p \in Procs :
    /\ pc[p] \in {"select", "settle"} => videoState = STARTING
    /\ pc[p] = "select" => proc = NoSerial
    /\ pc[p] = "audio" => videoState = RUNNING
    /\ pc[p] \in {"stopTerm", "resetTerm"} => videoState = STOPPING
    /\ pc[p] \in StartPcs \ {"startLock"} => recon # "exhausted"

\* A live process is the one /status shows, unless the holder of the lock is
\* just bringing it up or taking it down.
ProcInv ==
  proc # NoSerial =>
    \/ videoState = RUNNING /\ active = proc
    \/ \E p \in Procs : pc[p] \in {"settle", "stopTerm", "resetTerm"}

\* A state of STOPPING belongs to a stop or a reset in progress; from there
\* to the next start nothing is left of the camera.
StoppedInv ==
  /\ videoState = STOPPING => \E c \in Clients : pc[c] \in {"stopTerm", "resetTerm"}
  /\ videoState \in {STOPPED, STOPPING} => \A w \in Watches : ~Live(w)
  /\ videoState = STOPPED => proc = NoSerial /\ active = NoSerial

\* A reconnect task waits on a live process; once it was woken the process
\* stays gone until the task, or a user's start, brings up another.
WatchInv ==
  /\ \A w \in Watches :
       /\ Live(w) => task = w
       /\ pc[w] = "wait" => proc # NoSerial
       /\ pc[w] = "ensure" => proc = NoSerial
       /\ pc[w] \in {"woken", "backoff", "startLock"} /\ proc # NoSerial =>
            \E c \in Clients : pc[c] \in {"settle", "audio"}
  /\ videoState = RUNNING =>
       (\E w \in Watches : Live(w)) \/ (\E c \in Clients : pc[c] = "audio")

\* The inductive invariant.
IInv ==
  /\ TypeOK /\ LockInv /\ HolderInv /\ ProcInv /\ StoppedInv /\ WatchInv
  /\ ExhaustedIsError
-----------------------------------------------------------------------------

\* What each transition of the table asks of the state it starts from.
LEMMA AllowedTable ==
  ASSUME NEW s \in States
  PROVE  /\ Allowed(s, STARTING) <=> s \in {STARTING, STOPPED, ERROR}
         /\ Allowed(s, RUNNING)  <=> s \in {RUNNING, STARTING}
         /\ Allowed(s, STOPPING) <=> s \in {STOPPING, STARTING, RUNNING}
         /\ Allowed(s, STOPPED)  <=> s \in {STOPPED, STOPPING, ERROR}
         /\ \A t \in States :
              TryTransition(s, t) = IF Allowed(s, t) THEN t ELSE s
  BY DEF Allowed, TryTransition, ValidTransitions, States,
         STOPPED, STARTING, RUNNING, STOPPING, ERROR

\* Every variable keeps its type in every behaviour.
LEMMA TypeInit == Init => TypeOK
  <1> SUFFICES ASSUME Init PROVE TypeOK
    OBVIOUS
  <1> USE VideoAssumption
      DEF Init, Procs, States, ReconStates, ClientPcs, WatchPcs, StartPcs, STOPPED
  <1>1. mic \in BOOLEAN
    OBVIOUS
  <1>2. /\ pc \in [Procs -> ClientPcs \cup WatchPcs \cup StartPcs]
        /\ \A c \in Clients : pc[c] \in ClientPcs \cup StartPcs
        /\ \A w \in Watches : pc[w] \in WatchPcs \cup StartPcs
    OBVIOUS
  <1>3. attempt \in [Watches -> 0..MaxAttempts]
    OBVIOUS
  <1>4. QED
    BY <1>1, <1>2, <1>3 DEF TypeOK

\* Giving up a reconnect task keeps the types of its locals.
LEMMA ForgottenType ==
  ASSUME TypeOK
  PROVE  /\ Forgotten(arg, NoSerial) \in [Procs -> Serials \cup {NoSerial}]
         /\ Forgotten(attempt, 0) \in [Watches -> 0..MaxAttempts]
  BY VideoAssumption DEF TypeOK, Forgotten

\* The hand-over of a start that returns keeps the types of what it changes.
LEMMA StartSucceededType ==
  ASSUME TypeOK, NEW p \in Procs, StartSucceeded(p)
  PROVE  /\ lock' = NoProc
         /\ arg' \in [Procs -> Serials \cup {NoSerial}]
         /\ pc' \in [Procs -> ClientPcs \cup WatchPcs \cup StartPcs]
         /\ \A c \in Clients : pc'[c] \in ClientPcs \cup StartPcs
         /\ \A w \in Watches : pc'[w] \in WatchPcs \cup StartPcs
         /\ task' \in Watches \cup {NoProc}
         /\ recon' \in ReconStates
         /\ attempt' \in [Watches -> 0..MaxAttempts]
  <1> USE VideoAssumption
      DEF TypeOK, Procs, ReconStates, ClientPcs, WatchPcs, StartPcs, WaitPc
  <1>1. CASE p \in Clients
    <2>1. PICK w \in Watches :
            /\ pc' = [q \in Procs |-> CASE q = p    -> "idle"
                                        [] q = w    -> "new"
                                        [] q = task -> "dead"
                                        [] OTHER    -> pc[q]]
            /\ task' = w
            /\ attempt' = Forgotten(attempt, 0)
            /\ UNCHANGED recon
      BY <1>1 DEF StartSucceeded
    <2>2. \A q \in Procs : pc'[q] \in {"idle", "new", "dead", pc[q]}
      BY <2>1
    <2>3. \A c \in Clients : pc'[c] \in {"idle", pc[c]}
      BY <1>1, <2>1
    <2>4. \A v \in Watches : pc'[v] \in {"new", "dead", pc[v]}
      BY <1>1, <2>1
    <2>5. pc' \in [Procs -> ClientPcs \cup WatchPcs \cup StartPcs]
      BY <2>1, <2>2
    <2>6. arg' \in [Procs -> Serials \cup {NoSerial}]
      BY <1>1, ForgottenType DEF StartSucceeded
    <2>7. attempt' \in [Watches -> 0..MaxAttempts]
      BY <2>1, ForgottenType
    <2>8. QED
      BY <1>1, <2>1, <2>3, <2>4, <2>5, <2>6, <2>7 DEF StartSucceeded
  <1>2. CASE p \notin Clients
    BY <1>2 DEF StartSucceeded
  <1>3. QED
    BY <1>1, <1>2

\* No await-to-await step of a handler or a reconnect task takes a variable
\* out of its type.
LEMMA TypeStep == TypeOK /\ [Next]_vars => TypeOK'
  <1> SUFFICES ASSUME TypeOK, [Next]_vars PROVE TypeOK'
    OBVIOUS
  <1> USE VideoAssumption, AllowedTable
      DEF TypeOK, Procs, States, ReconStates, ClientPcs, WatchPcs, StartPcs
<1>1. ASSUME NEW c \in Clients, NEW s \in Serials \cup {NoSerial}, ClientStart(c, s) PROVE TypeOK'
  BY <1>1 DEF ClientStart
<1>2. ASSUME NEW c \in Clients, ClientStop(c) PROVE TypeOK'
  BY <1>2 DEF ClientStop, Request
<1>3. ASSUME NEW c \in Clients, ClientReset(c) PROVE TypeOK'
  BY <1>3 DEF ClientReset, Request
<1>4. ASSUME NEW p \in Procs, StartEnter(p) PROVE TypeOK'
  BY <1>4 DEF StartEnter
<1>5. ASSUME NEW p \in Procs, DeviceNotReady(p) PROVE TypeOK'
  BY <1>5 DEF DeviceNotReady, StartFailed
<1>6. ASSUME NEW p \in Procs, DeviceReady(p) PROVE TypeOK'
  <2>1. CASE videoState \in {RUNNING, STARTING} /\ proc # NoSerial
    BY <1>6, <2>1, StartSucceededType DEF DeviceReady
  <2>2. CASE ~(videoState \in {RUNNING, STARTING} /\ proc # NoSerial)
    BY <1>6, <2>2 DEF DeviceReady, StartFailed, STARTING, ERROR
  <2>3. QED
    BY <2>1, <2>2
<1>7. ASSUME NEW p \in Procs, SourceUnavailable(p) PROVE TypeOK'
  BY <1>7 DEF SourceUnavailable, StartFailed
<1>8. ASSUME NEW p \in Procs, Launch(p) PROVE TypeOK'
  BY <1>8 DEF Launch, Selectable
<1>9. ASSUME NEW p \in Procs, ExitedAtOnce(p) PROVE TypeOK'
  BY <1>9 DEF ExitedAtOnce, StartFailed
<1>10. ASSUME NEW p \in Procs, Settled(p) PROVE TypeOK'
  BY <1>10 DEF Settled
<1>11. ASSUME NEW p \in Procs, AudioStarted(p) PROVE TypeOK'
  <2>1. mic' \in BOOLEAN
    BY <1>11 DEF AudioStarted
  <2>2. QED
    BY <1>11, <2>1, StartSucceededType DEF AudioStarted
<1>12. ASSUME NEW c \in Clients, StopAlreadyStopped(c) PROVE TypeOK'
  BY ForgottenType, <1>12 DEF StopAlreadyStopped, StopEnter, CancelWatch, Cancelled
<1>13. ASSUME NEW c \in Clients, StopBegin(c) PROVE TypeOK'
  BY ForgottenType, <1>13 DEF StopBegin, StopEnter, CancelWatch, Cancelled
<1>14. ASSUME NEW c \in Clients, StopRefused(c) PROVE TypeOK'
  BY ForgottenType, <1>14 DEF StopRefused, StopEnter, CancelWatch, Cancelled
<1>15. ASSUME NEW c \in Clients, ResetBegin(c) PROVE TypeOK'
  BY ForgottenType, <1>15 DEF ResetBegin, CancelWatch, Cancelled
<1>16. ASSUME NEW c \in Clients, ResetNoProcess(c) PROVE TypeOK'
  BY <1>16 DEF ResetNoProcess
<1>17. ASSUME NEW c \in Clients, StopTerminated(c) PROVE TypeOK'
  BY <1>17 DEF StopTerminated
<1>18. ASSUME NEW c \in Clients, MicStopped(c) PROVE TypeOK'
  <2>1. mic' \in BOOLEAN
    BY <1>18 DEF MicStopped
  <2>2. QED
    BY <1>18, <2>1 DEF MicStopped
<1>19. ASSUME NEW c \in Clients, Reloaded(c) PROVE TypeOK'
  BY <1>19 DEF Reloaded, Release
<1>20. ASSUME NEW c \in Clients, ResetTerminated(c) PROVE TypeOK'
  BY <1>20 DEF ResetTerminated
<1>21. ASSUME NEW c \in Clients, DeviceReset(c) PROVE TypeOK'
  BY <1>21 DEF DeviceReset, Release
<1>22. ASSUME NEW w \in Watches, WatchBegin(w) PROVE TypeOK'
  BY <1>22 DEF WatchBegin, WaitPc
<1>23. ASSUME ProcessExit PROVE TypeOK'
  BY <1>23 DEF ProcessExit
<1>24. ASSUME NEW w \in Watches, WatchExited(w) PROVE TypeOK'
  BY <1>24 DEF WatchExited
<1>25. ASSUME NEW w \in Watches, BackoffElapsed(w) PROVE TypeOK'
  BY <1>25 DEF BackoffElapsed
<1>26. ASSUME NEW w \in Watches, BackoffAborted(w) PROVE TypeOK'
  BY <1>26 DEF BackoffAborted
<1>27. CASE UNCHANGED vars
  BY <1>27 DEF vars
<1>28. QED
  BY <1>1, <1>2, <1>3, <1>4, <1>5, <1>6, <1>7, <1>8, <1>9, <1>10, <1>11,
     <1>12, <1>13, <1>14, <1>15, <1>16, <1>17, <1>18, <1>19, <1>20,
     <1>21, <1>22, <1>23, <1>24, <1>25, <1>26, <1>27
     DEF Next, Enter, StartStep, ClientStep, WatchStep

\* Every variable of the manager keeps a value of its Python counterpart; in
\* particular no watch counts beyond max_attempts.
THEOREM TypeCorrect == Spec => []TypeOK
  <1>1. QED BY TypeInit, TypeStep, PTL DEF Spec

-----------------------------------------------------------------------------

\* A manager just built, stopped and with no task, satisfies the invariant.
LEMMA InvInit == Init => IInv
  <1> SUFFICES ASSUME Init PROVE IInv
    OBVIOUS
  <1>1. TypeOK
    BY TypeInit
  <1>2. /\ \A p \in Procs : pc[p] \in {"idle", "dead"}
        /\ \A w \in Watches : pc[w] = "dead"
    BY VideoAssumption DEF Init, Procs
  <1>3. QED
    BY <1>1, <1>2, VideoAssumption
    DEF Init, IInv, LockInv, HolderInv, ProcInv, StoppedInv, WatchInv,
        ExhaustedIsError, CriticalPcs, StartPcs, Live, Procs,
        STOPPED, RUNNING, STOPPING, STARTING, ERROR

\* Every step between two awaits preserves it: the lock keeps the operations
\* apart and the unlocked steps of the task find the state they expect.
LEMMA InvStep == IInv /\ [Next]_vars => IInv'
  <1> SUFFICES ASSUME IInv, [Next]_vars PROVE IInv'
    OBVIOUS
  <1>t. TypeOK'
    BY TypeStep DEF IInv
  <1> USE <1>t, VideoAssumption, AllowedTable
      DEF TypeOK, IInv, LockInv, HolderInv, ProcInv, StoppedInv, WatchInv,
        ExhaustedIsError, CriticalPcs, StartPcs, ClientPcs, WatchPcs, Live, Procs, States,
        STOPPED, RUNNING, STOPPING, STARTING, ERROR
<1>1. ASSUME NEW c \in Clients, NEW s \in Serials \cup {NoSerial}, ClientStart(c, s) PROVE IInv'
  BY <1>1 DEF ClientStart
<1>2. ASSUME NEW c \in Clients, ClientStop(c) PROVE IInv'
  BY <1>2 DEF ClientStop, Request
<1>3. ASSUME NEW c \in Clients, ClientReset(c) PROVE IInv'
  BY <1>3 DEF ClientReset, Request
<1>4. ASSUME NEW p \in Procs, StartEnter(p) PROVE IInv'
  BY <1>4 DEF StartEnter
<1>5. ASSUME NEW p \in Procs, DeviceNotReady(p) PROVE IInv'
  BY <1>5 DEF DeviceNotReady, StartFailed
<1>6. ASSUME NEW p \in Procs, DeviceReady(p) PROVE IInv'
  BY <1>6 DEF DeviceReady, StartFailed, StartSucceeded, Stale, Reconciled, WaitPc, Live
<1>7. ASSUME NEW p \in Procs, SourceUnavailable(p) PROVE IInv'
  BY <1>7 DEF SourceUnavailable, StartFailed
<1>8. ASSUME NEW p \in Procs, Launch(p) PROVE IInv'
  BY <1>8 DEF Launch, Selectable
<1>9. ASSUME NEW p \in Procs, ExitedAtOnce(p) PROVE IInv'
  BY <1>9 DEF ExitedAtOnce, StartFailed
<1>10. ASSUME NEW p \in Procs, Settled(p) PROVE IInv'
  BY <1>10 DEF Settled
<1>11. ASSUME NEW p \in Procs, AudioStarted(p) PROVE IInv'
  BY <1>11 DEF AudioStarted, StartSucceeded, WaitPc, Live
<1>12. ASSUME NEW c \in Clients, StopAlreadyStopped(c) PROVE IInv'
  BY <1>12 DEF StopAlreadyStopped, StopEnter, CancelWatch, Cancelled
<1>13. ASSUME NEW c \in Clients, StopBegin(c) PROVE IInv'
  BY SMTT(30), <1>13 DEF StopBegin, StopEnter, CancelWatch, Cancelled
<1>14. ASSUME NEW c \in Clients, StopRefused(c) PROVE IInv'
  BY <1>14 DEF StopRefused, StopEnter, CancelWatch, Cancelled
<1>15. ASSUME NEW c \in Clients, ResetBegin(c) PROVE IInv'
  BY SMTT(30), <1>15 DEF ResetBegin, CancelWatch, Cancelled
<1>16. ASSUME NEW c \in Clients, ResetNoProcess(c) PROVE IInv'
  BY <1>16 DEF ResetNoProcess
<1>17. ASSUME NEW c \in Clients, StopTerminated(c) PROVE IInv'
  BY <1>17 DEF StopTerminated
<1>18. ASSUME NEW c \in Clients, MicStopped(c) PROVE IInv'
  BY <1>18 DEF MicStopped
<1>19. ASSUME NEW c \in Clients, Reloaded(c) PROVE IInv'
  BY <1>19 DEF Reloaded, Release
<1>20. ASSUME NEW c \in Clients, ResetTerminated(c) PROVE IInv'
  BY <1>20 DEF ResetTerminated
<1>21. ASSUME NEW c \in Clients, DeviceReset(c) PROVE IInv'
  BY <1>21 DEF DeviceReset, Release
<1>22. ASSUME NEW w \in Watches, WatchBegin(w) PROVE IInv'
  BY <1>22 DEF WatchBegin, WaitPc
<1>23. ASSUME ProcessExit PROVE IInv'
  BY <1>23 DEF ProcessExit
<1>24. ASSUME NEW w \in Watches, WatchExited(w) PROVE IInv'
  BY <1>24 DEF WatchExited
<1>25. ASSUME NEW w \in Watches, BackoffElapsed(w) PROVE IInv'
  BY <1>25 DEF BackoffElapsed
<1>26. ASSUME NEW w \in Watches, BackoffAborted(w) PROVE IInv'
  BY <1>26 DEF BackoffAborted
<1>27. CASE UNCHANGED vars
  BY <1>27 DEF vars
<1>28. QED
  BY ZenonT(40), <1>1, <1>2, <1>3, <1>4, <1>5, <1>6, <1>7, <1>8, <1>9, <1>10, <1>11,
     <1>12, <1>13, <1>14, <1>15, <1>16, <1>17, <1>18, <1>19, <1>20,
     <1>21, <1>22, <1>23, <1>24, <1>25, <1>26, <1>27
     DEF Next, Enter, StartStep, ClientStep, WatchStep

\* The inductive invariant holds in every behaviour, and gives the safety
\* properties the model checker checks on the small instance.
THEOREM CameraInvariant == Spec => []IInv
  <1>1. QED BY InvInit, InvStep, PTL DEF Spec

\* The invariant gives the safety properties of the manager.
LEMMA InvImplies ==
  IInv => /\ OneWatch /\ NoStrayCamera /\ QuietWhenStopped
          /\ WatchedWhileRunning /\ NotOverwritten
  <1> SUFFICES ASSUME IInv
               PROVE  /\ OneWatch /\ NoStrayCamera /\ QuietWhenStopped
                      /\ WatchedWhileRunning /\ NotOverwritten
    OBVIOUS
  <1> USE VideoAssumption DEF IInv, Procs
  <1>1. OneWatch
    BY DEF OneWatch, WatchInv
  <1>2. NoStrayCamera
    BY DEF NoStrayCamera, ProcInv, LockInv, CriticalPcs
  <1>3. QuietWhenStopped
    BY DEF QuietWhenStopped, StoppedInv
  <1>4. WatchedWhileRunning
    BY DEF WatchedWhileRunning, WatchInv, LockInv, CriticalPcs
  <1>5. NotOverwritten
    BY DEF NotOverwritten, HolderInv
  <1>6. QED
    BY <1>1, <1>2, <1>3, <1>4, <1>5

\* At most one reconnect task is alive, the one a stop cancels.
THEOREM OneWatchAlways == Spec => []OneWatch
  <1>1. QED BY CameraInvariant, InvImplies, PTL

\* Between operations a live scrcpy is the RUNNING camera /status names.
THEOREM NoStrayCameraAlways == Spec => []NoStrayCamera
  <1>1. QED BY CameraInvariant, InvImplies, PTL

\* STOPPED means nothing is left that could bring the camera back.
THEOREM QuietWhenStoppedAlways == Spec => []QuietWhenStopped
  <1>1. QED BY CameraInvariant, InvImplies, PTL

\* A RUNNING camera has a reconnect task watching it.
THEOREM WatchedWhileRunningAlways == Spec => []WatchedWhileRunning
  <1>1. QED BY CameraInvariant, InvImplies, PTL

\* No operation finds its state replaced across an await.
THEOREM NotOverwrittenAlways == Spec => []NotOverwritten
  <1>1. QED BY CameraInvariant, InvImplies, PTL

\* The reconnect status "exhausted" and the state ERROR come together.
THEOREM ExhaustedIsErrorAlways == Spec => []ExhaustedIsError
  <1>1. IInv => ExhaustedIsError
    BY DEF IInv
  <1>2. QED BY <1>1, CameraInvariant, PTL

\* scrcpy is never launched over a live one.
THEOREM NeverReplaces == Spec => NeverReplacesLiveCamera
  <1>1. IInv /\ [Next]_vars => [\A p \in Procs : Launch(p) => proc = NoSerial]_vars
    BY DEF IInv, HolderInv, Launch
  <1>2. QED
    BY <1>1, CameraInvariant, PTL DEF Spec, NeverReplacesLiveCamera

-----------------------------------------------------------------------------
(* The manager implements the camera service.                              *)

UserOwns  == \E c \in Clients : pc[c] \in StartPcs \ {"startLock"}
WatchOwns == \E w \in Watches : Live(w)
StopOwns  == \E c \in Clients : pc[c] \in {"stopTerm", "resetTerm"}

\* What it means for each owner of the camera service to be one.
LEMMA OwnersMembers ==
  /\ Owners \subseteq {"user", "reconnect", "stop"}
  /\ "user" \in Owners <=> UserOwns
  /\ "reconnect" \in Owners <=> WatchOwns
  /\ "stop" \in Owners <=> StopOwns
  BY DEF Owners, UserOwns, WatchOwns, StopOwns

\* The same of the next state.
LEMMA OwnersMembersNext ==
  /\ Owners' \subseteq {"user", "reconnect", "stop"}
  /\ "user" \in Owners' <=> UserOwns'
  /\ "reconnect" \in Owners' <=> WatchOwns'
  /\ "stop" \in Owners' <=> StopOwns'
  BY DEF Owners, UserOwns, WatchOwns, StopOwns

\* A manager just built is a camera service with no camera and no owner.
LEMMA RefineInit == Init => Camera!Init
  <1> SUFFICES ASSUME Init PROVE Camera!Init
    OBVIOUS
  <1>1. ~UserOwns /\ ~WatchOwns /\ ~StopOwns
    BY VideoAssumption DEF Init, UserOwns, WatchOwns, StopOwns, StartPcs, Procs, Live
  <1>2. Owners = {}
    BY <1>1, OwnersMembers
  <1>3. QED
    BY <1>2 DEF Init, Camera!Init

\* The steps of the camera service, told by the three owners.
Keep == /\ UserOwns' <=> UserOwns
        /\ WatchOwns' <=> WatchOwns
        /\ StopOwns' <=> StopOwns

\* A step that moves no handler and no task into or out of its role leaves the
\* owners as they are.
LEMMA KeepOwners == ASSUME Keep PROVE Owners' = Owners
  <1>1. \A o \in {"user", "reconnect", "stop"} : o \in Owners' <=> o \in Owners
    BY OwnersMembers, OwnersMembersNext DEF Keep
  <1>2. Owners' \subseteq Owners /\ Owners \subseteq Owners'
    BY <1>1, OwnersMembers, OwnersMembersNext
  <1>3. QED
    BY <1>2

AbsStep ==
  \/ Keep /\ proc' = proc
  \/ Keep /\ proc = NoSerial /\ proc' \in Serials /\ (UserOwns \/ WatchOwns) /\ ~StopOwns
  \/ Keep /\ proc # NoSerial /\ proc' = NoSerial
  \/ /\ proc' = proc /\ ~UserOwns /\ ~StopOwns
     /\ UserOwns' /\ ~StopOwns' /\ (WatchOwns' <=> WatchOwns)
  \/ /\ proc' = proc /\ UserOwns
     /\ ~UserOwns' /\ ~StopOwns' /\ WatchOwns'
  \/ /\ proc' = proc /\ UserOwns /\ (proc = NoSerial \/ WatchOwns)
     /\ ~UserOwns' /\ (StopOwns' <=> StopOwns) /\ (WatchOwns' <=> WatchOwns)
  \/ /\ proc' = proc /\ WatchOwns /\ (proc = NoSerial \/ UserOwns)
     /\ ~WatchOwns' /\ (StopOwns' <=> StopOwns) /\ (UserOwns' <=> UserOwns)
  \/ /\ proc' = proc /\ ~UserOwns /\ ~StopOwns
     /\ ~UserOwns' /\ StopOwns' /\ ~WatchOwns'
  \/ /\ proc' = NoSerial /\ StopOwns /\ ~StopOwns'
     /\ (UserOwns' <=> UserOwns) /\ (WatchOwns' <=> WatchOwns)

\* Each of the ways a step may change process and owners is one step of the
\* camera service or a stutter.
LEMMA AbsStepRefines == ASSUME AbsStep PROVE [Camera!Next]_(Camera!vars)
  <1> USE OwnersMembers, OwnersMembersNext
  <1>1. CASE Keep /\ proc' = proc
    BY <1>1, KeepOwners DEF Camera!vars
  <1>2. CASE Keep /\ proc = NoSerial /\ proc' \in Serials /\ (UserOwns \/ WatchOwns) /\ ~StopOwns
    BY <1>2, KeepOwners DEF Camera!Next, Camera!Launch
  <1>3. CASE Keep /\ proc # NoSerial /\ proc' = NoSerial
    BY <1>3, KeepOwners DEF Camera!Next, Camera!Lost
  <1>4. CASE /\ proc' = proc /\ ~UserOwns /\ ~StopOwns
             /\ UserOwns' /\ ~StopOwns' /\ (WatchOwns' <=> WatchOwns)
    BY <1>4 DEF Camera!Next, Camera!UserBegins
  <1>5. CASE /\ proc' = proc /\ UserOwns
             /\ ~UserOwns' /\ ~StopOwns' /\ WatchOwns'
    BY <1>5 DEF Camera!Next, Camera!Established
  <1>6. CASE /\ proc' = proc /\ UserOwns /\ (proc = NoSerial \/ WatchOwns)
             /\ ~UserOwns' /\ (StopOwns' <=> StopOwns) /\ (WatchOwns' <=> WatchOwns)
    BY <1>6 DEF Camera!Next, Camera!UserFails
  <1>7. CASE /\ proc' = proc /\ WatchOwns /\ (proc = NoSerial \/ UserOwns)
             /\ ~WatchOwns' /\ (StopOwns' <=> StopOwns) /\ (UserOwns' <=> UserOwns)
    BY <1>7 DEF Camera!Next, Camera!ReconnectEnds
  <1>8. CASE /\ proc' = proc /\ ~UserOwns /\ ~StopOwns
             /\ ~UserOwns' /\ StopOwns' /\ ~WatchOwns'
    BY <1>8 DEF Camera!Next, Camera!StopBegins
  <1>9. CASE /\ proc' = NoSerial /\ StopOwns /\ ~StopOwns'
             /\ (UserOwns' <=> UserOwns) /\ (WatchOwns' <=> WatchOwns)
    BY <1>9 DEF Camera!Next, Camera!StopEnds
  <1>10. QED
    BY <1>1, <1>2, <1>3, <1>4, <1>5, <1>6, <1>7, <1>8, <1>9 DEF AbsStep

\* Every step of the manager changes process and owners in one of those ways.
LEMMA RefineStep == IInv /\ [Next]_vars => AbsStep
  <1> SUFFICES ASSUME IInv, [Next]_vars PROVE AbsStep
    OBVIOUS
  <1> USE VideoAssumption, AllowedTable
      DEF TypeOK, IInv, LockInv, HolderInv, ProcInv, StoppedInv, WatchInv,
        CriticalPcs, StartPcs, ClientPcs, WatchPcs, Live, Procs, States,
        UserOwns, WatchOwns, StopOwns, Keep, AbsStep,
        STOPPED, RUNNING, STOPPING, STARTING, ERROR
<1>1. ASSUME NEW c \in Clients, NEW s \in Serials \cup {NoSerial}, ClientStart(c, s) PROVE AbsStep
  BY <1>1 DEF ClientStart
<1>2. ASSUME NEW c \in Clients, ClientStop(c) PROVE AbsStep
  BY <1>2 DEF ClientStop, Request
<1>3. ASSUME NEW c \in Clients, ClientReset(c) PROVE AbsStep
  BY <1>3 DEF ClientReset, Request
<1>4. ASSUME NEW p \in Procs, StartEnter(p) PROVE AbsStep
  BY <1>4 DEF StartEnter
<1>5. ASSUME NEW p \in Procs, DeviceNotReady(p) PROVE AbsStep
  BY <1>5 DEF DeviceNotReady, StartFailed
<1>6. ASSUME NEW p \in Procs, DeviceReady(p) PROVE AbsStep
  BY <1>6 DEF DeviceReady, StartFailed, StartSucceeded, Stale, Reconciled, WaitPc, Live
<1>7. ASSUME NEW p \in Procs, SourceUnavailable(p) PROVE AbsStep
  BY <1>7 DEF SourceUnavailable, StartFailed
<1>8. ASSUME NEW p \in Procs, Launch(p) PROVE AbsStep
  BY <1>8 DEF Launch, Selectable
<1>9. ASSUME NEW p \in Procs, ExitedAtOnce(p) PROVE AbsStep
  BY <1>9 DEF ExitedAtOnce, StartFailed
<1>10. ASSUME NEW p \in Procs, Settled(p) PROVE AbsStep
  BY <1>10 DEF Settled
<1>11. ASSUME NEW p \in Procs, AudioStarted(p) PROVE AbsStep
  BY <1>11 DEF AudioStarted, StartSucceeded, WaitPc, Live
<1>12. ASSUME NEW c \in Clients, StopAlreadyStopped(c) PROVE AbsStep
  BY <1>12 DEF StopAlreadyStopped, StopEnter, CancelWatch, Cancelled
<1>13. ASSUME NEW c \in Clients, StopBegin(c) PROVE AbsStep
  BY <1>13 DEF StopBegin, StopEnter, CancelWatch, Cancelled
<1>14. ASSUME NEW c \in Clients, StopRefused(c) PROVE AbsStep
  BY <1>14 DEF StopRefused, StopEnter, CancelWatch, Cancelled
<1>15. ASSUME NEW c \in Clients, ResetBegin(c) PROVE AbsStep
  BY <1>15 DEF ResetBegin, CancelWatch, Cancelled
<1>16. ASSUME NEW c \in Clients, ResetNoProcess(c) PROVE AbsStep
  BY <1>16 DEF ResetNoProcess
<1>17. ASSUME NEW c \in Clients, StopTerminated(c) PROVE AbsStep
  BY <1>17 DEF StopTerminated
<1>18. ASSUME NEW c \in Clients, MicStopped(c) PROVE AbsStep
  BY <1>18 DEF MicStopped
<1>19. ASSUME NEW c \in Clients, Reloaded(c) PROVE AbsStep
  BY <1>19 DEF Reloaded, Release
<1>20. ASSUME NEW c \in Clients, ResetTerminated(c) PROVE AbsStep
  BY <1>20 DEF ResetTerminated
<1>21. ASSUME NEW c \in Clients, DeviceReset(c) PROVE AbsStep
  BY <1>21 DEF DeviceReset, Release
<1>22. ASSUME NEW w \in Watches, WatchBegin(w) PROVE AbsStep
  BY <1>22 DEF WatchBegin, WaitPc
<1>23. ASSUME ProcessExit PROVE AbsStep
  BY <1>23 DEF ProcessExit
<1>24. ASSUME NEW w \in Watches, WatchExited(w) PROVE AbsStep
  BY <1>24 DEF WatchExited
<1>25. ASSUME NEW w \in Watches, BackoffElapsed(w) PROVE AbsStep
  BY <1>25 DEF BackoffElapsed
<1>26. ASSUME NEW w \in Watches, BackoffAborted(w) PROVE AbsStep
  BY <1>26 DEF BackoffAborted
<1>27. CASE UNCHANGED vars
  BY <1>27 DEF vars
<1>28. QED
  BY ZenonT(40), <1>1, <1>2, <1>3, <1>4, <1>5, <1>6, <1>7, <1>8, <1>9, <1>10, <1>11,
     <1>12, <1>13, <1>14, <1>15, <1>16, <1>17, <1>18, <1>19, <1>20,
     <1>21, <1>22, <1>23, <1>24, <1>25, <1>26, <1>27
     DEF Next, Enter, StartStep, ClientStep, WatchStep

\* The manager, with its lock, tasks and state table, implements the camera
\* service: scrcpy is launched and kept only on behalf of somebody.
THEOREM Refinement == Spec => ImplementsCameraService
  <1>1. QED
    BY RefineInit, RefineStep, AbsStepRefines, CameraInvariant, PTL
    DEF Spec, ImplementsCameraService, Camera!Spec

\* The camera service never streams a camera nobody asked for.
LEMMA ServiceNoOrphan == Camera!Spec => []Camera!NoOrphan
  <1>1. Camera!Init => Camera!NoOrphan
    BY DEF Camera!Init, Camera!NoOrphan
  <1>2. Camera!NoOrphan /\ [Camera!Next]_(Camera!vars) => Camera!NoOrphan'
    BY DEF Camera!NoOrphan, Camera!vars, Camera!Next, Camera!UserBegins,
           Camera!Launch, Camera!Lost, Camera!Established, Camera!UserFails,
           Camera!ReconnectEnds, Camera!StopBegins, Camera!StopEnds
  <1>3. QED
    BY <1>1, <1>2, PTL DEF Camera!Spec

\* Hence neither does the manager that implements it.
THEOREM NoOrphanCamera == Spec => []Camera!NoOrphan
  <1>1. QED
    BY Refinement, ServiceNoOrphan, PTL DEF ImplementsCameraService
-----------------------------------------------------------------------------
(* Requests and restarts end: the part of RequestsAnswered and of          *)
(* LostCameraResolved that needs no fairness.                              *)

\* A reconnect task between the loss of the process and its return.
RestartPcs == StartPcs \cup {"backoff"}

\* A restart in progress is one of the attempts the policy allows.
AttemptInv == \A w \in Watches : pc[w] \in RestartPcs => attempt[w] > 0

\* The places where a task is suspended one after the other.
Follows(at, next) ==
  \/ at = "backoff"   /\ next = "startLock"
  \/ at = "startLock" /\ next = "ensure"
  \/ at = "ensure"    /\ next = "select"
  \/ at = "select"    /\ next = "settle"
  \/ at = "settle"    /\ next = "audio"
  \/ at = "stopLock"  /\ next \in {"stopTerm", "reload"}
  \/ at = "stopTerm"  /\ next = "micStop"
  \/ at = "micStop"   /\ next = "reload"
  \/ at = "resetLock" /\ next \in {"resetTerm", "device"}
  \/ at = "resetTerm" /\ next = "device"

\* The next attempt of a reconnect task.
Retries(w) ==
  /\ pc[w] \in {"ensure", "select", "settle"} /\ pc'[w] = "backoff"
  /\ attempt[w] < MaxAttempts /\ attempt'[w] = attempt[w] + 1

\* What a step may do to a task: nothing, its first step, its end or the end
\* of its restart, the next place, the first attempt or another one.
TaskStep(p) ==
  \/ pc'[p] = pc[p] /\ (p \in Watches => attempt'[p] = attempt[p])
  \/ p \in Clients /\ pc[p] = "idle"
  \/ p \in Watches /\ pc[p] = "dead" /\ pc'[p] = "new"
  \/ pc'[p] \in {"idle", "dead", "wait", "woken"}
  \/ Follows(pc[p], pc'[p]) /\ (p \in Watches => attempt'[p] = attempt[p])
  \/ p \in Watches /\ pc[p] = "woken" /\ pc'[p] = "backoff" /\ attempt'[p] = 1
  \/ p \in Watches /\ Retries(p)

\* No step, of whichever task, does anything else to a task.
LEMMA TaskSteps ==
  ASSUME TypeOK, [Next]_vars, NEW p \in Procs
  PROVE  TaskStep(p)
  <1> USE VideoAssumption
      DEF TypeOK, Procs, TaskStep, Follows, Retries, StartPcs, ClientPcs, WatchPcs
<1>1. ASSUME NEW c \in Clients, NEW s \in Serials \cup {NoSerial}, ClientStart(c, s) PROVE TaskStep(p)
  BY <1>1 DEF ClientStart
<1>2. ASSUME NEW c \in Clients, ClientStop(c) PROVE TaskStep(p)
  BY <1>2 DEF ClientStop, Request
<1>3. ASSUME NEW c \in Clients, ClientReset(c) PROVE TaskStep(p)
  BY <1>3 DEF ClientReset, Request
<1>4. ASSUME NEW q \in Procs, StartEnter(q) PROVE TaskStep(p)
  BY <1>4 DEF StartEnter
<1>5. ASSUME NEW q \in Procs, DeviceNotReady(q) PROVE TaskStep(p)
  BY <1>5 DEF DeviceNotReady, StartFailed
<1>6. ASSUME NEW q \in Procs, DeviceReady(q) PROVE TaskStep(p)
  BY <1>6 DEF DeviceReady, StartFailed, StartSucceeded, WaitPc, Live, Forgotten
<1>7. ASSUME NEW q \in Procs, SourceUnavailable(q) PROVE TaskStep(p)
  BY <1>7 DEF SourceUnavailable, StartFailed
<1>8. ASSUME NEW q \in Procs, Launch(q) PROVE TaskStep(p)
  BY <1>8 DEF Launch
<1>9. ASSUME NEW q \in Procs, ExitedAtOnce(q) PROVE TaskStep(p)
  BY <1>9 DEF ExitedAtOnce, StartFailed
<1>10. ASSUME NEW q \in Procs, Settled(q) PROVE TaskStep(p)
  BY <1>10 DEF Settled
<1>11. ASSUME NEW q \in Procs, AudioStarted(q) PROVE TaskStep(p)
  BY <1>11 DEF AudioStarted, StartSucceeded, WaitPc, Live, Forgotten
<1>12. ASSUME NEW c \in Clients, StopAlreadyStopped(c) PROVE TaskStep(p)
  BY <1>12 DEF StopAlreadyStopped, StopEnter, CancelWatch, Cancelled, Forgotten
<1>13. ASSUME NEW c \in Clients, StopBegin(c) PROVE TaskStep(p)
  BY <1>13 DEF StopBegin, StopEnter, CancelWatch, Cancelled, Forgotten
<1>14. ASSUME NEW c \in Clients, StopRefused(c) PROVE TaskStep(p)
  BY <1>14 DEF StopRefused, StopEnter, CancelWatch, Cancelled, Forgotten
<1>15. ASSUME NEW c \in Clients, ResetBegin(c) PROVE TaskStep(p)
  BY <1>15 DEF ResetBegin, CancelWatch, Cancelled, Forgotten
<1>16. ASSUME NEW c \in Clients, ResetNoProcess(c) PROVE TaskStep(p)
  BY <1>16 DEF ResetNoProcess
<1>17. ASSUME NEW c \in Clients, StopTerminated(c) PROVE TaskStep(p)
  BY <1>17 DEF StopTerminated
<1>18. ASSUME NEW c \in Clients, MicStopped(c) PROVE TaskStep(p)
  BY <1>18 DEF MicStopped
<1>19. ASSUME NEW c \in Clients, Reloaded(c) PROVE TaskStep(p)
  BY <1>19 DEF Reloaded, Release
<1>20. ASSUME NEW c \in Clients, ResetTerminated(c) PROVE TaskStep(p)
  BY <1>20 DEF ResetTerminated
<1>21. ASSUME NEW c \in Clients, DeviceReset(c) PROVE TaskStep(p)
  BY <1>21 DEF DeviceReset, Release
<1>22. ASSUME NEW w \in Watches, WatchBegin(w) PROVE TaskStep(p)
  BY <1>22 DEF WatchBegin, WaitPc
<1>23. ASSUME ProcessExit PROVE TaskStep(p)
  BY <1>23 DEF ProcessExit
<1>24. ASSUME NEW w \in Watches, WatchExited(w) PROVE TaskStep(p)
  BY <1>24 DEF WatchExited
<1>25. ASSUME NEW w \in Watches, BackoffElapsed(w) PROVE TaskStep(p)
  BY <1>25 DEF BackoffElapsed
<1>26. ASSUME NEW w \in Watches, BackoffAborted(w) PROVE TaskStep(p)
  BY <1>26 DEF BackoffAborted
<1>27. CASE UNCHANGED vars
  BY <1>27 DEF vars
<1>28. QED
  BY <1>1, <1>2, <1>3, <1>4, <1>5, <1>6, <1>7, <1>8, <1>9, <1>10, <1>11,
     <1>12, <1>13, <1>14, <1>15, <1>16, <1>17, <1>18, <1>19, <1>20,
     <1>21, <1>22, <1>23, <1>24, <1>25, <1>26, <1>27
     DEF Next, Enter, StartStep, ClientStep, WatchStep

\* The first attempt counts as one, and every other as one more.
LEMMA AttemptStep == TypeOK /\ AttemptInv /\ [Next]_vars => AttemptInv'
  <1> SUFFICES ASSUME TypeOK, AttemptInv, [Next]_vars,
                      NEW w \in Watches, pc'[w] \in RestartPcs
               PROVE  attempt'[w] > 0
    BY DEF AttemptInv
  <1>1. TaskStep(w) /\ w \notin Clients /\ attempt[w] \in 0 .. MaxAttempts
    BY TaskSteps, VideoAssumption DEF Procs, TypeOK
  <1>2. pc[w] \in WatchPcs \cup StartPcs
    BY DEF TypeOK
  <1>3. QED
    BY <1>1, <1>2, VideoAssumption
       DEF TaskStep, Follows, Retries, AttemptInv, RestartPcs, StartPcs, WatchPcs

\* The steps a task has left, at most, at each place where it is suspended.
Rank(at) ==
  CASE at = "backoff" -> 6
    [] at = "startLock" -> 5
    [] at \in {"ensure", "stopLock"} -> 4
    [] at \in {"select", "stopTerm", "resetLock"} -> 3
    [] at \in {"settle", "micStop", "resetTerm"} -> 2
    [] at \in {"audio", "reload", "device"} -> 1
    [] OTHER -> 0

\* For a restart also those of the attempts that may follow.
Left(p) ==
  IF p \in Watches /\ pc[p] \in RestartPcs
    THEN Rank(pc[p]) + 6 * (MaxAttempts - attempt[p]) ELSE Rank(pc[p])

\* Task p stays where it is, begins something, ends, or has fewer steps left.
Advances(p) ==
  \/ pc'[p] = pc[p] /\ Left(p)' = Left(p)
  \/ pc[p] \in {"idle", "dead", "woken"}
  \/ pc'[p] \in {"idle", "dead", "wait", "woken"}
  \/ Left(p)' < Left(p)

LEMMA StepAdvances ==
  ASSUME TypeOK, [Next]_vars, NEW p \in Procs
  PROVE  Advances(p)
  <1> USE VideoAssumption
  <1>1. TaskStep(p)
    BY TaskSteps
  <1>2. CASE p \in Watches
    <2>1. /\ attempt[p] \in 0 .. MaxAttempts
          /\ pc[p] \in WatchPcs \cup StartPcs /\ p \notin Clients
      BY <1>2 DEF TypeOK
    <2>2. CASE pc'[p] = pc[p] /\ attempt'[p] = attempt[p]
      BY <2>2 DEF Advances, Left
    <2>3. CASE Follows(pc[p], pc'[p]) /\ attempt'[p] = attempt[p]
      BY <1>2, <2>1, <2>3
         DEF Advances, Left, Rank, RestartPcs, Follows, StartPcs, WatchPcs
    <2>4. CASE Retries(p)
      BY <1>2, <2>1, <2>4 DEF Advances, Left, Rank, RestartPcs, Retries, StartPcs
    <2>5. QED
      BY <1>1, <1>2, <2>1, <2>2, <2>3, <2>4 DEF TaskStep, Advances
  <1>3. CASE p \in Clients
    <2>1. p \notin Watches
      BY <1>3
    <2>2. Left(p) = Rank(pc[p]) /\ Left(p)' = Rank(pc'[p])
      BY <2>1 DEF Left
    <2>3. CASE Follows(pc[p], pc'[p])
      BY <2>2, <2>3 DEF Advances, Rank, Follows
    <2>4. QED
      BY <1>1, <1>3, <2>1, <2>2, <2>3 DEF TaskStep, Advances
  <1>4. QED
    BY <1>2, <1>3 DEF Procs

\* An operation has at most five steps, a restart six per attempt.
Longest(p) == IF p \in Clients THEN 5 ELSE 6 * MaxAttempts

LEMMA LeftBounded ==
  ASSUME TypeOK, AttemptInv, NEW p \in Procs
  PROVE  Left(p) \in 0 .. Longest(p)
  <1> USE VideoAssumption
  <1>1. /\ Rank(pc[p]) \in 0 .. 6
        /\ p \in Clients => pc[p] # "backoff" /\ p \notin Watches
    BY DEF Rank, TypeOK, ClientPcs, StartPcs
  <1>2. CASE p \in Watches /\ pc[p] \in RestartPcs
    <2>1. attempt[p] \in 1 .. MaxAttempts
      BY <1>2 DEF TypeOK, AttemptInv
    <2>2. QED
      BY <1>1, <1>2, <2>1 DEF Left, Longest
  <1>3. CASE ~(p \in Watches /\ pc[p] \in RestartPcs)
    <2>1. p \in Clients => Rank(pc[p]) <= 5
      BY <1>1 DEF Rank
    <2>2. QED
      BY <1>1, <1>3, <2>1 DEF Left, Longest
  <1>4. QED
    BY <1>2, <1>3

\* A step that brings a task no nearer to its end: there is none.
GoesBack == \E p \in Procs : ~Advances(p)

\* Nothing a task, another one or the process does sends a handler or a restart
\* back: a handler ends after five of its steps at most, and a reconnect task
\* has the camera back, or has given up, after six steps per allowed attempt.
THEOREM OperationsAdvance ==
  Spec => [][~GoesBack]_vars /\ [](\A p \in Procs : Left(p) \in 0 .. Longest(p))
  <1> DEFINE Inv == TypeOK /\ AttemptInv
  <1>1. Init => Inv
    BY TypeInit, VideoAssumption
       DEF Init, AttemptInv, RestartPcs, StartPcs, Procs
  <1>2. Inv /\ [Next]_vars => Inv'
    BY TypeStep, AttemptStep
  <1>3. Inv /\ [Next]_vars => [~GoesBack]_vars
    BY StepAdvances DEF GoesBack
  <1>4. Inv => \A p \in Procs : Left(p) \in 0 .. Longest(p)
    BY LeftBounded
  <1> HIDE DEF Inv
  <1>5. QED
    BY <1>1, <1>2, <1>3, <1>4, PTL DEF Spec

-----------------------------------------------------------------------------
(* Which phone a restart is for.                                           *)

\* The phone of a camera that was lost is known until the first restart has
\* asked for it: only a restart that failed leaves RUNNING without a phone.
PhoneInv ==
  /\ videoState = RUNNING =>
       active # NoSerial \/ \E w \in Watches : pc[w] \in RestartPcs /\ attempt[w] > 1
  /\ \A p \in Procs : pc[p] = "audio" => active # NoSerial
  /\ \A w \in Watches :
       pc[w] \in StartPcs /\ attempt[w] = 1 => arg[w] # NoSerial

LEMMA PhoneInit == Init => PhoneInv
  BY VideoAssumption
     DEF Init, PhoneInv, Procs, StartPcs, STOPPED, RUNNING

\* The operations of others between the loss and the restart keep it.
LEMMA PhoneStep == IInv /\ AttemptInv /\ PhoneInv /\ [Next]_vars => PhoneInv'
  <1> SUFFICES ASSUME IInv, AttemptInv, PhoneInv, [Next]_vars PROVE PhoneInv'
    OBVIOUS
  <1> USE VideoAssumption, AllowedTable
      DEF TypeOK, IInv, LockInv, HolderInv, ProcInv, WatchInv, AttemptInv, PhoneInv,
          RestartPcs, CriticalPcs, StartPcs, ClientPcs, WatchPcs, Live, Procs, States,
          STOPPED, RUNNING, STOPPING, STARTING, ERROR
<1>1. ASSUME NEW c \in Clients, NEW s \in Serials \cup {NoSerial}, ClientStart(c, s) PROVE PhoneInv'
  BY <1>1 DEF ClientStart
<1>2. ASSUME NEW c \in Clients, ClientStop(c) PROVE PhoneInv'
  BY <1>2 DEF ClientStop, Request
<1>3. ASSUME NEW c \in Clients, ClientReset(c) PROVE PhoneInv'
  BY <1>3 DEF ClientReset, Request
<1>4. ASSUME NEW q \in Procs, StartEnter(q) PROVE PhoneInv'
  BY <1>4 DEF StartEnter
<1>5. ASSUME NEW q \in Procs, DeviceNotReady(q) PROVE PhoneInv'
  BY <1>5 DEF DeviceNotReady, StartFailed
<1>6. ASSUME NEW q \in Procs, DeviceReady(q) PROVE PhoneInv'
  BY <1>6 DEF DeviceReady, StartFailed, StartSucceeded, Stale, Reconciled, WaitPc, Live, Forgotten
<1>7. ASSUME NEW q \in Procs, SourceUnavailable(q) PROVE PhoneInv'
  BY <1>7 DEF SourceUnavailable, StartFailed
<1>8. ASSUME NEW q \in Procs, Launch(q) PROVE PhoneInv'
  BY <1>8 DEF Launch
<1>9. ASSUME NEW q \in Procs, ExitedAtOnce(q) PROVE PhoneInv'
  BY <1>9 DEF ExitedAtOnce, StartFailed
<1>10. ASSUME NEW q \in Procs, Settled(q) PROVE PhoneInv'
  BY <1>10 DEF Settled
<1>11. ASSUME NEW q \in Procs, AudioStarted(q) PROVE PhoneInv'
  BY <1>11 DEF AudioStarted, StartSucceeded, WaitPc, Live, Forgotten
<1>12. ASSUME NEW c \in Clients, StopAlreadyStopped(c) PROVE PhoneInv'
  BY <1>12 DEF StopAlreadyStopped, StopEnter, CancelWatch, Cancelled, Forgotten
<1>13. ASSUME NEW c \in Clients, StopBegin(c) PROVE PhoneInv'
  BY <1>13 DEF StopBegin, StopEnter, CancelWatch, Cancelled, Forgotten
<1>14. ASSUME NEW c \in Clients, StopRefused(c) PROVE PhoneInv'
  BY <1>14 DEF StopRefused, StopEnter, CancelWatch, Cancelled, Forgotten
<1>15. ASSUME NEW c \in Clients, ResetBegin(c) PROVE PhoneInv'
  BY <1>15 DEF ResetBegin, CancelWatch, Cancelled, Forgotten
<1>16. ASSUME NEW c \in Clients, ResetNoProcess(c) PROVE PhoneInv'
  BY <1>16 DEF ResetNoProcess
<1>17. ASSUME NEW c \in Clients, StopTerminated(c) PROVE PhoneInv'
  BY <1>17 DEF StopTerminated
<1>18. ASSUME NEW c \in Clients, MicStopped(c) PROVE PhoneInv'
  BY <1>18 DEF MicStopped
<1>19. ASSUME NEW c \in Clients, Reloaded(c) PROVE PhoneInv'
  BY <1>19 DEF Reloaded, Release
<1>20. ASSUME NEW c \in Clients, ResetTerminated(c) PROVE PhoneInv'
  BY <1>20 DEF ResetTerminated
<1>21. ASSUME NEW c \in Clients, DeviceReset(c) PROVE PhoneInv'
  BY <1>21 DEF DeviceReset, Release
<1>22. ASSUME NEW w \in Watches, WatchBegin(w) PROVE PhoneInv'
  BY <1>22 DEF WatchBegin, WaitPc
<1>23. ASSUME ProcessExit PROVE PhoneInv'
  BY <1>23 DEF ProcessExit
<1>24. ASSUME NEW w \in Watches, WatchExited(w) PROVE PhoneInv'
  BY <1>24 DEF WatchExited
<1>25. ASSUME NEW w \in Watches, BackoffElapsed(w) PROVE PhoneInv'
  BY <1>25 DEF BackoffElapsed
<1>26. ASSUME NEW w \in Watches, BackoffAborted(w) PROVE PhoneInv'
  BY <1>26 DEF BackoffAborted
<1>27. CASE UNCHANGED vars
  BY <1>27 DEF vars
<1>28. QED
  BY <1>1, <1>2, <1>3, <1>4, <1>5, <1>6, <1>7, <1>8, <1>9, <1>10, <1>11,
     <1>12, <1>13, <1>14, <1>15, <1>16, <1>17, <1>18, <1>19, <1>20,
     <1>21, <1>22, <1>23, <1>24, <1>25, <1>26, <1>27
     DEF Next, Enter, StartStep, ClientStep, WatchStep

\* The first restart after a loss that forgets the phone, or asks for another.
Strays ==
  \E w \in Watches :
    /\ attempt[w] = 1
    /\ \/ BackoffElapsed(w) /\ active = NoSerial
       \/ Launch(w) /\ (arg[w] = NoSerial \/ proc' # arg[w])

\* A camera whose process is lost comes back on its phone: the first restart
\* reads the phone /status names (the one of the lost process, by
\* NoStrayCamera) and launches scrcpy on none but it, whatever starts, stops and
\* resets were tried between.  Later attempts may take any phone.
THEOREM FirstRestartSamePhone == Spec => [][~Strays]_vars
  <1> DEFINE Inv == IInv /\ AttemptInv /\ PhoneInv
  <1>1. Init => Inv
    BY InvInit, PhoneInit, VideoAssumption
       DEF Init, AttemptInv, RestartPcs, StartPcs, Procs
  <1>2. Inv /\ [Next]_vars => Inv'
    BY InvStep, AttemptStep, PhoneStep DEF IInv
  <1>3. Inv /\ [Next]_vars => [~Strays]_vars
    <2> SUFFICES ASSUME Inv, NEW w \in Watches, attempt[w] = 1,
                        \/ BackoffElapsed(w) /\ active = NoSerial
                        \/ Launch(w) /\ (arg[w] = NoSerial \/ proc' # arg[w])
                 PROVE  FALSE
      BY DEF Strays
    <2>1. \A v \in Watches : pc[v] \in RestartPcs /\ pc[w] \in RestartPcs => v = w
      BY VideoAssumption
         DEF IInv, WatchInv, Live, RestartPcs, StartPcs, TypeOK
    <2>2. CASE BackoffElapsed(w) /\ active = NoSerial
      BY <2>1, <2>2 DEF BackoffElapsed, PhoneInv, RestartPcs
    <2>3. CASE Launch(w) /\ (arg[w] = NoSerial \/ proc' # arg[w])
      BY <2>3 DEF Launch, Selectable, PhoneInv, StartPcs
    <2>4. QED
      BY <2>2, <2>3
  <1> HIDE DEF Inv
  <1>4. QED
    BY <1>1, <1>2, <1>3, PTL DEF Spec

=============================================================================
