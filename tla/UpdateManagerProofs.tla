------------------------- MODULE UpdateManagerProofs ------------------------
(***************************************************************************)
(* Proofs about UpdateManager, for every number of calls and releases,     *)
(* with crashes and on every Python.                                       *)
(***************************************************************************)
EXTENDS UpdateManager, TLAPS

\* The file holds a state unless it was never written, and agrees with the
\* record on whether an install is in progress.
RecordInv == FileAgrees /\ (saved.state = "none" => saved = NoFile)

\* The inductive invariant of the record.
IInv == TypeOK /\ RecordInv

\* From its streams to apt a call is an install, and only installers install.
InstallerInv ==
  \A p \in Procs :
    /\ installing[p] => p \in Installers
    /\ pc[p] = "stopping" \/ Working(p) => installing[p]

\* What the package needs besides.
PackageInv == InstallerInv /\ InstallsWhatWasVerified
-----------------------------------------------------------------------------

\* Every saved record has its type.
LEMMA SaveType ==
  ASSUME installState' \in InstallStates, report' \in Reports, Save
  PROVE  /\ saved' \in [state : InstallStates \cup {"none"}, report : Reports]
         /\ RecordInv'
  BY DEF Save, InstallStates, Busy, NoFile, RecordInv, FileAgrees

\* A call that returns or goes on keeps the types of the calls.
LEMMA ReturnType ==
  ASSUME TypeOK, NEW p \in Procs, Return(p)
  PROVE  /\ pc' \in [Procs -> Pcs]
         /\ installing' \in [Procs -> BOOLEAN] /\ allow' \in [Procs -> BOOLEAN]
         /\ target' \in [Procs -> 0..MaxVersion]
  BY UpdateAssumption DEF TypeOK, Return, GoTo, Pcs

\* The daemon starts with its types right and its record unsaved.
LEMMA InvInit == Init => IInv
  <1> SUFFICES ASSUME Init PROVE IInv
    OBVIOUS
  <1>1. NoFile.report \in Reports /\ NoFile.state = "none" /\ Fresh(1) \in Reports
    BY UpdateAssumption DEF NoFile, Fresh, Reports
  <1>2. saved \in [state : InstallStates \cup {"none"}, report : Reports]
    BY <1>1 DEF Init, NoFile
  <1>3. 1 \in Versions /\ 0 \in 0..MaxVersion
    BY UpdateAssumption DEF Versions
  <1>4. TypeOK
    BY <1>1, <1>2, <1>3 DEF Init, TypeOK, InstallStates, Pcs
  <1>5. RecordInv
    BY <1>1 DEF Init, RecordInv, FileAgrees, Busy
  <1>6. QED
    BY <1>4, <1>5 DEF IInv

\* No step takes a variable out of its type, or the file from the record.
LEMMA InvStep == IInv /\ [Next]_vars => IInv'
  <1> SUFFICES ASSUME IInv, [Next]_vars PROVE IInv'
    OBVIOUS
<1>1. ASSUME NEW p \in Procs, CheckBegin(p) PROVE IInv'
  <2>1. TypeOK'
    BY <1>1 DEF CheckBegin, GoTo, IInv, TypeOK, InstallStates, Pcs, cache, world
  <2>2. RecordInv'
    BY <1>1 DEF CheckBegin, IInv, RecordInv, FileAgrees, Busy
  <2>3. QED
    BY <2>1, <2>2 DEF IInv
<1>2. ASSUME NEW p \in Procs, InstallRefused(p) PROVE IInv'
  <2>1. installState' \in InstallStates /\ report' \in Reports /\ Save
    BY <1>2 DEF InstallRefused, IInv, TypeOK, InstallStates, Busy
  <2>2. TypeOK'
    BY <1>2, <2>1, SaveType DEF InstallRefused, IInv, TypeOK, calls, cache, world
  <2>3. QED
    BY <2>1, <2>2, SaveType DEF IInv
<1>3. ASSUME NEW p \in Procs, InstallBegin(p) PROVE IInv'
  <2>1. installState' \in InstallStates /\ report' \in Reports /\ Save
    BY <1>3 DEF InstallBegin, IInv, TypeOK, InstallStates, Busy
  <2>2. TypeOK'
    BY <1>3, <2>1, SaveType DEF InstallBegin, IInv, TypeOK, GoTo, Pcs, cache, world
  <2>3. QED
    BY <2>1, <2>2, SaveType DEF IInv
<1>4. ASSUME NEW p \in Procs, CheckFails(p) PROVE IInv'
  <2>1. installState' \in InstallStates /\ report' \in Reports /\ Save
    BY <1>4 DEF CheckFails, IInv, TypeOK, InstallStates, Busy
  <2>2. TypeOK'
    BY <1>4, <2>1, SaveType, ReturnType DEF CheckFails, IInv, TypeOK, cache, world
  <2>3. QED
    BY <2>1, <2>2, SaveType DEF IInv
<1>5. ASSUME NEW p \in Procs, CheckDone(p) PROVE IInv'
  <2>1. installState' \in InstallStates /\ report' \in Reports /\ Save
    BY <1>5, UpdateAssumption DEF CheckDone, IInv, TypeOK, InstallStates, Busy, Reports, Versions
  <2>2. TypeOK'
    BY <1>5, <2>1, SaveType, ReturnType DEF CheckDone, IInv, TypeOK, cache, world
  <2>3. QED
    BY <2>1, <2>2, SaveType DEF IInv
<1>6. ASSUME NEW p \in Procs, StreamsStopped(p) PROVE IInv'
  <2>1. TypeOK'
    BY <1>6, ReturnType DEF StreamsStopped, GoTo, IInv, TypeOK, InstallStates, Pcs, cache, world
  <2>2. RecordInv'
    BY <1>6 DEF StreamsStopped, IInv, RecordInv, FileAgrees, Busy
  <2>3. QED
    BY <2>1, <2>2 DEF IInv
<1>7. ASSUME NEW p \in Procs, StreamsNotStopped(p) PROVE IInv'
  <2>1. TypeOK'
    BY <1>7, ReturnType DEF StreamsNotStopped, IInv, TypeOK, cache, world
  <2>2. RecordInv'
    BY <1>7 DEF StreamsNotStopped, IInv, RecordInv, FileAgrees
  <2>3. QED
    BY <2>1, <2>2 DEF IInv
<1>8. ASSUME NEW p \in Procs, UpToDate(p) PROVE IInv'
  <2>1. installState' \in InstallStates /\ report' \in Reports /\ Save
    BY <1>8, UpdateAssumption DEF UpToDate, IInv, TypeOK, InstallStates, Busy, Reports, Versions
  <2>2. TypeOK'
    BY <1>8, <2>1, SaveType, ReturnType DEF UpToDate, IInv, TypeOK, cache, world
  <2>3. QED
    BY <2>1, <2>2, SaveType DEF IInv
<1>9. ASSUME NEW p \in Procs, UpdateFound(p) PROVE IInv'
  <2>1. installState' \in InstallStates /\ report' \in Reports /\ Save
    BY <1>9, UpdateAssumption DEF UpdateFound, IInv, TypeOK, InstallStates, Busy, Reports, Versions
  <2>2. TypeOK'
    BY <1>9, <2>1, SaveType DEF UpdateFound, IInv, TypeOK, GoTo, Pcs, Versions, cache, world
  <2>3. QED
    BY <2>1, <2>2, SaveType DEF IInv
<1>10. ASSUME NEW p \in Procs, DebOpened(p) PROVE IInv'
  <2>1. TypeOK'
    BY <1>10 DEF DebOpened, IInv, TypeOK, GoTo, Pcs, world
  <2>2. RecordInv'
    BY <1>10 DEF DebOpened, IInv, RecordInv, FileAgrees
  <2>3. QED
    BY <2>1, <2>2 DEF IInv
<1>11. ASSUME NEW p \in Procs, DebDone(p) PROVE IInv'
  <2>1. TypeOK'
    BY <1>11 DEF DebDone, IInv, TypeOK, GoTo, Pcs, world
  <2>2. RecordInv'
    BY <1>11 DEF DebDone, IInv, RecordInv, FileAgrees
  <2>3. QED
    BY <2>1, <2>2 DEF IInv
<1>12. ASSUME NEW p \in Procs, SumsOpened(p) PROVE IInv'
  <2>1. TypeOK'
    BY <1>12, UpdateAssumption DEF SumsOpened, IInv, TypeOK, GoTo, Pcs, world
  <2>2. RecordInv'
    BY <1>12 DEF SumsOpened, IInv, RecordInv, FileAgrees
  <2>3. QED
    BY <2>1, <2>2 DEF IInv
<1>13. ASSUME NEW p \in Procs, DownloadFails(p) PROVE IInv'
  <2>1. TypeOK'
    BY <1>13, ReturnType DEF DownloadFails, IInv, TypeOK, cache, world
  <2>2. RecordInv'
    BY <1>13 DEF DownloadFails, IInv, RecordInv, FileAgrees
  <2>3. QED
    BY <2>1, <2>2 DEF IInv
<1>14. ASSUME NEW p \in Procs, Verified(p) PROVE IInv'
  <2>1. installState' \in InstallStates /\ report' \in Reports /\ Save
    BY <1>14 DEF Verified, IInv, TypeOK, InstallStates, Busy
  <2>2. TypeOK'
    BY <1>14, <2>1, SaveType DEF Verified, IInv, TypeOK, GoTo, Pcs, world
  <2>3. QED
    BY <2>1, <2>2, SaveType DEF IInv
<1>15. ASSUME NEW p \in Procs, NotVerified(p) PROVE IInv'
  <2>1. installState' \in InstallStates /\ report' \in Reports /\ Save
    BY <1>15 DEF NotVerified, IInv, TypeOK, InstallStates, Busy
  <2>2. TypeOK'
    BY <1>15, <2>1, SaveType, ReturnType DEF NotVerified, IInv, TypeOK, world
  <2>3. QED
    BY <2>1, <2>2, SaveType DEF IInv
<1>16. ASSUME NEW p \in Procs, InstallDone(p) PROVE IInv'
  <2>1. installState' \in InstallStates /\ report' \in Reports /\ Save
    BY <1>16 DEF InstallDone, IInv, TypeOK, InstallStates
  <2>2. package' \in Versions
    BY <1>16, UpdateAssumption DEF InstallDone, AptCanInstall, IInv, TypeOK, Versions
  <2>3. TypeOK'
    BY <1>16, <2>1, <2>2, SaveType, ReturnType DEF InstallDone, IInv, TypeOK, cache
  <2>4. QED
    BY <2>1, <2>3, SaveType DEF IInv
<1>17. ASSUME NEW p \in Procs, InstallFails(p) PROVE IInv'
  <2>1. TypeOK'
    BY <1>17, ReturnType DEF InstallFails, IInv, TypeOK, cache, world
  <2>2. RecordInv'
    BY <1>17 DEF InstallFails, IInv, RecordInv, FileAgrees
  <2>3. QED
    BY <2>1, <2>2 DEF IInv
<1>18. ASSUME AutoWait PROVE IInv'
  <2>1. TypeOK'
    BY <1>18 DEF AutoWait, IInv, TypeOK, GoTo, Pcs, cache, world
  <2>2. RecordInv'
    BY <1>18 DEF AutoWait, IInv, RecordInv, FileAgrees
  <2>3. QED
    BY <2>1, <2>2 DEF IInv
<1>19. ASSUME AutoRefused PROVE IInv'
  <2>1. TypeOK'
    BY <1>19 DEF AutoRefused, IInv, TypeOK, GoTo, Pcs, cache, world
  <2>2. RecordInv'
    BY <1>19 DEF AutoRefused, IInv, RecordInv, FileAgrees
  <2>3. QED
    BY <2>1, <2>2 DEF IInv
<1>20. ASSUME AutoDies PROVE IInv'
  <2>1. TypeOK'
    BY <1>20 DEF AutoDies, IInv, TypeOK, GoTo, Pcs, cache, world
  <2>2. RecordInv'
    BY <1>20 DEF AutoDies, IInv, RecordInv, FileAgrees
  <2>3. QED
    BY <2>1, <2>2 DEF IInv
<1>21. ASSUME SetAutoCheck PROVE IInv'
  <2>1. TypeOK'
    BY <1>21 DEF SetAutoCheck, IInv, TypeOK, calls, cache
  <2>2. RecordInv'
    BY <1>21 DEF SetAutoCheck, IInv, RecordInv, FileAgrees
  <2>3. QED
    BY <2>1, <2>2 DEF IInv
<1>22. ASSUME Reboot PROVE IInv'
  <2>1. package' \in Versions
    BY <1>22, UpdateAssumption DEF Reboot, AptCanInstall, IInv, TypeOK, Versions, Procs
  <2>2. PICK v \in Versions : Boot(v)
    BY <1>22, <2>1 DEF Reboot, IInv, TypeOK
  <2>3. installState' \in InstallStates /\ report' \in Reports
    <3>1. Fresh(v) \in Reports
      BY UpdateAssumption DEF Fresh, Reports, Versions
    <3>2. saved # NoFile => saved.state \in InstallStates /\ saved.report \in Reports
      BY DEF IInv, TypeOK, RecordInv
    <3>3. QED
      BY <2>2, <3>1, <3>2 DEF Boot, InstallStates
  <2>4. TypeOK'
    <3>1. /\ pc' \in [Procs -> Pcs] /\ target' \in [Procs -> 0..MaxVersion]
          /\ installing' \in [Procs -> BOOLEAN] /\ allow' \in [Procs -> BOOLEAN]
      BY <2>2, UpdateAssumption DEF Boot, NoCalls, Pcs
    <3>2. QED
      BY <2>1, <2>2, <2>3, <3>1 DEF Boot, IInv, TypeOK, cache
  <2>5. RecordInv'
    BY <2>2 DEF Boot, IInv, RecordInv, FileAgrees, NoFile, Busy
  <2>6. QED
    BY <2>4, <2>5 DEF IInv
<1>23. ASSUME Publish PROVE IInv'
  <2>1. release' \in Versions
    BY <1>23, UpdateAssumption DEF Publish, IInv, TypeOK, Versions
  <2>2. TypeOK'
    BY <1>23, <2>1 DEF Publish, IInv, TypeOK, calls, cache
  <2>3. RecordInv'
    BY <1>23 DEF Publish, IInv, RecordInv, FileAgrees
  <2>4. QED
    BY <2>2, <2>3 DEF IInv
<1>24. ASSUME StreamsChange PROVE IInv'
  <2>1. TypeOK'
    BY <1>24 DEF StreamsChange, IInv, TypeOK, calls, cache
  <2>2. RecordInv'
    BY <1>24 DEF StreamsChange, IInv, RecordInv, FileAgrees
  <2>3. QED
    BY <2>1, <2>2 DEF IInv
<1>25. CASE UNCHANGED vars
  BY <1>25 DEF vars, calls, cache, IInv, TypeOK, RecordInv, FileAgrees
<1>26. QED
  BY <1>1, <1>2, <1>3, <1>4, <1>5, <1>6, <1>7, <1>8, <1>9, <1>10, <1>11,
     <1>12, <1>13, <1>14, <1>15, <1>16, <1>17, <1>18, <1>19, <1>20, <1>21,
     <1>22, <1>23, <1>24, <1>25
     DEF Next, Begin, Continue, AutoStep, Restart, Crash, Procs
-----------------------------------------------------------------------------
(* The package.                                                            *)

\* With one installer nobody else touches a file between its verification
\* and the end of apt.
LEMMA PackageStep ==
  ASSUME \A p, q \in Installers : p = q
  PROVE  IInv /\ PackageInv /\ [Next]_vars => PackageInv'
  <1> SUFFICES ASSUME IInv, PackageInv, [Next]_vars PROVE PackageInv'
    OBVIOUS
<1>1. ASSUME NEW p \in Procs, CheckBegin(p) PROVE PackageInv'
  BY <1>1, UpdateAssumption DEF CheckBegin, GoTo, cache, Procs, PackageInv,
     InstallerInv, InstallsWhatWasVerified, Working, IInv, TypeOK
<1>2. ASSUME NEW p \in Procs, InstallRefused(p) PROVE PackageInv'
  BY <1>2 DEF InstallRefused, calls, cache, Procs, PackageInv, InstallerInv,
     InstallsWhatWasVerified, Working, IInv, TypeOK
<1>3. ASSUME NEW p \in Procs, InstallBegin(p) PROVE PackageInv'
  BY <1>3 DEF InstallBegin, GoTo, cache, Procs, PackageInv, InstallerInv,
     InstallsWhatWasVerified, Working, IInv, TypeOK
<1>4. ASSUME NEW p \in Procs, CheckFails(p) PROVE PackageInv'
  BY <1>4 DEF CheckFails, Return, GoTo, cache, Procs, PackageInv, InstallerInv,
     InstallsWhatWasVerified, Working, IInv, TypeOK
<1>5. ASSUME NEW p \in Procs, CheckDone(p) PROVE PackageInv'
  BY <1>5 DEF CheckDone, Return, GoTo, cache, Procs, PackageInv, InstallerInv,
     InstallsWhatWasVerified, Working, IInv, TypeOK
<1>6. ASSUME NEW p \in Procs, StreamsStopped(p) PROVE PackageInv'
  BY <1>6 DEF StreamsStopped, Return, GoTo, cache, Procs, PackageInv,
     InstallerInv, InstallsWhatWasVerified, Working, IInv, TypeOK
<1>7. ASSUME NEW p \in Procs, StreamsNotStopped(p) PROVE PackageInv'
  BY <1>7 DEF StreamsNotStopped, Return, GoTo, cache, Procs, PackageInv,
     InstallerInv, InstallsWhatWasVerified, Working, IInv, TypeOK
<1>8. ASSUME NEW p \in Procs, UpToDate(p) PROVE PackageInv'
  BY <1>8 DEF UpToDate, Return, GoTo, cache, Procs, PackageInv, InstallerInv,
     InstallsWhatWasVerified, Working, IInv, TypeOK
<1>9. ASSUME NEW p \in Procs, UpdateFound(p) PROVE PackageInv'
  BY <1>9 DEF UpdateFound, GoTo, cache, Procs, PackageInv, InstallerInv,
     InstallsWhatWasVerified, Working, IInv, TypeOK
<1>10. ASSUME NEW p \in Procs, DebOpened(p) PROVE PackageInv'
  <2>1. \A q \in Callers : pc[q] # "apt" /\ pc'[q] # "apt"
    BY <1>10 DEF DebOpened, GoTo, Procs, PackageInv, InstallerInv, InstallsWhatWasVerified, Working, IInv, TypeOK
  <2>2. QED
    BY <1>10, <2>1 DEF DebOpened, GoTo, PackageInv, InstallerInv, InstallsWhatWasVerified, Working, IInv, TypeOK
<1>11. ASSUME NEW p \in Procs, DebDone(p) PROVE PackageInv'
  <2>1. \A q \in Callers : pc[q] # "apt" /\ pc'[q] # "apt"
    BY <1>11 DEF DebDone, GoTo, Procs, PackageInv, InstallerInv, InstallsWhatWasVerified, Working, IInv, TypeOK
  <2>2. QED
    BY <1>11, <2>1 DEF DebDone, GoTo, PackageInv, InstallerInv, InstallsWhatWasVerified, Working, IInv, TypeOK
<1>12. ASSUME NEW p \in Procs, SumsOpened(p) PROVE PackageInv'
  BY <1>12 DEF SumsOpened, GoTo, PackageInv, InstallerInv,
     InstallsWhatWasVerified, Working, IInv, TypeOK, Procs
<1>13. ASSUME NEW p \in Procs, DownloadFails(p) PROVE PackageInv'
  BY <1>13 DEF DownloadFails, Return, GoTo, cache, Procs, PackageInv,
     InstallerInv, InstallsWhatWasVerified, Working, IInv, TypeOK
<1>14. ASSUME NEW p \in Procs, Verified(p) PROVE PackageInv'
  BY <1>14 DEF Verified, GoTo, Procs, PackageInv, InstallerInv,
     InstallsWhatWasVerified, Working, IInv, TypeOK
<1>15. ASSUME NEW p \in Procs, NotVerified(p) PROVE PackageInv'
  BY <1>15 DEF NotVerified, Return, GoTo, Procs, PackageInv, InstallerInv,
     InstallsWhatWasVerified, Working, IInv, TypeOK
<1>16. ASSUME NEW p \in Procs, InstallDone(p) PROVE PackageInv'
  BY <1>16 DEF InstallDone, Return, GoTo, cache, Procs, PackageInv, InstallerInv,
     InstallsWhatWasVerified, Working, IInv, TypeOK
<1>17. ASSUME NEW p \in Procs, InstallFails(p) PROVE PackageInv'
  BY <1>17 DEF InstallFails, Return, GoTo, cache, Procs, PackageInv, InstallerInv,
     InstallsWhatWasVerified, Working, IInv, TypeOK
<1>18. ASSUME AutoWait PROVE PackageInv'
  BY <1>18 DEF AutoWait, GoTo, PackageInv, InstallerInv, InstallsWhatWasVerified,
     Working, IInv, TypeOK, cache, Procs
<1>19. ASSUME AutoRefused PROVE PackageInv'
  BY <1>19 DEF AutoRefused, GoTo, PackageInv, InstallerInv,
     InstallsWhatWasVerified, Working, IInv, TypeOK, cache, Procs
<1>20. ASSUME AutoDies PROVE PackageInv'
  BY <1>20 DEF AutoDies, GoTo, PackageInv, InstallerInv, InstallsWhatWasVerified,
     Working, IInv, TypeOK, cache, Procs
<1>21. ASSUME SetAutoCheck PROVE PackageInv'
  BY <1>21 DEF SetAutoCheck, calls, cache, PackageInv, InstallerInv,
     InstallsWhatWasVerified, Working, IInv, TypeOK
<1>22. ASSUME Reboot PROVE PackageInv'
  BY <1>22 DEF Reboot, Boot, NoCalls, Procs, PackageInv, InstallerInv,
     InstallsWhatWasVerified, Working, IInv, TypeOK
<1>23. ASSUME Publish PROVE PackageInv'
  BY <1>23 DEF Publish, calls, cache, PackageInv, InstallerInv,
     InstallsWhatWasVerified, Working, IInv, TypeOK
<1>24. ASSUME StreamsChange PROVE PackageInv'
  BY <1>24 DEF StreamsChange, calls, cache, PackageInv, InstallerInv,
     InstallsWhatWasVerified, Working, IInv, TypeOK
<1>25. CASE UNCHANGED vars
  BY <1>25 DEF vars, calls, cache, PackageInv, InstallerInv,
     InstallsWhatWasVerified, Working, IInv, TypeOK
<1>26. QED
  BY <1>1, <1>2, <1>3, <1>4, <1>5, <1>6, <1>7, <1>8, <1>9, <1>10, <1>11,
     <1>12, <1>13, <1>14, <1>15, <1>16, <1>17, <1>18, <1>19, <1>20, <1>21,
     <1>22, <1>23, <1>24, <1>25
     DEF Next, Begin, Continue, AutoStep, Restart, Crash, Procs
-----------------------------------------------------------------------------
(* Theorems.                                                               *)

\* The record and the file are as the invariant says in every reachable state.
LEMMA Invariant == Spec => []IInv
  BY InvInit, InvStep, PTL DEF Spec

\* Every variable keeps its type.
THEOREM TypeCorrect == Spec => []TypeOK
  <1>1. IInv => TypeOK
    BY DEF IInv
  <1>2. QED
    BY <1>1, Invariant, PTL

\* The record in memory and the one on disk agree on whether an install is in
\* progress, so that a daemon that dies at any point accepts what it would
\* have accepted.
THEOREM FileAgreesAlways == Spec => []FileAgrees
  <1>1. IInv => FileAgrees
    BY DEF IInv, RecordInv
  <1>2. QED
    BY <1>1, Invariant, PTL

\* With one installer what apt installs is what was verified, however calls,
\* restarts and releases interleave.
THEOREM InstallsVerified ==
  ASSUME \A p, q \in Installers : p = q
  PROVE  Spec => []InstallsWhatWasVerified
  <1>1. Init => PackageInv
    BY DEF Init, PackageInv, InstallerInv, InstallsWhatWasVerified, Working, Procs
  <1>2. IInv /\ PackageInv /\ [Next]_vars => PackageInv'
    BY PackageStep
  <1>3. PackageInv => InstallsWhatWasVerified
    BY DEF PackageInv
  <1>4. QED
    BY <1>1, <1>2, <1>3, Invariant, PTL DEF Spec
-----------------------------------------------------------------------------
(* The update service.                                                     *)

\* What a call at work installs is newer than the daemon it runs in.
TargetInv ==
  \A p \in Procs : Working(p) => version < target[p] /\ target[p] <= release

\* What the update service needs besides the types.
VersionInv == Service!Ordered /\ TargetInv

\* A step publishes, boots a daemon, installs, or leaves all versions alone.
LEMMA StepKinds ==
  ASSUME [Next]_vars
  PROVE  \/ Publish \/ Restart \/ Crash \/ \E p \in Procs : InstallDone(p)
         \/ UNCHANGED <<package, version, release, restart>>
<1> DEFINE Same == UNCHANGED <<package, version, release, restart>>
<1>1. ASSUME NEW p, Begin(p) PROVE Same
  BY <1>1 DEF Begin, CheckBegin, InstallRefused, InstallBegin, world
<1>2. ASSUME NEW p, Continue(p), ~InstallDone(p) PROVE Same
  BY <1>2 DEF Continue, CheckFails, CheckDone, StreamsStopped, StreamsNotStopped,
     UpToDate, UpdateFound, DebOpened, DebDone, SumsOpened, DownloadFails,
     Verified, NotVerified, InstallFails, world
<1>3. CASE AutoStep
  BY <1>1, <1>3 DEF AutoStep, AutoWait, AutoRefused, AutoDies, Begin, world
<1>4. CASE SetAutoCheck \/ StreamsChange \/ UNCHANGED vars
  BY <1>4 DEF SetAutoCheck, StreamsChange, vars
<1>5. QED
  BY <1>1, <1>2, <1>3, <1>4 DEF Next

\* A call at work was at work before the step, on the same version, or has
\* just found a newer release.
LEMMA WorkingStep ==
  ASSUME TypeOK, [Next]_vars, NEW q \in Procs, Working(q)'
  PROVE  (Working(q) /\ target'[q] = target[q]) \/ UpdateFound(q)
<1>1. ASSUME NEW p \in Procs, Return(p) PROVE Working(q) /\ target'[q] = target[q]
  BY <1>1 DEF Return, GoTo, TypeOK, Working
<1>2. ASSUME NEW p \in Procs, NEW at \in {"waiting", "dead", "stopping", "fetch", "idle"},
             GoTo(p, at), UNCHANGED target
      PROVE  Working(q) /\ target'[q] = target[q]
  BY <1>2 DEF GoTo, TypeOK, Working
<1>3. ASSUME NEW p \in Procs, NEW at \in Pcs, Working(p), GoTo(p, at), UNCHANGED target
      PROVE  Working(q) /\ target'[q] = target[q]
  BY <1>3 DEF GoTo, TypeOK, Working
<1>4. ASSUME UNCHANGED calls PROVE Working(q) /\ target'[q] = target[q]
  BY <1>4 DEF calls, Working
<1>5. ASSUME NEW p \in Procs, Begin(p) PROVE Working(q) /\ target'[q] = target[q]
  BY <1>2, <1>4, <1>5 DEF Begin, CheckBegin, InstallRefused, InstallBegin
<1>6. ASSUME NEW p \in Procs, Continue(p), ~UpdateFound(p)
      PROVE  Working(q) /\ target'[q] = target[q]
  <2>1. CASE DebOpened(p) \/ DebDone(p) \/ SumsOpened(p) \/ Verified(p)
    BY <1>3, <2>1 DEF DebOpened, DebDone, SumsOpened, Verified, Working, Pcs
  <2>2. CASE StreamsStopped(p)
    BY <1>1, <1>2, <2>2 DEF StreamsStopped
  <2>3. CASE CheckFails(p) \/ CheckDone(p) \/ StreamsNotStopped(p) \/ UpToDate(p)
    BY <1>1, <2>3 DEF CheckFails, CheckDone, StreamsNotStopped, UpToDate
  <2>4. CASE DownloadFails(p) \/ NotVerified(p) \/ InstallDone(p) \/ InstallFails(p)
    BY <1>1, <2>4 DEF DownloadFails, NotVerified, InstallDone, InstallFails
  <2>5. QED
    BY <1>6, <2>1, <2>2, <2>3, <2>4 DEF Continue
<1>7. ASSUME NEW p \in Procs, UpdateFound(p)
      PROVE  (Working(q) /\ target'[q] = target[q]) \/ UpdateFound(q)
  BY <1>7 DEF UpdateFound, GoTo, TypeOK, Working
<1>8. CASE AutoStep
  <2>1. AutoTask \in Procs
    BY DEF Procs
  <2>2. QED
    BY <1>2, <1>5, <1>8, <2>1 DEF AutoStep, AutoWait, AutoRefused, AutoDies, Begin
<1>9. CASE Restart \/ Crash
  BY <1>9 DEF Restart, Crash, Reboot, Boot, NoCalls, Working
<1>10. CASE SetAutoCheck \/ Publish \/ StreamsChange \/ UNCHANGED vars
  BY <1>4, <1>10 DEF SetAutoCheck, Publish, StreamsChange, vars
<1>11. QED
  BY <1>5, <1>6, <1>7, <1>8, <1>9, <1>10 DEF Next, Procs

\* The versions and the targets stay in order.
LEMMA VersionStep == TypeOK /\ VersionInv /\ [Next]_vars => VersionInv'
  <1> SUFFICES ASSUME TypeOK, VersionInv, [Next]_vars PROVE VersionInv'
    OBVIOUS
  <1> USE DEF Service!Ordered
  <1>1. /\ version \in Nat /\ package \in Nat /\ release \in Nat
        /\ target \in [Procs -> Nat]
    BY UpdateAssumption DEF TypeOK, Versions
  <1>2. ASSUME NEW p \in Procs, Working(p)', ~Reboot
        PROVE  version' < target'[p] /\ target'[p] <= release'
    <2>1. UNCHANGED version /\ release' \in Nat /\ release' >= release
      BY <1>1, <1>2, StepKinds DEF Publish, InstallDone, Restart, Crash
    <2>2. CASE Working(p) /\ target'[p] = target[p]
      BY <1>1, <2>1, <2>2 DEF VersionInv, TargetInv
    <2>3. CASE UpdateFound(p)
      BY <1>1, <2>1, <2>3 DEF UpdateFound
    <2>4. QED
      BY <1>2, <2>2, <2>3, WorkingStep
  <1>3. ASSUME Reboot PROVE TargetInv'
    BY <1>3 DEF Reboot, Boot, NoCalls, TargetInv, Working
  <1>4. ASSUME NEW p \in Procs, AptCanInstall(p)
        PROVE  package <= target[p] /\ version < target[p] /\ target[p] <= release
    BY <1>1, <1>4 DEF AptCanInstall, VersionInv, TargetInv, Working
  <1>5. version' <= package' /\ package' <= release'
    <2>1. CASE Publish
      BY <1>1, <2>1 DEF Publish, VersionInv
    <2>2. CASE Reboot
      BY <1>1, <1>4, <2>2 DEF Reboot, Boot, VersionInv, Procs
    <2>3. ASSUME NEW p \in Procs, InstallDone(p) PROVE version' <= package' /\ package' <= release'
      BY <1>1, <1>4, <2>3 DEF InstallDone, VersionInv
    <2>4. CASE UNCHANGED <<package, version, release, restart>>
      BY <2>4 DEF VersionInv
    <2>5. QED
      BY <2>1, <2>2, <2>3, <2>4, StepKinds DEF Restart, Crash
  <1>6. QED
    BY <1>2, <1>3, <1>5 DEF VersionInv, TargetInv

\* Every step of the manager is one of the service or leaves it alone.
LEMMA ServiceStep ==
  TypeOK /\ VersionInv /\ [Next]_vars => [Service!Next]_(Service!vars)
  <1> SUFFICES ASSUME TypeOK, VersionInv, [Next]_vars
               PROVE  Service!Next \/ UNCHANGED Service!vars
    OBVIOUS
  <1>1. /\ version \in Nat /\ package \in Nat /\ release \in Nat
        /\ target \in [Procs -> Nat]
    BY UpdateAssumption DEF TypeOK, Versions
  <1>2. ASSUME NEW p \in Procs, AptCanInstall(p)
        PROVE  target[p] >= package /\ target[p] \in version + 1 .. release
    BY <1>1, <1>2 DEF AptCanInstall, VersionInv, TargetInv, Working
  <1>3. CASE Publish
    BY <1>1, <1>3 DEF Publish, Service!Publish, Service!Next
  <1>4. CASE Reboot
    BY <1>1, <1>2, <1>4 DEF Reboot, Boot, Procs, Service!Reboot, Service!Next
  <1>5. ASSUME NEW p \in Procs, InstallDone(p) PROVE Service!Next
    BY <1>1, <1>2, <1>5 DEF InstallDone, Service!Install, Service!Next
  <1>6. CASE UNCHANGED <<package, version, release, restart>>
    BY <1>6 DEF Service!vars
  <1>7. QED
    BY <1>3, <1>4, <1>5, <1>6, StepKinds DEF Restart, Crash

\* The versions and the targets are in order in every reachable state.
LEMMA VersionsAlways == Spec => []VersionInv
  <1>1. Init => VersionInv
    BY DEF Init, VersionInv, Service!Ordered, TargetInv, Working
  <1>2. QED
    BY <1>1, TypeCorrect, VersionStep, PTL DEF Spec

\* The manager implements the update service, for any number of installing
\* clients, with crashes and an apt that outlives its daemon.
THEOREM Refinement == Spec => ImplementsUpdateService
  <1>1. Init => Service!Init
    BY DEF Init, Service!Init
  <1>2. QED
    BY <1>1, TypeCorrect, VersionsAlways, ServiceStep, PTL
       DEF Spec, Service!Spec, ImplementsUpdateService

\* With naturals for its versions the service keeps its promises.
LEMMA ServiceInvariant ==
  Service!Spec => [](Service!TypeOK /\ Service!Ordered /\ Service!DueForNewer)
  <1> DEFINE Inv == Service!TypeOK /\ Service!Ordered /\ Service!DueForNewer
  <1> USE DEF Service!TypeOK, Service!Ordered, Service!DueForNewer
  <1>1. Service!Init => Inv
    BY DEF Service!Init
  <1>2. Inv /\ [Service!Next]_(Service!vars) => Inv'
    <2> SUFFICES ASSUME Inv, [Service!Next]_(Service!vars) PROVE Inv'
      OBVIOUS
    <2>1. CASE Service!Publish
      BY <2>1 DEF Service!Publish
    <2>2. CASE Service!Install
      BY <2>2 DEF Service!Install
    <2>3. CASE Service!Reboot
      BY <2>3 DEF Service!Reboot
    <2>4. CASE UNCHANGED Service!vars
      BY <2>4 DEF Service!vars
    <2>5. QED
      BY <2>1, <2>2, <2>3, <2>4 DEF Service!Next
  <1> HIDE DEF Inv
  <1>3. QED
    BY <1>1, <1>2, PTL DEF Service!Spec, Inv

\* A restart is only ever scheduled into a newer version than the one that
\* runs: no stream is interrupted for nothing, whoever checks, installs or
\* crashes meanwhile.
THEOREM RestartIsForNewer == Spec => [](restart # "no" => version < package)
  <1>1. Service!DueForNewer => (restart # "no" => version < package)
    BY DEF Service!DueForNewer
  <1>2. QED
    BY <1>1, Refinement, ServiceInvariant, PTL DEF ImplementsUpdateService

\* Neither the package nor the daemon ever goes back to an older version.
THEOREM NeverDowngrades == Spec => [][package' >= package /\ version' >= version]_vars
  <1> DEFINE Up == package' >= package /\ version' >= version
  <1> USE DEF Service!TypeOK, Service!Ordered
  <1>1. ASSUME Service!TypeOK, Service!Ordered, Service!Publish PROVE Up
    BY <1>1 DEF Service!Publish
  <1>2. ASSUME Service!TypeOK, Service!Ordered, Service!Install PROVE Up
    BY <1>2 DEF Service!Install
  <1>3. ASSUME Service!TypeOK, Service!Ordered, Service!Reboot PROVE Up
    BY <1>3 DEF Service!Reboot
  <1>4. ASSUME Service!TypeOK, UNCHANGED Service!vars PROVE Up
    BY <1>4 DEF Service!vars
  <1>5. Service!TypeOK /\ Service!Ordered /\ [Service!Next]_(Service!vars)
        => package' >= package /\ version' >= version
    BY <1>1, <1>2, <1>3, <1>4 DEF Service!Next
  <1>6. QED
    BY <1>5, Refinement, ServiceInvariant, PTL DEF ImplementsUpdateService, Service!Spec
-----------------------------------------------------------------------------
(* What becomes of a call and of what it installed.                        *)

\* The steps a call has left at most, by what it waits for.
StepsLeft(at) ==
  CASE at = "stopping" -> 7 [] at = "fetch" -> 6
    [] at = "deb" -> 5      [] at = "debBody" -> 4
    [] at = "sums" -> 3     [] at = "sumsBody" -> 2
    [] at = "apt" -> 1      [] OTHER -> 0

\* A step of a call brings its answer nearer, and nobody else sends it back.
Nearer(p) == StepsLeft(pc'[p]) < StepsLeft(pc[p])
Advances(p) ==
  /\ Continue(p) => Nearer(p)
  /\ pc'[p] = pc[p] \/ StepsLeft(pc[p]) = 0 \/ Nearer(p)

\* Whatever other calls, the automatic check and restarts do, a call is
\* answered after at most seven of its own steps.
THEOREM CallsAdvance == Spec => [][\A p \in Procs : Advances(p)]_vars
  <1> DEFINE Kept(p) == pc'[p] = pc[p] \/ StepsLeft(pc[p]) = 0 \/ Nearer(p)
  <1>1. ASSUME TypeOK, NEW p \in Procs, Continue(p)
        PROVE  Nearer(p) /\ \A q \in Procs : Kept(q)
    <2>1. ASSUME NEW at \in Pcs, GoTo(p, at), StepsLeft(at) < StepsLeft(pc[p])
          PROVE  Nearer(p) /\ \A q \in Procs : Kept(q)
      BY <1>1, <2>1 DEF GoTo, TypeOK, Nearer
    <2>2. \E at \in Pcs : GoTo(p, at) /\ StepsLeft(at) < StepsLeft(pc[p])
      BY <1>1 DEF StepsLeft, Pcs, Return, Continue, CheckFails, CheckDone,
         StreamsStopped, StreamsNotStopped, UpToDate, UpdateFound, DebOpened,
         DebDone, SumsOpened, DownloadFails, Verified, NotVerified,
         AptCanInstall, InstallDone, InstallFails
    <2>3. QED
      BY <2>1, <2>2
  <1>2. ASSUME TypeOK, NEW p \in Procs, Begin(p) \/ AutoStep
        PROVE  \A q \in Procs : Kept(q)
    <2>1. ASSUME NEW q \in Procs, NEW at, GoTo(q, at), StepsLeft(pc[q]) = 0
          PROVE  \A o \in Procs : Kept(o)
      BY <2>1, <1>2 DEF GoTo, TypeOK
    <2>2. UNCHANGED pc \/ \E q \in Procs, at \in Pcs : GoTo(q, at) /\ StepsLeft(pc[q]) = 0
      BY <1>2 DEF Begin, AutoStep, CheckBegin, InstallRefused, InstallBegin,
         AutoWait, AutoRefused, AutoDies, StepsLeft, Procs, calls, Pcs
    <2>3. QED
      BY <2>1, <2>2
  <1>3. ASSUME Reboot PROVE \A q \in Procs : Kept(q)
    BY <1>3 DEF Reboot, Boot, NoCalls, StepsLeft, Nearer
  <1>4. ASSUME SetAutoCheck \/ Publish \/ StreamsChange \/ UNCHANGED vars
        PROVE  \A q \in Procs : Kept(q)
    BY <1>4 DEF SetAutoCheck, Publish, StreamsChange, vars, calls
  <1>5. TypeOK /\ [Next]_vars => \A p \in Procs : Advances(p)
    BY <1>1, <1>2, <1>3, <1>4 DEF Next, Restart, Crash, Procs, Advances
  <1>6. QED
    BY <1>5, TypeCorrect, PTL DEF Spec

\* A restart is dropped although its package is not run by the next daemon.
Wasted == restart # "no" /\ restart' = "no" /\ version' < package

\* A restart that is scheduled, whether it takes place or a crash comes before
\* it, is not over before a daemon runs the package it was scheduled for, or a
\* newer one.  With the timer that fires it this is UpdateApplied.
THEOREM DueUntilUsed == Spec => [][~Wasted]_vars
  <1>1. ASSUME TypeOK, VersionInv, [Next]_vars, Wasted
        PROVE  FALSE
    <2>1. /\ package \in Nat /\ release \in Nat /\ version \in Nat
          /\ target \in [Procs -> Nat]
      BY <1>1, UpdateAssumption DEF TypeOK, Versions
    <2>2. Reboot
      BY <1>1, StepKinds DEF Wasted, Publish, InstallDone, Restart, Crash
    <2>3. package' \in Nat /\ package' >= package
      BY <2>1, <2>2 DEF Reboot, AptCanInstall, Procs
    <2>4. version' \in {package, package'}
      BY <2>2 DEF Reboot, Boot
    <2>5. QED
      BY <1>1, <2>1, <2>3, <2>4 DEF Wasted
  <1>2. TypeOK /\ VersionInv /\ [Next]_vars => [~Wasted]_vars
    BY <1>1
  <1>3. QED
    BY <1>2, TypeCorrect, VersionsAlways, PTL DEF Spec

\* An install answers that all is up to date only to a client whose daemon
\* and package are the latest release, with crashes, restarts that could not
\* be scheduled and any number of installing clients.
THEOREM UpToDateIsTrueAlways == Spec => UpToDateIsTrue
  <1>1. ASSUME TypeOK, VersionInv, NEW p \in Callers, UpToDate(p)
        PROVE  version = package /\ package = release
    BY <1>1, UpdateAssumption DEF UpToDate, VersionInv, Service!Ordered, TypeOK, Versions
  <1>2. TypeOK /\ VersionInv
        => [\A p \in Callers : UpToDate(p) => version = package /\ package = release]_vars
    BY <1>1
  <1>3. QED
    BY <1>2, TypeCorrect, VersionsAlways, PTL DEF UpToDateIsTrue
=============================================================================
