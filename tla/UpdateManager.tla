--------------------------- MODULE UpdateManager ---------------------------
(***************************************************************************)
(* Self-update of the daemon: UpdateManager's check, install and automatic *)
(* check, the runtime record it persists in update-state.json, the         *)
(* download cache, the package on disk and the restart into it.            *)
(*                                                                         *)
(* The manager's lock is only held around updates of the record, which     *)
(* contain no await: a call is suspended, and others run, while it stops   *)
(* the streams, talks to the release API, downloads, or waits for apt.     *)
(* What the lock protects is therefore one action with what follows it up  *)
(* to the next of these waits.                                             *)
(*                                                                         *)
(* Not modelled: progress, last_error, the event log, asset names.         *)
(***************************************************************************)
EXTENDS Naturals

CONSTANTS
  Callers,      \* HTTP requests in progress at once
  Installers,   \* those of them that may ask for an install
  AutoTask,     \* the task of the automatic check
  MaxVersion,   \* bound: number of the last release ever published
  TimeoutIsBuiltin, \* Python >= 3.11: asyncio.TimeoutError is TimeoutError
  Crashes       \* the daemon may die and be restarted

ASSUME UpdateAssumption ==
  /\ Installers \subseteq Callers /\ AutoTask \notin Callers
  /\ MaxVersion \in Nat \ {0}
  /\ TimeoutIsBuiltin \in BOOLEAN /\ Crashes \in BOOLEAN

VARIABLES
  installState, \* _runtime["install_state"]
  report,       \* _runtime: current and latest version, update_available
  saved,        \* update-state.json, NoFile before it is first written
  autoCheck,    \* _config["auto_check"] is not "off"
  pc, installing, allow, target, \* the calls: see Calls below
  deb, sums,    \* the download cache
  package,      \* version of the installed package
  version,      \* __version__ of the running daemon
  release,      \* latest release published
  streams,      \* camera or microphone RUNNING
  restart       \* a restart is scheduled: "no", "yes", "allowed" to stop streams

calls == <<pc, installing, allow, target>>
cache == <<deb, sums>>
vars  == <<installState, report, saved, autoCheck, calls, cache,
           package, version, release, streams, restart>>

Procs    == Callers \cup {AutoTask}
Versions == 1..MaxVersion
NoFile   == [state |-> "none", report |-> [current |-> 0, latest |-> 0, available |-> FALSE]]

Busy == {"DOWNLOADING", "VERIFYING", "INSTALLING"}
InstallStates == {"IDLE", "CHECKING", "DONE", "FAILED"} \cup Busy

Fresh(v) == [current |-> v, latest |-> v, available |-> FALSE]

\* Calls: where each is suspended, whether it installs, its
\* allow_stop_streams and the version it installs.
NoCalls ==
  /\ pc' = [p \in Procs |-> "idle"]
  /\ installing' = [p \in Procs |-> FALSE]
  /\ allow' = [p \in Procs |-> FALSE]
  /\ target' = [p \in Procs |-> 0]

Init ==
  /\ installState = "IDLE" /\ report = Fresh(1) /\ saved = NoFile
  /\ autoCheck = TRUE
  /\ pc = [p \in Procs |-> "idle"]
  /\ installing = [p \in Procs |-> FALSE]
  /\ allow = [p \in Procs |-> FALSE] /\ target = [p \in Procs |-> 0]
  /\ deb = [v \in Versions |-> "none"] /\ sums = 0
  /\ package = 1 /\ version = 1 /\ release = 1
  /\ streams \in BOOLEAN /\ restart = "no"

\* _save_state() after the updates of the step.
Save == saved' = [state |-> installState', report |-> report']

GoTo(p, at) == pc' = [pc EXCEPT ![p] = at]

\* The call returns or raises.
Return(p) ==
  /\ GoTo(p, "idle")
  /\ installing' = [installing EXCEPT ![p] = FALSE]
  /\ allow' = [allow EXCEPT ![p] = FALSE]
  /\ target' = [target EXCEPT ![p] = 0]

world == <<autoCheck, package, version, release, restart>>

-----------------------------------------------------------------------------
(* check().  A check refused with a conflict changes nothing.              *)

\* Only a call that installs saves the CHECKING state (before its streams).
CheckBegin(p) ==
  /\ pc[p] = (IF p = AutoTask THEN "waiting" ELSE "idle")
  /\ installState \notin Busy
  /\ installState' = "CHECKING"
  /\ GoTo(p, "fetch")
  /\ UNCHANGED <<report, saved, installing, allow, target, cache, streams, world>>

\* Mutant: the exception of a failed automatic check ends the task.
CheckFails_Dies(p) ==
  /\ pc[p] = "fetch"
  /\ installState' = "FAILED" /\ UNCHANGED report /\ Save
  /\ IF p = AutoTask THEN GoTo(p, "dead") /\ UNCHANGED <<installing, allow, target>>
     ELSE Return(p)
  /\ UNCHANGED <<cache, streams, world>>

CheckFails(p) ==
  /\ pc[p] = "fetch"
  /\ installState' = "FAILED" /\ UNCHANGED report /\ Save
  /\ Return(p)
  /\ UNCHANGED <<cache, streams, world>>

CheckDone(p) ==
  /\ pc[p] = "fetch" /\ ~installing[p]
  /\ report' = [current |-> version, latest |-> release, available |-> release > version]
  /\ installState' = "IDLE" /\ Save
  /\ Return(p)
  /\ UNCHANGED <<cache, streams, world>>

-----------------------------------------------------------------------------
(* install().                                                              *)

InstallRefused(p) ==
  /\ pc[p] = "idle" /\ p \in Installers
  /\ installState \notin Busy
  /\ streams
  /\ installState' = "FAILED" /\ UNCHANGED report /\ Save
  /\ UNCHANGED <<calls, cache, streams, world>>

\* Streams that may be stopped are, and then the check begins; without
\* streams it begins at once.
InstallBegin(p) ==
  /\ pc[p] = "idle" /\ p \in Installers
  /\ installState \notin Busy
  /\ allow' \in {[allow EXCEPT ![p] = a] : a \in {TRUE} \cup (IF streams THEN {} ELSE {FALSE})}
  /\ installing' = [installing EXCEPT ![p] = TRUE]
  /\ installState' = "CHECKING" /\ UNCHANGED report /\ Save
  /\ GoTo(p, IF streams THEN "stopping" ELSE "fetch")
  /\ UNCHANGED <<target, cache, streams, world>>

\* video_manager.stop() or audio_manager.stop() returned; another call may
\* have begun an install meanwhile.
StreamsStopped(p) ==
  /\ pc[p] = "stopping"
  /\ streams' = FALSE
  /\ \/ /\ installState \notin Busy
        /\ installState' = "CHECKING"
        /\ GoTo(p, "fetch")
        /\ UNCHANGED <<installing, allow, target>>
     \/ /\ installState \in Busy
        /\ Return(p)
        /\ UNCHANGED installState
  /\ UNCHANGED <<report, saved, cache, world>>

\* Stopping them raised; install_state stays as it is.
StreamsNotStopped(p) ==
  /\ pc[p] = "stopping"
  /\ Return(p)
  /\ UNCHANGED <<installState, report, saved, cache, streams, world>>

\* Mutant: the release is compared with the package on disk.
UpToDate_Installed(p) ==
  /\ pc[p] = "fetch" /\ installing[p]
  /\ release <= package
  /\ report' = [current |-> version, latest |-> release, available |-> FALSE]
  /\ installState' = "DONE" /\ Save
  /\ Return(p)
  /\ UNCHANGED <<cache, streams, world>>

\* The check found no newer version than the running one.
UpToDate(p) ==
  /\ pc[p] = "fetch" /\ installing[p]
  /\ release <= version
  /\ report' = [current |-> version, latest |-> release, available |-> FALSE]
  /\ installState' = "DONE" /\ Save
  /\ Return(p)
  /\ UNCHANGED <<cache, streams, world>>

\* Mutant: the release found is not compared with the running version.
UpdateFound_Any(p) ==
  /\ pc[p] = "fetch" /\ installing[p]
  /\ report' = [current |-> version, latest |-> release, available |-> TRUE]
  /\ installState' = "DOWNLOADING" /\ Save
  /\ target' = [target EXCEPT ![p] = release]
  /\ GoTo(p, "deb")
  /\ UNCHANGED <<installing, allow, cache, streams, world>>

\* It found one: IDLE is at once replaced by DOWNLOADING.
UpdateFound(p) ==
  /\ pc[p] = "fetch" /\ installing[p]
  /\ release > version
  /\ report' = [current |-> version, latest |-> release, available |-> TRUE]
  /\ installState' = "DOWNLOADING" /\ Save
  /\ target' = [target EXCEPT ![p] = release]
  /\ GoTo(p, "deb")
  /\ UNCHANGED <<installing, allow, cache, streams, world>>

\* path.open("wb"): the file is empty and p the last to write it.
DebOpened(p) ==
  /\ pc[p] = "deb"
  /\ deb' = [deb EXCEPT ![target[p]] = p]
  /\ GoTo(p, "debBody")
  /\ UNCHANGED <<installState, report, saved, installing, allow, target, sums, streams, world>>

\* The body arrived, intact or not.
DebDone(p) ==
  /\ pc[p] = "debBody"
  /\ \E body \in {"good", "bad"} :
       deb' = [deb EXCEPT ![target[p]] = IF @ = p THEN body ELSE @]
  /\ GoTo(p, "sums")
  /\ UNCHANGED <<installState, report, saved, installing, allow, target, sums, streams, world>>

SumsOpened(p) ==
  /\ pc[p] = "sums"
  /\ sums' = 0
  /\ GoTo(p, "sumsBody")
  /\ UNCHANGED <<installState, report, saved, installing, allow, target, deb, streams, world>>

\* A download fails; the exception leaves install() with the state
\* DOWNLOADING in memory and on disk.
DownloadFails(p) ==
  /\ pc[p] \in {"deb", "debBody", "sums", "sumsBody"}
  /\ Return(p)
  /\ UNCHANGED <<installState, report, saved, cache, streams, world>>

\* Mutant: the checksum is not compared.
Verified_Always(p) ==
  /\ pc[p] = "sumsBody"
  /\ sums' = target[p]
  /\ installState' = "INSTALLING" /\ UNCHANGED report /\ Save
  /\ GoTo(p, "apt")
  /\ UNCHANGED <<installing, allow, target, deb, streams, world>>

\* The checksums arrived too: VERIFYING, and INSTALLING when the checksum of
\* the file is the one listed for it.
Verified(p) ==
  /\ pc[p] = "sumsBody"
  /\ sums' = target[p]
  /\ deb[target[p]] = "good"
  /\ installState' = "INSTALLING" /\ UNCHANGED report /\ Save
  /\ GoTo(p, "apt")
  /\ UNCHANGED <<installing, allow, target, deb, streams, world>>

NotVerified(p) ==
  /\ pc[p] = "sumsBody"
  /\ sums' = target[p]
  /\ deb[target[p]] # "good"
  /\ installState' = "VERIFYING" /\ UNCHANGED report /\ Save
  /\ Return(p)
  /\ UNCHANGED <<deb, streams, world>>

\* The file in the cache is whole, and apt never downgrades.
AptCanInstall(p) ==
  /\ pc[p] = "apt"
  /\ deb[target[p]] \in {"good", "bad"} /\ target[p] >= package

\* apt read the file and installed it.  The restart is scheduled, or that
\* fails: the failure is logged and the answer is the same.
InstallDone(p) ==
  /\ AptCanInstall(p)
  /\ package' = target[p]
  /\ installState' = "DONE" /\ UNCHANGED report /\ Save
  /\ restart' \in {restart, IF allow[p] THEN "allowed" ELSE "yes"}
  /\ Return(p)
  /\ UNCHANGED <<cache, streams, autoCheck, version, release>>

\* Mutant: a call whose apt fails waits for ever.
InstallFails_Hangs(p) ==
  /\ pc[p] = "apt"
  /\ GoTo(p, "hung")
  /\ UNCHANGED <<installState, report, saved, installing, allow, target, cache, streams, world>>

\* No pkexec, no apt, or apt exits with an error.
InstallFails(p) ==
  /\ pc[p] = "apt"
  /\ Return(p)
  /\ UNCHANGED <<installState, report, saved, cache, streams, world>>

-----------------------------------------------------------------------------
(* The automatic check, its configuration, the restarts, the environment.  *)

SetAutoCheck ==
  /\ autoCheck' \in BOOLEAN
  /\ autoCheck' # autoCheck
  /\ UNCHANGED <<installState, report, saved, calls, cache,
                 package, version, release, streams, restart>>

AutoWait ==
  /\ pc[AutoTask] = "idle" /\ autoCheck
  /\ GoTo(AutoTask, "waiting")
  /\ UNCHANGED <<installState, report, saved, installing, allow, target, cache, streams, world>>

\* The interval is over while an install is in progress: the conflict is
\* logged and the loop goes round.
AutoRefused ==
  /\ pc[AutoTask] = "waiting" /\ TimeoutIsBuiltin
  /\ installState \in Busy
  /\ GoTo(AutoTask, "idle")
  /\ UNCHANGED <<installState, report, saved, installing, allow, target, cache, streams, world>>

\* Before Python 3.11 wait_for() raises another TimeoutError than the one
\* the loop catches: the task ends.
AutoDies ==
  /\ pc[AutoTask] = "waiting" /\ ~TimeoutIsBuiltin
  /\ GoTo(AutoTask, "dead")
  /\ UNCHANGED <<installState, report, saved, installing, allow, target, cache, streams, world>>

\* Mutant: a first start has no record to fall back on.
Boot_NoDefault(v) ==
  /\ version' = v
  /\ installState' = saved.state
  /\ report' = saved.report
  /\ NoCalls
  /\ restart' = "no" /\ streams' = FALSE
  /\ UNCHANGED <<saved, autoCheck, cache, release>>

\* A new daemon of version v reads the record its predecessor saved.
Boot(v) ==
  /\ version' = v
  /\ installState' = IF saved = NoFile THEN "IDLE" ELSE saved.state
  /\ report' = IF saved = NoFile THEN Fresh(v) ELSE saved.report
  /\ NoCalls
  /\ restart' = "no" /\ streams' = FALSE
  /\ UNCHANGED <<saved, autoCheck, cache, release>>

\* A daemon ends and the next one starts; an apt it ran may outlive it, and
\* finish before or after the next one is up.
Reboot ==
  /\ package' \in {package} \cup {target[p] : p \in {q \in Callers : AptCanInstall(q)}}
  /\ \E v \in {package, package'} : Boot(v)

\* Mutant: the restart waits until no install is shown in progress.
Restart_WaitsForIdle == restart # "no" /\ installState \notin Busy /\ Reboot

Restart == restart # "no" /\ Reboot
Crash   == Crashes /\ Reboot

Publish ==
  /\ release < MaxVersion
  /\ release' = release + 1
  /\ UNCHANGED <<installState, report, saved, autoCheck, calls, cache,
                 package, version, streams, restart>>

StreamsChange ==
  /\ streams' = ~streams
  /\ UNCHANGED <<installState, report, saved, autoCheck, calls, cache,
                 package, version, release, restart>>

-----------------------------------------------------------------------------

Begin(p) == CheckBegin(p) \/ InstallRefused(p) \/ InstallBegin(p)

\* Every wait of a call ends: requests and stops have timeouts, and the user
\* answers pkexec.
Continue(p) ==
  \/ CheckFails(p) \/ CheckDone(p)
  \/ StreamsStopped(p) \/ StreamsNotStopped(p) \/ UpToDate(p) \/ UpdateFound(p)
  \/ DebOpened(p) \/ DebDone(p) \/ SumsOpened(p) \/ DownloadFails(p)
  \/ Verified(p) \/ NotVerified(p) \/ InstallDone(p) \/ InstallFails(p)

AutoStep ==
  \/ AutoWait \/ AutoRefused \/ AutoDies
  \/ TimeoutIsBuiltin /\ CheckBegin(AutoTask)

Next ==
  \/ \E p \in Callers : Begin(p)
  \/ \E p \in Procs : Continue(p)
  \/ AutoStep
  \/ SetAutoCheck \/ Restart \/ Crash \/ Publish \/ StreamsChange

Fairness ==
  /\ \A p \in Procs : WF_vars(Continue(p))
  /\ WF_vars(AutoStep) /\ WF_vars(Restart)

Spec == Init /\ [][Next]_vars
FairSpec == Spec /\ Fairness
-----------------------------------------------------------------------------
(* Properties.                                                             *)

Reports == [current : 0..MaxVersion, latest : 0..MaxVersion, available : BOOLEAN]
Pcs == {"idle", "waiting", "dead", "stopping", "fetch",
        "deb", "debBody", "sums", "sumsBody", "apt"}

\* Every variable holds a value of its counterpart.
TypeOK ==
  /\ installState \in InstallStates /\ report \in Reports
  /\ saved \in [state : InstallStates \cup {"none"}, report : Reports]
  /\ autoCheck \in BOOLEAN
  /\ pc \in [Procs -> Pcs]
  /\ installing \in [Procs -> BOOLEAN] /\ allow \in [Procs -> BOOLEAN]
  /\ target \in [Procs -> 0..MaxVersion]
  /\ deb \in [Versions -> Procs \cup {"none", "good", "bad"}]
  /\ sums \in 0..MaxVersion
  /\ package \in Versions /\ version \in Versions /\ release \in Versions
  /\ streams \in BOOLEAN /\ restart \in {"no", "yes", "allowed"}

\* docs/API_V1.md, POST /update/install: "Debian .deb with checksum
\* verification".  What apt reads is what was verified: while it runs, the
\* file in the cache is whole and has the published checksum.
InstallsWhatWasVerified == \A p \in Callers : pc[p] = "apt" => deb[target[p]] = "good"

\* Record and file agree on whether an install is in progress: a restart, in
\* which the daemon reads the file, neither begins nor ends one.
FileAgrees == (installState \in Busy) <=> (saved.state \in Busy)

\* "already_up_to_date": True.  An install answers so only when the daemon runs
\* the latest release and so does its package: one whose restart could not be
\* scheduled, or was lost with a daemon that died, is never told so but is
\* offered the package again.
UpToDateIsTrue ==
  [][\A p \in Callers : UpToDate(p) => version = package /\ package = release]_vars

\* A call past its check, up to the end of apt.
Working(p) == pc[p] \in {"deb", "debBody", "sums", "sumsBody", "apt"}

\* conflict_error("update install is already in progress"): two installs
\* never download and install at the same time.
OneInstall == \A p, q \in Callers : Working(p) /\ Working(q) => p = q

\* docs/TROUBLESHOOTING.md, "Update install fails": "Run avream update check
\* --force".  Checks are refused only while an install is at work.
FailedInstallAllowsCheck == installState \in Busy => \E p \in Callers : Working(p)

\* Every call is answered (or the daemon restarts).
CallsAnswered == \A p \in Callers : pc[p] # "idle" ~> pc[p] = "idle"

\* A scheduled restart puts its package to use: the daemon comes to run it or
\* a newer one, though another install may be at work, or have failed, by then.
UpdateApplied ==
  \A v \in Versions : (restart # "no" /\ package = v) ~> version >= v

\* docs/SUPPORTED_PLATFORMS.md: "Python 3.10+".  Left on, the automatic
\* check runs again and again unless an install is shown in progress.
AutoCheckRuns == <>[]autoCheck => []<>(pc[AutoTask] = "fetch" \/ installState \in Busy)

Service == INSTANCE UpdateService WITH
  published <- release, installed <- package, running <- version, due <- restart # "no"

\* With its calls, records, cache and crashes the manager implements the
\* update service: however checks, installs of any number of clients and
\* restarts overlap, packages are only replaced by newer ones and the daemon
\* is only restarted for one.
ImplementsUpdateService == Service!Spec
=============================================================================
