---------------------------- MODULE UpdateService ----------------------------
(***************************************************************************)
(* What the daemon promises about its own version, without calls, records, *)
(* downloads or locks: a package is only replaced by a published one that  *)
(* is newer than the daemon that asked for it, the daemon is only          *)
(* restarted for a newer package, and nothing ever goes back.              *)
(***************************************************************************)
EXTENDS Naturals

VARIABLES
  published, \* number of the latest release
  installed, \* version of the package on disk
  running,   \* version of the daemon
  due        \* a restart is scheduled

vars == <<published, installed, running, due>>

Init == published = 1 /\ installed = 1 /\ running = 1 /\ due = FALSE

Publish ==
  /\ published' \in Nat /\ published' > published
  /\ UNCHANGED <<installed, running, due>>

\* The running daemon replaces the package, with one newer than itself, and
\* schedules the restart into it unless that fails.
Install ==
  /\ installed' \in running + 1 .. published
  /\ installed' >= installed
  /\ due' \in {due, TRUE}
  /\ UNCHANGED <<published, running>>

\* A daemon ends, for the restart or by itself, and another starts; what it
\* was installing may be in place before or after that.
Reboot ==
  /\ installed' = installed \/ installed' \in running + 1 .. published
  /\ installed' >= installed
  /\ running' \in {installed, installed'}
  /\ due' = FALSE
  /\ UNCHANGED published

Next == Publish \/ Install \/ Reboot

Spec == Init /\ [][Next]_vars

\* Versions are numbers.
TypeOK ==
  /\ published \in Nat /\ installed \in Nat /\ running \in Nat
  /\ due \in BOOLEAN

\* No daemon runs ahead of its package, no package ahead of the releases.
Ordered == running <= installed /\ installed <= published

\* Streams are interrupted by a restart only for a newer version.
DueForNewer == due => running < installed

\* Neither the package nor the daemon ever goes back to an older version.
NeverDowngrades == [][installed' >= installed /\ running' >= running]_vars
=============================================================================
