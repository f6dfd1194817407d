----------------------------- MODULE V4l2Helper -----------------------------
(***************************************************************************)
(* PrivilegeClient.call() and avream-helper for the v4l2loopback module:   *)
(* the call with its timeout, helper processes, which may outlive it, and  *)
(* the kernel module and device node they inspect and reload.              *)
(*                                                                         *)
(* A helper is a process of its own: each of its steps is one command or   *)
(* one inspection.  pkexec may ask for a password first.  The kernel       *)
(* refuses to unload a module whose device is open, and modprobe succeeds  *)
(* without effect on a module that is loaded.                              *)
(*                                                                         *)
(* Not modelled: parsing of requests and of module parameters, the file    *)
(* under /etc/modprobe.d, which no code reads back.                        *)
(***************************************************************************)

CONSTANTS
  Helpers, \* bound: helper processes alive at once
  NoHelper \* no call in progress

ASSUME HelperAssumption == NoHelper \notin Helpers

VARIABLES
  module,  \* v4l2loopback: "absent", or loaded with "ours" or "other" parameters
  device,  \* /dev/videoN exists
  users,   \* who has it open
  at,      \* what each helper does next
  args,    \* its force and always_reload
  current, \* the helper the call in progress waits for
  reply    \* its answer: "ok", "stale" (status: requires_reload), "busy", "error"

kernel  == <<module, device, users>>
helpers == <<at, args>>
v4l2    == <<kernel, helpers, current, reply>>

Steps   == {"none", "promptStatus", "promptReload", "status", "inspect",
            "unload", "load", "appear", "check"}
NoArgs  == [force |-> FALSE, always |-> FALSE]

HelperInit ==
  /\ module \in {"absent", "other", "ours"}
  /\ device \in CASE module = "absent" -> {FALSE}
                  [] module = "other"  -> BOOLEAN
                  [] module = "ours"   -> {TRUE}
  /\ users = {}
  /\ at = [h \in Helpers |-> "none"]
  /\ args = [h \in Helpers |-> NoArgs]
  /\ current = NoHelper /\ reply = "none"

\* inspect_v4l2().
RequiresReload == module # "ours" \/ ~device

Ready == ~RequiresReload

-----------------------------------------------------------------------------
(* PrivilegeClient.                                                        *)

\* A process not in use; which one makes no difference.
FreeHelper ==
  LET free == {h \in Helpers : at[h] = "none"} IN
  IF free = {} THEN {} ELSE {CHOOSE h \in free : TRUE}

\* call(): a helper is spawned, behind pkexec.
CallBegin(action, a) ==
  /\ \E h \in FreeHelper :
       /\ at' = [at EXCEPT ![h] = IF action = "status" THEN "promptStatus" ELSE "promptReload"]
       /\ args' = [args EXCEPT ![h] = a]
       /\ current' = h
  /\ reply' = "none"
  /\ UNCHANGED kernel

\* The helper answered: the call returns or raises.
CallReturns(r) ==
  /\ reply = r
  /\ current' = NoHelper /\ reply' = "none"
  /\ UNCHANGED <<kernel, helpers>>

\* AVREAM_HELPER_TIMEOUT is over.  A helper that is killed is gone; pkexec's
\* cannot be killed once it runs as root, and before Python 3.11 nobody tries.
CallTimesOut(mayKill) ==
  /\ current # NoHelper /\ reply = "none"
  /\ \/ /\ mayKill \/ \A h \in Helpers : at[h] # "none"
        /\ at' = [at EXCEPT ![current] = "none"]
        /\ args' = [args EXCEPT ![current] = NoArgs]
     \/ /\ ~(mayKill /\ at[current] \in {"promptStatus", "promptReload"})
        /\ \E h \in Helpers : at[h] = "none"
        /\ UNCHANGED helpers
  /\ current' = NoHelper
  /\ UNCHANGED <<kernel, reply>>

-----------------------------------------------------------------------------
(* avream-helper.                                                          *)

GoTo(h, step) == at' = [at EXCEPT ![h] = step] /\ UNCHANGED <<args, current, reply>>

\* The response goes to the call if it still waits.
Answer(h, r) ==
  /\ at' = [at EXCEPT ![h] = "none"]
  /\ args' = [args EXCEPT ![h] = NoArgs]
  /\ reply' = IF h = current THEN r ELSE reply
  /\ UNCHANGED current

\* The user gives the password, or does not.
Authorized(h) ==
  /\ at[h] \in {"promptStatus", "promptReload"}
  /\ \/ GoTo(h, IF at[h] = "promptStatus" THEN "status" ELSE "inspect")
     \/ Answer(h, "error")
  /\ UNCHANGED kernel

Status(h) ==
  /\ at[h] = "status"
  /\ Answer(h, IF RequiresReload THEN "stale" ELSE "ok")
  /\ UNCHANGED kernel

\* From here on the parameters matter no more.
Reload(h) ==
  /\ at' = [at EXCEPT ![h] = IF module = "absent" THEN "load" ELSE "unload"]
  /\ args' = [args EXCEPT ![h] = NoArgs]
  /\ UNCHANGED <<current, reply>>

\* v4l2.reload looks at the module once and writes its configuration file,
\* or fails to.  Without fuser no device is seen to be busy.
Inspect(h) ==
  /\ at[h] = "inspect"
  /\ \E busy \in {FALSE, device /\ users # {}} :
       IF ~RequiresReload /\ ~args[h].always
         THEN Answer(h, "ok")
         ELSE IF busy /\ ~args[h].force
         THEN Answer(h, "busy")
         ELSE \/ Answer(h, "error")
              \/ Reload(h)
  /\ UNCHANGED kernel

\* modprobe -r; its failure is ignored.
Unload(h) ==
  /\ at[h] = "unload"
  /\ GoTo(h, "load")
  /\ \/ users = {} /\ module' = "absent" /\ device' = FALSE
     \/ UNCHANGED <<module, device>>
  /\ UNCHANGED users

Load(h) ==
  /\ at[h] = "load"
  /\ \/ /\ GoTo(h, "appear")
        /\ module' = IF module = "absent" THEN "ours" ELSE module
     \/ Answer(h, "error") /\ UNCHANGED module
  /\ UNCHANGED <<device, users>>

\* Mutant: the helper's error code is handed on as it is.
Appear_OwnCode(h) ==
  /\ at[h] = "appear"
  /\ IF device THEN GoTo(h, "check") ELSE Answer(h, "missing")
  /\ UNCHANGED kernel

\* wait_for_device(): 30 looks at the device node.
Appear(h) ==
  /\ at[h] = "appear"
  /\ IF device THEN GoTo(h, "check") ELSE Answer(h, "error")
  /\ UNCHANGED kernel

\* Mutant: the effective parameters are not looked at after the reload.
Check_Never(h) ==
  /\ at[h] = "check"
  /\ Answer(h, "ok")
  /\ UNCHANGED kernel

\* The effective parameters are compared with the requested ones.
Check(h) ==
  /\ at[h] = "check"
  /\ Answer(h, IF module = "ours" THEN "ok" ELSE "error")
  /\ UNCHANGED kernel

HelperStep(h) ==
  \/ Authorized(h) \/ Status(h) \/ Inspect(h)
  \/ Unload(h) \/ Load(h) \/ Appear(h) \/ Check(h)

\* udev creates the node of a module just loaded.
DeviceAppears ==
  /\ module = "ours" /\ ~device
  /\ device' = TRUE
  /\ UNCHANGED <<module, users, helpers, current, reply>>

HelperTypeOK ==
  /\ module \in {"absent", "ours", "other"} /\ device \in BOOLEAN
  /\ at \in [Helpers -> Steps]
  /\ args \in [Helpers -> [force : BOOLEAN, always : BOOLEAN]]
  /\ current \in Helpers \cup {NoHelper}
  /\ reply \in {"none", "ok", "stale", "busy", "error"}
=============================================================================
