-------------------------- MODULE MCAndroidDevices --------------------------
(* AndroidDevices on a small instance: two phones, one of them on Wi-Fi.   *)
EXTENDS AndroidDevices, TLC

CONSTANTS p1, p2, a1

MCOwner == a1 :> p1
=============================================================================
