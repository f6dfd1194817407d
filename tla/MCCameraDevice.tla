--------------------------- MODULE MCCameraDevice ---------------------------
(* CameraDevice on a small instance: two processes, two helpers.           *)
EXTENDS CameraDevice
=============================================================================
