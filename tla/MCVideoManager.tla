--------------------------- MODULE MCVideoManager ---------------------------
(* VideoManager on a small instance: two requests at a time.               *)
EXTENDS VideoManager
=============================================================================
