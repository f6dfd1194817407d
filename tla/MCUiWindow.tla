----------------------------- MODULE MCUiWindow -----------------------------
(* UiWindow on a small instance.                                           *)
EXTENDS UiWindow
=============================================================================
