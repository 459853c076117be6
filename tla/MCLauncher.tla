----------------------------- MODULE MCLauncher -----------------------------
(* Launcher, as it is.                                                     *)
EXTENDS Launcher
=============================================================================
