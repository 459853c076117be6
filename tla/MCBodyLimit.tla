---------------------------- MODULE MCBodyLimit ----------------------------
(* BodyLimit, as it is.                                                    *)
EXTENDS BodyLimit
=============================================================================
