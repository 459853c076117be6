---------------------------- MODULE MCExtraction ----------------------------
(* Extraction, as it is.                                                   *)
EXTENDS Extraction
=============================================================================
