---------------------------- MODULE MCInterface ----------------------------
(* Interface with two good files and one that precheck refuses.            *)
EXTENDS Interface

CONSTANTS f1, f2, bad

MCFiles == {f1, f2, bad}
MCWrong == {bad}
MCBatches == {<<f1, f2>>, <<bad, f1, f2>>}
MCCauses == {"ExtractionFailed", "PDFCorrupted", "RateLimit", "Storage",
             "UnreadableAnswer"}
MCFilters == {Ids, {2}}
MCBare == {1}
=============================================================================
