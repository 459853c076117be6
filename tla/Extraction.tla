----------------------------- MODULE Extraction -----------------------------
(***************************************************************************)
(* What process_invoice does on a cache miss: the text of a PDF is read by *)
(* a worker process that is killed when it takes too long, judged, and     *)
(* sent to Gemini with at most MaxAttempts attempts; an image goes to      *)
(* Gemini directly.  The step Extract of InvoiceStore stands for a run of  *)
(* this machine that ends in "extracted", its step ProcessingFails for one *)
(* that ends in an error.                                                  *)
(*                                                                         *)
(* A page is the length of its cleaned text.  The lengths of the page      *)
(* separators are the code's own, since the thresholds are compared with   *)
(* the joined text.                                                        *)
(***************************************************************************)
EXTENDS Naturals, Sequences, SequencesExt, Sums

CONSTANTS
    PageLengths,    \* lengths of a page's text
    MaxDocPages,    \* bound of the model: pages of a document
    MaxPages,       \* MAX_PDF_PAGES
    MaxChars,       \* MAX_PDF_TEXT_CHARS
    Threshold,      \* _SCANNED_PDF_CHAR_THRESHOLD
    MaxAttempts,    \* _MAX_ATTEMPTS
    None

OCRErrors == {"FileNotFound", "PDFCorrupted", "PDFTooLarge", "EmptyDocument",
              "UnsupportedPDF"}
LLMErrors == {"LLMAuth", "DailyQuota", "RateLimit", "ProviderTimeout",
              "ExtractionFailed", "Unexpected"}

ASSUME ExtractionAssumption ==
    /\ PageLengths \subseteq Nat
    /\ MaxDocPages \in 0..99
    /\ {MaxPages, MaxChars, Threshold, MaxAttempts} \subseteq Nat \ {0}
    /\ None \notin {"ok", "too_large", "corrupted", "extracted"}
                    \cup OCRErrors \cup LLMErrors

VARIABLES
    image,          \* the upload is a JPEG or a PNG
    pages,          \* the pages of the PDF
    stage,          \* where the extraction is
    texts,          \* page_texts: what the worker has read
    answer,         \* what the worker answered, or None
    errors,         \* the errors of the failed Gemini attempts, in order
    outcome         \* None, "extracted" or the error that was raised

vars == <<image, pages, stage, texts, answer, errors, outcome>>

Documents == UNION {[1..n -> PageLengths]: n \in 0..MaxDocPages}

TypeOK ==
    /\ image \in BOOLEAN
    /\ pages \in Documents
    /\ stage \in {"check", "parse", "judge", "call", "backoff", "done"}
    /\ texts \in Documents /\ IsPrefix(texts, pages)
    /\ answer \in {None, "ok", "too_large", "corrupted"}
    /\ errors \in Seq(LLMErrors) /\ Len(errors) <= MaxAttempts
    /\ outcome \in {None, "extracted"} \cup OCRErrors \cup LLMErrors
    /\ (stage = "done") = (outcome # None)

Init ==
    /\ image \in BOOLEAN
    /\ pages \in (IF image THEN {<<>>} ELSE Documents)
    /\ stage = "check"
    /\ texts = <<>> /\ answer = None /\ errors = <<>> /\ outcome = None

-----------------------------------------------------------------------------
(* The joined text.                                                        *)

Chars(p) == SumOf(p)

(* "\n\n---PAGE {n}---\n\n"                                                *)
Separator(n) == IF n < 10 THEN 16 ELSE 17

(* The length of full_text.strip(): the separators count as text, but for  *)
(* the two newlines at an end whose page is blank.                         *)
StrippedLength(p) ==
    IF Len(p) < 2 THEN Chars(p)
    ELSE LET separators == Chars([n \in 1..(Len(p) - 1) |-> Separator(n + 1)])
             blankEnds == (IF p[1] = 0 THEN 2 ELSE 0) + (IF p[Len(p)] = 0 THEN 2 ELSE 0)
         IN Chars(p) + separators - blankEnds

-----------------------------------------------------------------------------
(* Plausible bugs.  No action uses these definitions.                      *)

(* The worker stops at the limit and answers with what it has read.        *)
StopAtCharLimitTruncates ==
    /\ stage = "parse" /\ Len(texts) < Len(pages)
    /\ Len(pages) <= MaxPages
    /\ Chars(SubSeq(pages, 1, Len(texts) + 1)) > MaxChars
    /\ stage' = "judge" /\ answer' = "ok"
    /\ UNCHANGED <<image, pages, texts, errors, outcome>>

(* Every rate limit is worth a retry.                                      *)
RetryableQuota(error) == error \in {"RateLimit", "ProviderTimeout", "DailyQuota"}

(* One attempt too many.                                                   *)
GeminiFailsOnceMore ==
    /\ stage = "call"
    /\ \E error \in LLMErrors:
        /\ errors' = Append(errors, error)
        /\ IF error \in {"RateLimit", "ProviderTimeout"} /\ Len(errors) < MaxAttempts
           THEN stage' = "backoff" /\ UNCHANGED outcome
           ELSE stage' = "done" /\ outcome' = error
    /\ UNCHANGED <<image, pages, texts, answer>>

(* subprocess.run without a timeout.                                       *)
WorkerNeverTimesOut == stage = "parse" /\ answer # None /\ UNCHANGED vars

-----------------------------------------------------------------------------
Scanned(p) == StrippedLength(p) < Threshold
Retryable(error) == error \in {"RateLimit", "ProviderTimeout"}

Raise(error) == stage' = "done" /\ outcome' = error

(* The file is missing, too big or has no PDF header.                      *)
RefuseFile ==
    /\ stage = "check"
    /\ \E error \in {"FileNotFound", "PDFTooLarge", "PDFCorrupted"}:
           ~image /\ Raise(error)
    /\ UNCHANGED <<image, pages, texts, answer, errors>>

SendImage ==
    /\ stage = "check" /\ image
    /\ stage' = "call"
    /\ UNCHANGED <<image, pages, texts, answer, errors, outcome>>

StartWorker ==
    /\ stage = "check" /\ ~image
    /\ stage' = "parse"
    /\ UNCHANGED <<image, pages, texts, answer, errors, outcome>>

-----------------------------------------------------------------------------
(* The worker process.                                                     *)

Answer(status) == stage' = "judge" /\ answer' = status

RefusePageCount ==
    /\ stage = "parse" /\ Len(pages) > MaxPages
    /\ Answer("too_large")
    /\ UNCHANGED <<image, pages, texts, errors, outcome>>

ReadPage ==
    /\ stage = "parse" /\ Len(texts) < Len(pages)
    /\ Len(pages) <= MaxPages
    /\ Chars(SubSeq(pages, 1, Len(texts) + 1)) <= MaxChars
    /\ texts' = SubSeq(pages, 1, Len(texts) + 1)
    /\ UNCHANGED <<image, pages, stage, answer, errors, outcome>>

StopAtCharLimit ==
    /\ stage = "parse" /\ Len(texts) < Len(pages)
    /\ Len(pages) <= MaxPages
    /\ Chars(SubSeq(pages, 1, Len(texts) + 1)) > MaxChars
    /\ Answer("too_large")
    /\ UNCHANGED <<image, pages, texts, errors, outcome>>

FinishParsing ==
    /\ stage = "parse" /\ Len(texts) = Len(pages) /\ Len(pages) <= MaxPages
    /\ Answer("ok")
    /\ UNCHANGED <<image, pages, texts, errors, outcome>>

(* The parser raises on any page; the worker catches it.                   *)
ParserFails ==
    /\ stage = "parse"
    /\ Answer("corrupted")
    /\ UNCHANGED <<image, pages, texts, errors, outcome>>

(* The worker dies, or its answer is too long or not JSON.                 *)
WorkerCrashes ==
    /\ stage = "parse"
    /\ Raise("PDFCorrupted")
    /\ UNCHANGED <<image, pages, texts, answer, errors>>

(* MAX_PDF_SECONDS have passed: the worker is killed wherever it is.       *)
WorkerTimesOut ==
    /\ stage = "parse"
    /\ Raise("PDFTooLarge")
    /\ UNCHANGED <<image, pages, texts, answer, errors>>

-----------------------------------------------------------------------------
(* extract_text_from_pdf, once the worker has answered.                    *)

RefuseDocument ==
    /\ stage = "judge"
    /\ \/ answer = "too_large" /\ Raise("PDFTooLarge")
       \/ answer = "corrupted" /\ Raise("PDFCorrupted")
       \/ answer = "ok" /\ StrippedLength(texts) = 0 /\ Raise("EmptyDocument")
       \/ answer = "ok" /\ StrippedLength(texts) > 0 /\ Scanned(texts)
              /\ Raise("UnsupportedPDF")
    /\ UNCHANGED <<image, pages, texts, answer, errors>>

SendText ==
    /\ stage = "judge" /\ answer = "ok"
    /\ StrippedLength(texts) > 0 /\ ~Scanned(texts)
    /\ stage' = "call"
    /\ UNCHANGED <<image, pages, texts, answer, errors, outcome>>

-----------------------------------------------------------------------------
(* _invoke, under tenacity.                                                *)

GeminiAnswers ==
    /\ stage = "call"
    /\ Raise("extracted")
    /\ UNCHANGED <<image, pages, texts, answer, errors>>

(* The last error is raised again; the others are worth a retry only when  *)
(* _is_retryable says so.                                                  *)
GeminiFails ==
    /\ stage = "call"
    /\ \E error \in LLMErrors:
        /\ errors' = Append(errors, error)
        /\ IF Retryable(error) /\ Len(errors) + 1 < MaxAttempts
           THEN stage' = "backoff" /\ UNCHANGED outcome
           ELSE Raise(error)
    /\ UNCHANGED <<image, pages, texts, answer>>

Retry ==
    /\ stage = "backoff"
    /\ stage' = "call"
    /\ UNCHANGED <<image, pages, texts, answer, errors, outcome>>

Done == stage = "done" /\ UNCHANGED vars

Next ==
    \/ RefuseFile \/ SendImage \/ StartWorker
    \/ RefusePageCount \/ ReadPage \/ StopAtCharLimit \/ FinishParsing
    \/ ParserFails \/ WorkerCrashes \/ WorkerTimesOut
    \/ RefuseDocument \/ SendText
    \/ GeminiAnswers \/ GeminiFails \/ Retry
    \/ Done

(* The parent goes on, its timeout fires, and the provider's client        *)
(* returns from every call.  Nothing is assumed of the worker.             *)
Fairness ==
    /\ WF_vars(RefuseFile \/ SendImage \/ StartWorker)
    /\ WF_vars(WorkerTimesOut)
    /\ WF_vars(RefuseDocument \/ SendText)
    /\ WF_vars(GeminiAnswers \/ GeminiFails)
    /\ WF_vars(Retry)

Spec == Init /\ [][Next]_vars /\ Fairness

-----------------------------------------------------------------------------
(* Gemini never gets part of a document: not when a limit stopped the      *)
(* worker, nor when it was killed or crashed half-way.                     *)
NothingPartialIsSent ==
    (stage \in {"call", "backoff"} \/ errors # <<>> \/ outcome = "extracted") =>
        \/ image
        \/ texts = pages /\ Len(pages) <= MaxPages /\ Chars(pages) <= MaxChars

(* The quota is not burnt: a call is repeated only after an error a retry  *)
(* can cure, never after a daily quota or a refused key, and a document    *)
(* costs at most MaxAttempts calls.                                        *)
CallsAreRationed ==
    /\ \A i \in 1..Len(errors):
           i < Len(errors) \/ stage \in {"call", "backoff"} \/ outcome = "extracted"
               => errors[i] \in {"RateLimit", "ProviderTimeout"}
    /\ outcome \in LLMErrors => outcome = Last(errors)
    /\ stage = "call" => Len(errors) < MaxAttempts

(* A file that hangs the parser cannot hold its upload for ever.           *)
ExtractionEnds == <>(stage = "done")

(* Why: every step, of the worker or of the provider too, is one of a      *)
(* number of steps left: the pages, the judgement, two for each attempt.   *)
StepsLeft ==
    LET attempts == 2 * (MaxAttempts - Len(errors))
    IN [check |-> attempts + Len(pages) + 3,
        parse |-> attempts + (Len(pages) - Len(texts)) + 2,
        judge |-> attempts + 1,
        call |-> attempts, backoff |-> attempts + 1, done |-> 0][stage]

ExtractionAdvances == [][StepsLeft' < StepsLeft]_vars

(* What the separators do to the judgement: they only add to the text.  So *)
(* a document is never turned away as a scan although its pages hold as    *)
(* much as the threshold, and the one that is called empty is a single     *)
(* blank page: with a second page it never is, however blank.              *)
RefusedForItsText ==
    /\ outcome = "UnsupportedPDF" => Chars(pages) < Threshold
    /\ outcome = "EmptyDocument" => Len(pages) < 2 /\ Chars(pages) = 0

(* TECHNICAL_DESIGN.md:281: a valid PDF with no extractable character on   *)
(* any page is an EmptyDocumentError.  It is never sent to Gemini, then.   *)
NoTextIsNeverSent ==
    (stage = "call" /\ ~image) => Chars(pages) > 0
=============================================================================
