------------------------- MODULE Extraction_proofs -------------------------
(***************************************************************************)
(* The safety of Extraction, for every limit, every document and every     *)
(* number of attempts.  The invariant follows one document: nothing is     *)
(* said about its texts until the worker answers "ok", from then on they   *)
(* are all its pages; no error is recorded before the first call, and all  *)
(* but the last can be cured by a retry.  Two more results follow: how a   *)
(* text is judged, from what sums are, and that an extraction advances.    *)
(***************************************************************************)
EXTENDS Extraction, Sums_proofs, SequenceTheorems

CallStages == {"call", "backoff"}

(* What the worker has read is the beginning of the document, within the   *)
(* limit; all of it, within both limits, when it says so and from then on. *)
ReadSoFar ==
    /\ pages \in Documents
    /\ Len(texts) \in 0..Len(pages)
    /\ texts = SubSeq(pages, 1, Len(texts))
    /\ Chars(texts) <= MaxChars
    /\ answer = "ok" => texts = pages /\ Len(pages) <= MaxPages
    /\ (stage \in CallStages \/ errors # <<>> \/ outcome = "extracted") =>
           image \/ answer = "ok"

(* The failed attempts.                                                    *)
Attempts ==
    /\ errors \in Seq(LLMErrors)
    /\ Len(errors) <= MaxAttempts
    /\ stage \in {"check", "parse", "judge"} => errors = <<>>
    /\ stage \in CallStages => Len(errors) < MaxAttempts
    /\ \A i \in 1..Len(errors):
           i < Len(errors) \/ stage \in CallStages \/ outcome = "extracted"
               => Retryable(errors[i])
    /\ outcome \in LLMErrors => errors # <<>> /\ outcome = errors[Len(errors)]

Stages ==
    /\ image \in BOOLEAN
    /\ stage \in {"check", "parse", "judge", "done"} \cup CallStages
    /\ answer \in {None, "ok", "too_large", "corrupted"}
    /\ outcome \in {None, "extracted"} \cup OCRErrors \cup LLMErrors
    /\ (stage = "done") = (outcome # None)

ExtractionInv == Stages /\ ReadSoFar /\ Attempts

-----------------------------------------------------------------------------
(* Documents are sequences of lengths, and so are their beginnings.        *)
LEMMA Beginnings ==
    ASSUME NEW d \in Documents, NEW n \in 0..Len(d)
    PROVE  /\ d \in Seq(Nat) /\ Len(d) \in Nat
           /\ SubSeq(d, 1, n) \in Documents
           /\ Len(SubSeq(d, 1, n)) = n
           /\ SubSeq(d, 1, n) = SubSeq(d, 1, Len(SubSeq(d, 1, n)))
           /\ IsPrefix(SubSeq(d, 1, n), d)
           /\ n = Len(d) => SubSeq(d, 1, n) = d
<1>1. PICK m \in 0..MaxDocPages: d \in [1..m -> PageLengths]
  BY DEF Documents
<1>2. m \in Nat /\ MaxDocPages \in Nat
  BY <1>1, ExtractionAssumption
<1>3. d \in Seq(PageLengths) /\ Len(d) = m
  BY <1>1, <1>2
<1>4. d \in Seq(Nat)
  <2>1. PageLengths \subseteq Nat
    BY ExtractionAssumption
  <2>2. d \in [1..m -> Nat]
    BY <1>1, <2>1
  <2>3. QED
    BY <1>2, <2>2
<1> DEFINE b == SubSeq(d, 1, n)
<1>5. n \in Nat /\ n <= m /\ \A i \in 1..n: d[i] \in PageLengths
  BY <1>1, <1>2, <1>3
<1>6. b \in Seq(PageLengths) /\ Len(b) = n
  BY <1>5, SubSeqProperties
<1>7. b \in [1..n -> PageLengths]
  BY <1>6, LenProperties
<1>8. b \in Documents
  BY <1>2, <1>5, <1>7 DEF Documents
<1>9. SubSeq(b, 1, Len(b)) = b
  BY <1>6, SubSeqFull
<1>10. n = Len(d) => b = d
  BY <1>3, SubSeqFull
<1>11. QED
  BY <1>2, <1>3, <1>4, <1>5, <1>6, <1>8, <1>9, <1>10 DEF IsPrefix

-----------------------------------------------------------------------------
(* The beginning.                                                          *)
LEMMA InitHolds == Init => ExtractionInv
<1> SUFFICES ASSUME Init PROVE ExtractionInv
  OBVIOUS
<1>1. pages \in Documents
  <2>1. <<>> \in [1..0 -> PageLengths] /\ 0 \in 0..MaxDocPages
    BY ExtractionAssumption
  <2>2. <<>> \in Documents
    BY <2>1 DEF Documents
  <2>3. QED
    BY <2>2 DEF Init
<1>2. texts = <<>> /\ Len(texts) = 0 /\ SubSeq(pages, 1, 0) = <<>>
  BY SubSeqEmpty DEF Init
<1>3. Len(pages) \in Nat
  BY <1>1, ExtractionAssumption DEF Documents
<1>4. ReadSoFar
  BY <1>1, <1>2, <1>3, EmptySum, ExtractionAssumption
  DEF Init, ReadSoFar, CallStages, Chars
<1>5. Stages
  BY ExtractionAssumption DEF Init, Stages, CallStages
<1>6. Attempts
  BY ExtractionAssumption DEF Init, Attempts, CallStages, LLMErrors
<1>7. QED
  BY <1>4, <1>5, <1>6 DEF ExtractionInv

(* Steps before the worker: nothing is read and nothing sent.              *)
LEMMA CheckSteps ==
    ASSUME ExtractionInv, RefuseFile \/ SendImage \/ StartWorker
    PROVE  ExtractionInv'
<1> USE DEF ExtractionInv
<1>1. CASE RefuseFile
  <2>1. PICK error \in {"FileNotFound", "PDFTooLarge", "PDFCorrupted"}:
          stage = "check" /\ Raise(error)
    BY <1>1 DEF RefuseFile
  <2>2. error \in OCRErrors /\ error \notin LLMErrors /\ error # "extracted" /\ error # None
    BY ExtractionAssumption DEF OCRErrors, LLMErrors
  <2>3. Stages'
    BY <1>1, <2>1, <2>2 DEF RefuseFile, Raise, Stages, CallStages
  <2>4. ReadSoFar'
    BY <1>1, <2>1, <2>2 DEF RefuseFile, Raise, ReadSoFar, CallStages, Attempts
  <2>5. Attempts'
    BY <1>1, <2>1, <2>2 DEF RefuseFile, Raise, Attempts, CallStages
  <2>6. QED
    BY <2>3, <2>4, <2>5
<1>2. CASE SendImage
  <2>1. Stages'
    BY <1>2 DEF SendImage, Stages, CallStages
  <2>2. ReadSoFar'
    BY <1>2 DEF SendImage, ReadSoFar, CallStages
  <2>3. Attempts'
    BY <1>2, ExtractionAssumption DEF SendImage, Attempts, CallStages
  <2>4. QED
    BY <2>1, <2>2, <2>3
<1>3. CASE StartWorker
  <2>1. Stages'
    BY <1>3 DEF StartWorker, Stages, CallStages
  <2>2. ReadSoFar'
    BY <1>3 DEF StartWorker, ReadSoFar, CallStages
  <2>3. Attempts'
    BY <1>3 DEF StartWorker, Attempts, CallStages
  <2>4. QED
    BY <2>1, <2>2, <2>3
<1>4. QED
  BY <1>1, <1>2, <1>3

(* The worker: texts grow page by page, and only a complete reading within *)
(* both limits is called "ok".                                             *)
LEMMA WorkerSteps ==
    ASSUME ExtractionInv,
           \/ RefusePageCount \/ ReadPage \/ StopAtCharLimit \/ FinishParsing
           \/ ParserFails \/ WorkerCrashes \/ WorkerTimesOut
    PROVE  ExtractionInv'
<1> USE DEF ExtractionInv
<1>1. stage = "parse" /\ errors = <<>> /\ outcome = None
  BY DEF RefusePageCount, ReadPage, StopAtCharLimit, FinishParsing, ParserFails,
     WorkerCrashes, WorkerTimesOut, Attempts, CallStages, Stages
<1>2. CASE ReadPage
  <2>1. Len(texts) + 1 \in 0..Len(pages) /\ pages \in Documents
    BY <1>2, Beginnings DEF ReadPage, ReadSoFar
  <2>2. Len(texts') = Len(texts) + 1 /\ texts' = SubSeq(pages, 1, Len(texts'))
    BY <1>2, <2>1, Beginnings DEF ReadPage
  <2>3. ReadSoFar'
    BY <1>1, <1>2, <2>1, <2>2 DEF ReadPage, ReadSoFar, CallStages
  <2>4. Stages' /\ Attempts'
    BY <1>2 DEF ReadPage, Stages, Attempts
  <2>5. QED
    BY <2>3, <2>4
<1>3. CASE FinishParsing
  <2>1. texts = pages
    BY <1>3, Beginnings DEF FinishParsing, ReadSoFar
  <2>2. ReadSoFar'
    BY <1>1, <1>3, <2>1 DEF FinishParsing, Answer, ReadSoFar, CallStages
  <2>3. Stages'
    BY <1>1, <1>3 DEF FinishParsing, Answer, Stages, CallStages
  <2>4. Attempts'
    BY <1>1, <1>3 DEF FinishParsing, Answer, Attempts, CallStages
  <2>5. QED
    BY <2>2, <2>3, <2>4
<1>4. ASSUME NEW status \in {"too_large", "corrupted"},
             Answer(status), UNCHANGED <<image, pages, texts, errors, outcome>>
      PROVE  ExtractionInv'
  <2>1. Stages'
    BY <1>1, <1>4 DEF Answer, Stages, CallStages
  <2>2. ReadSoFar'
    BY <1>1, <1>4, ExtractionAssumption DEF Answer, ReadSoFar, CallStages
  <2>3. Attempts'
    BY <1>1, <1>4 DEF Answer, Attempts, CallStages
  <2>4. QED
    BY <2>1, <2>2, <2>3
<1>5. CASE RefusePageCount \/ StopAtCharLimit \/ ParserFails
  BY <1>4, <1>5 DEF RefusePageCount, StopAtCharLimit, ParserFails
<1>6. CASE WorkerCrashes \/ WorkerTimesOut
  <2>1. PICK error \in {"PDFCorrupted", "PDFTooLarge"}:
          Raise(error) /\ UNCHANGED <<image, pages, texts, answer, errors>>
    BY <1>6 DEF WorkerCrashes, WorkerTimesOut
  <2>2. error \in OCRErrors /\ error \notin LLMErrors /\ error # "extracted" /\ error # None
    BY ExtractionAssumption DEF OCRErrors, LLMErrors
  <2>3. Stages'
    BY <2>1, <2>2 DEF Raise, Stages, CallStages
  <2>4. ReadSoFar'
    BY <1>1, <2>1, <2>2 DEF Raise, ReadSoFar, CallStages
  <2>5. Attempts'
    BY <1>1, <2>1, <2>2 DEF Raise, Attempts, CallStages
  <2>6. QED
    BY <2>3, <2>4, <2>5
<1>7. QED
  BY <1>2, <1>3, <1>5, <1>6

(* The judgement: a text goes to Gemini only under "ok".                   *)
LEMMA JudgeSteps ==
    ASSUME ExtractionInv, RefuseDocument \/ SendText
    PROVE  ExtractionInv'
<1> USE DEF ExtractionInv
<1>1. stage = "judge" /\ errors = <<>> /\ outcome = None
  BY DEF RefuseDocument, SendText, Attempts, CallStages, Stages
<1>2. CASE RefuseDocument
  <2>1. PICK error \in {"PDFTooLarge", "PDFCorrupted", "EmptyDocument", "UnsupportedPDF"}:
          Raise(error) /\ UNCHANGED <<image, pages, texts, answer, errors>>
    BY <1>2 DEF RefuseDocument
  <2>2. error \in OCRErrors /\ error \notin LLMErrors /\ error # "extracted" /\ error # None
    BY ExtractionAssumption DEF OCRErrors, LLMErrors
  <2>3. Stages'
    BY <2>1, <2>2 DEF Raise, Stages, CallStages
  <2>4. ReadSoFar'
    BY <1>1, <2>1, <2>2 DEF Raise, ReadSoFar, CallStages
  <2>5. Attempts'
    BY <1>1, <2>1, <2>2 DEF Raise, Attempts, CallStages
  <2>6. QED
    BY <2>3, <2>4, <2>5
<1>3. CASE SendText
  <2>1. Stages'
    BY <1>1, <1>3 DEF SendText, Stages, CallStages
  <2>2. ReadSoFar'
    BY <1>3 DEF SendText, ReadSoFar, CallStages
  <2>3. Attempts'
    BY <1>1, <1>3, ExtractionAssumption DEF SendText, Attempts, CallStages
  <2>4. QED
    BY <2>1, <2>2, <2>3
<1>4. QED
  BY <1>2, <1>3

(* The calls: an error is appended, and only one a retry can cure leads    *)
(* back to a call.                                                         *)
LEMMA CallSteps ==
    ASSUME ExtractionInv, GeminiAnswers \/ GeminiFails \/ Retry
    PROVE  ExtractionInv'
<1> USE DEF ExtractionInv
<1>1. CASE GeminiAnswers
  <2>1. "extracted" # None /\ "extracted" \notin LLMErrors
    BY ExtractionAssumption DEF LLMErrors
  <2>2. Stages'
    BY <1>1, <2>1 DEF GeminiAnswers, Raise, Stages, CallStages
  <2>3. ReadSoFar'
    BY <1>1 DEF GeminiAnswers, Raise, ReadSoFar, CallStages
  <2>4. Attempts'
    BY <1>1, <2>1 DEF GeminiAnswers, Raise, Attempts, CallStages
  <2>5. QED
    BY <2>2, <2>3, <2>4
<1>2. CASE GeminiFails
  <2>1. PICK error \in LLMErrors:
          /\ errors' = Append(errors, error)
          /\ IF Retryable(error) /\ Len(errors) + 1 < MaxAttempts
             THEN stage' = "backoff" /\ UNCHANGED outcome
             ELSE Raise(error)
    BY <1>2 DEF GeminiFails
  <2>2. stage = "call" /\ UNCHANGED <<image, pages, texts, answer>> /\ outcome = None
    BY <1>2 DEF GeminiFails, Stages
  <2>3. error # None /\ error # "extracted" /\ None \notin LLMErrors /\ None # "extracted"
    BY ExtractionAssumption DEF LLMErrors
  <2>4. /\ errors' \in Seq(LLMErrors) /\ Len(errors') = Len(errors) + 1 /\ Len(errors) \in Nat
        /\ errors'[Len(errors')] = error /\ errors' # <<>>
        /\ \A i \in 1..Len(errors): errors'[i] = errors[i]
    BY <2>1, AppendProperties DEF Attempts
  <2>5. \A i \in 1..Len(errors): Retryable(errors[i])
    BY <2>2 DEF Attempts, CallStages
  <2>6. Len(errors') <= MaxAttempts /\ Len(errors) < MaxAttempts
    BY <2>2, <2>4, ExtractionAssumption DEF Attempts, CallStages
  <2>7. Stages'
    BY <2>1, <2>2, <2>3 DEF Raise, Stages, CallStages
  <2>8. ReadSoFar'
    BY <2>1, <2>2, <2>3 DEF Raise, ReadSoFar, CallStages
  <2>9. \A i \in 1..Len(errors'):
            i < Len(errors') \/ Retryable(error) => Retryable(errors'[i])
    BY <2>4, <2>5
  <2>10. ASSUME Retryable(error), Len(errors) + 1 < MaxAttempts
         PROVE  Attempts'
    BY <2>1, <2>2, <2>3, <2>4, <2>6, <2>9, <2>10 DEF Attempts, CallStages
  <2>11. ASSUME ~(Retryable(error) /\ Len(errors) + 1 < MaxAttempts)
         PROVE  Attempts'
    BY <2>1, <2>3, <2>4, <2>6, <2>9, <2>11 DEF Raise, Attempts, CallStages
  <2>12. QED
    BY <2>7, <2>8, <2>10, <2>11
<1>3. CASE Retry
  <2>1. Stages'
    BY <1>3 DEF Retry, Stages, CallStages
  <2>2. ReadSoFar'
    BY <1>3 DEF Retry, ReadSoFar, CallStages
  <2>3. Attempts'
    BY <1>3 DEF Retry, Attempts, CallStages
  <2>4. QED
    BY <2>1, <2>2, <2>3
<1>4. QED
  BY <1>1, <1>2, <1>3

-----------------------------------------------------------------------------
(* The invariant holds in every state of every extraction.                 *)
THEOREM ExtractionInvHolds == Spec => []ExtractionInv
<1>1. ExtractionInv /\ [Next]_vars => ExtractionInv'
  <2> SUFFICES ASSUME ExtractionInv, [Next]_vars PROVE ExtractionInv'
    OBVIOUS
  <2>1. CASE UNCHANGED vars
    BY <2>1 DEF vars, ExtractionInv, Stages, ReadSoFar, Attempts
  <2>2. CASE Next
    BY <2>1, <2>2, CheckSteps, WorkerSteps, JudgeSteps, CallSteps DEF Next, Done
  <2>3. QED
    BY <2>1, <2>2
<1>2. QED
  BY InitHolds, <1>1, PTL DEF Spec

(* The types of Extraction.                                                *)
THEOREM ExtractionTypeCorrect == Spec => []TypeOK
<1>1. ExtractionInv => TypeOK
  <2> SUFFICES ASSUME ExtractionInv PROVE TypeOK
    OBVIOUS
  <2>1. texts \in Documents /\ IsPrefix(texts, pages)
    BY Beginnings DEF ExtractionInv, ReadSoFar
  <2>2. QED
    BY <2>1 DEF ExtractionInv, ReadSoFar, Stages, Attempts, TypeOK, CallStages
<1>2. QED
  BY ExtractionInvHolds, <1>1, PTL

(* Gemini never gets part of a document.                                   *)
THEOREM NothingPartial == Spec => []NothingPartialIsSent
<1>1. ExtractionInv => NothingPartialIsSent
  BY DEF ExtractionInv, ReadSoFar, NothingPartialIsSent, CallStages
<1>2. QED
  BY ExtractionInvHolds, <1>1, PTL

(* A call is repeated only after an error that a retry can cure, and a     *)
(* document costs at most MaxAttempts calls.                               *)
THEOREM CallsRationed == Spec => []CallsAreRationed
<1>1. ExtractionInv => CallsAreRationed
  BY DEF ExtractionInv, Attempts, CallsAreRationed, CallStages, Retryable, Last
<1>2. QED
  BY ExtractionInvHolds, <1>1, PTL

-----------------------------------------------------------------------------
(* The judgement of a text.                                                *)

(* The separators add at least sixteen characters for each page but the    *)
(* first, of which strip() takes four at most.                             *)
LEMMA SeparatorsAdd ==
    ASSUME NEW p \in Seq(Nat)
    PROVE  /\ Chars(p) \in Nat /\ StrippedLength(p) \in Int
           /\ StrippedLength(p) >= Chars(p)
           /\ StrippedLength(p) = 0 => Len(p) < 2 /\ Chars(p) = 0
<1>1. Len(p) \in Nat /\ p \in Seq(Int) /\ \A n \in 1..Len(p): p[n] \in Nat /\ p[n] >= 0
  OBVIOUS
<1>2. Chars(p) \in Nat
  <2>1. SumOf(p) \in Int /\ SumOf(p) >= Len(p) * 0
    <3>1. 0 \in Nat
      OBVIOUS
    <3>2. QED
      BY <1>1, <3>1, SumAtLeast
  <2>2. QED
    BY <1>1, <2>1 DEF Chars
<1>3. CASE Len(p) < 2
  BY <1>2, <1>3 DEF StrippedLength
<1>4. CASE Len(p) >= 2
  <2> DEFINE s == [n \in 1..(Len(p) - 1) |-> Separator(n + 1)]
             separators == SumOf(s)
             blankEnds == (IF p[1] = 0 THEN 2 ELSE 0) + (IF p[Len(p)] = 0 THEN 2 ELSE 0)
  <2>1. s \in Seq(Int) /\ Len(s) = Len(p) - 1 /\ \A n \in 1..Len(s): s[n] >= 16
    <3>1. Len(p) - 1 \in Nat
      BY <1>1, <1>4
    <3>2. \A n \in 1..(Len(p) - 1): Separator(n + 1) \in Int /\ Separator(n + 1) >= 16
      BY DEF Separator
    <3>3. s \in [1..(Len(p) - 1) -> Int]
      BY <3>2
    <3>4. s \in Seq(Int) /\ Len(s) = Len(p) - 1
      <4> DEFINE m == Len(p) - 1
      <4> HIDE DEF m, s
      <4>1. m \in Nat /\ s \in [1..m -> Int]
        BY <3>1, <3>3 DEF m
      <4>2. s \in Seq(Int) /\ Len(s) = m
        BY <4>1
      <4>3. QED
        BY <4>2 DEF m
    <3>5. QED
      BY <3>2, <3>4
  <2> HIDE DEF s
  <2>2. separators \in Int /\ separators >= (Len(p) - 1) * 16
    <3>1. 16 \in Nat
      OBVIOUS
    <3>2. QED
      BY <2>1, <3>1, SumAtLeast
  <2>3. separators >= 16
    BY <1>1, <1>4, <2>2
  <2>4. blankEnds \in 0..4
    OBVIOUS
  <2>5. StrippedLength(p) = Chars(p) + separators - blankEnds
    BY <1>1, <1>4 DEF StrippedLength, Chars, s
  <2> HIDE DEF separators, blankEnds
  <2>6. QED
    BY <1>2, <2>2, <2>3, <2>4, <2>5
<1>5. QED
  BY <1>1, <1>3, <1>4

(* Only the judgement raises them, of the text of all the pages.           *)
LEMMA JudgedStep ==
    ASSUME ExtractionInv, RefusedForItsText, [Next]_vars
    PROVE  RefusedForItsText'
<1>1. CASE UNCHANGED <<pages, outcome>>
  BY <1>1 DEF RefusedForItsText
<1>2. CASE outcome' \notin {"UnsupportedPDF", "EmptyDocument"}
  BY <1>2 DEF RefusedForItsText
<1>3. CASE RefuseDocument
  <2>1. CASE answer = "ok"
    <3>1. texts = pages /\ pages' = pages /\ pages \in Seq(Nat)
      <4>1. texts = pages /\ pages' = pages /\ pages \in Documents
        BY <1>3, <2>1 DEF RefuseDocument, ExtractionInv, ReadSoFar
      <4>2. Len(pages) \in 0..Len(pages)
        BY <4>1 DEF ExtractionInv, ReadSoFar
      <4>3. QED
        BY <4>1, <4>2, Beginnings
    <3>2. /\ Chars(pages) \in Nat /\ StrippedLength(pages) \in Int
          /\ StrippedLength(pages) >= Chars(pages)
          /\ StrippedLength(pages) = 0 => Len(pages) < 2 /\ Chars(pages) = 0
      BY <3>1, SeparatorsAdd
    <3>3. \/ outcome' = "EmptyDocument" /\ StrippedLength(pages) = 0
          \/ outcome' = "UnsupportedPDF" /\ StrippedLength(pages) < Threshold
      BY <1>3, <2>1, <3>1 DEF RefuseDocument, Raise, Scanned
    <3>4. Threshold \in Nat
      BY ExtractionAssumption
    <3>5. QED
      BY <3>1, <3>2, <3>3, <3>4 DEF RefusedForItsText
  <2>2. CASE answer # "ok"
    BY <1>2, <1>3, <2>2 DEF RefuseDocument, Raise
  <2>3. QED
    BY <2>1, <2>2
<1>4. CASE RefuseFile \/ WorkerCrashes \/ WorkerTimesOut \/ GeminiAnswers
  BY <1>2, <1>4 DEF RefuseFile, WorkerCrashes, WorkerTimesOut, GeminiAnswers, Raise
<1>5. CASE GeminiFails
  <2>1. outcome' = outcome \/ outcome' \in LLMErrors
    BY <1>5 DEF GeminiFails, Raise
  <2>2. QED
    BY <1>1, <1>2, <1>5, <2>1 DEF GeminiFails, LLMErrors
<1>6. CASE \/ UNCHANGED vars \/ Done \/ SendImage \/ StartWorker
           \/ RefusePageCount \/ ReadPage \/ StopAtCharLimit \/ FinishParsing
           \/ ParserFails \/ SendText \/ Retry
  BY <1>1, <1>6 DEF vars, Done, SendImage, StartWorker, RefusePageCount, ReadPage,
     StopAtCharLimit, FinishParsing, ParserFails, SendText, Retry
<1>7. QED
  BY <1>3, <1>4, <1>5, <1>6 DEF Next

(* No document with a readable text is refused for want of one, and the    *)
(* separators keep every document of two pages from being called empty.    *)
THEOREM ReadableTextIsNoScan == Spec => []RefusedForItsText
<1>1. Init => RefusedForItsText
  BY ExtractionAssumption DEF Init, RefusedForItsText, OCRErrors
<1>2. ExtractionInv /\ RefusedForItsText /\ [Next]_vars => RefusedForItsText'
  BY JudgedStep
<1>3. QED
  BY ExtractionInvHolds, <1>1, <1>2, PTL DEF Spec

-----------------------------------------------------------------------------
(* An extraction advances.                                                 *)

Measured ==
    /\ StepsLeft \in Nat
    /\ stage = "check" => StepsLeft = 2 * MaxAttempts + Len(pages) + 3
    /\ stage = "parse" =>
           StepsLeft = 2 * MaxAttempts + (Len(pages) - Len(texts)) + 2
    /\ stage = "judge" => StepsLeft = 2 * MaxAttempts + 1
    /\ stage = "call" => StepsLeft = 2 * (MaxAttempts - Len(errors))
    /\ stage = "backoff" => StepsLeft = 2 * (MaxAttempts - Len(errors)) + 1
    /\ stage = "done" => StepsLeft = 0
    /\ stage # "done" => StepsLeft > 0

(* The steps left at each stage.                                           *)
LEMMA StepsAreMeasured ==
    ASSUME ExtractionInv
    PROVE  Measured
<1>1. /\ MaxAttempts \in Nat /\ Len(errors) \in Nat /\ Len(errors) <= MaxAttempts
      /\ Len(texts) \in 0..Len(pages) /\ Len(pages) \in Nat
      /\ stage \in {"check", "parse", "judge"} => Len(errors) = 0
      /\ stage \in CallStages => Len(errors) < MaxAttempts
  <2>1. errors \in Seq(LLMErrors) /\ Len(errors) <= MaxAttempts /\ MaxAttempts \in Nat
    BY ExtractionAssumption DEF ExtractionInv, Attempts
  <2>2. pages \in Documents /\ Len(texts) \in 0..Len(pages)
    BY DEF ExtractionInv, ReadSoFar
  <2>3. QED
    BY <2>1, <2>2, Beginnings DEF ExtractionInv, Attempts
<1>2. stage \in {"check", "parse", "judge", "done"} \cup CallStages
  BY DEF ExtractionInv, Stages
<1>3. QED
  BY <1>1, <1>2 DEF Measured, StepsLeft, CallStages

(* Each step but standing still takes one.                                 *)
LEMMA StepsAdvance ==
    ASSUME ExtractionInv, Measured, Measured', Next, vars' # vars
    PROVE  StepsLeft' < StepsLeft
<1>1. /\ MaxAttempts \in Nat /\ Len(errors) \in Nat /\ Len(texts) \in Nat
      /\ Len(pages) \in Nat /\ Len(texts) <= Len(pages)
  <2>1. errors \in Seq(LLMErrors) /\ MaxAttempts \in Nat
    BY ExtractionAssumption DEF ExtractionInv, Attempts
  <2>2. pages \in Documents /\ Len(texts) \in 0..Len(pages)
    BY DEF ExtractionInv, ReadSoFar
  <2>3. QED
    BY <2>1, <2>2, Beginnings
<1>2. CASE stage' = "done" /\ stage # "done"
  BY <1>2 DEF Measured
<1>3. CASE RefuseFile \/ WorkerCrashes \/ WorkerTimesOut \/ RefuseDocument \/ GeminiAnswers
  BY <1>2, <1>3 DEF RefuseFile, WorkerCrashes, WorkerTimesOut, RefuseDocument,
     GeminiAnswers, Raise
<1>4. CASE SendImage
  <2>1. stage = "check" /\ stage' = "call" /\ Len(errors') = 0 /\ UNCHANGED pages
    BY <1>4 DEF SendImage, ExtractionInv, Attempts
  <2>2. QED
    BY <1>1, <2>1 DEF Measured
<1>5. CASE StartWorker
  <2>1. stage = "check" /\ stage' = "parse" /\ UNCHANGED <<pages, texts>>
    BY <1>5 DEF StartWorker
  <2>2. QED
    BY <1>1, <2>1 DEF Measured
<1>6. CASE RefusePageCount \/ StopAtCharLimit \/ FinishParsing \/ ParserFails
  <2>1. stage = "parse" /\ stage' = "judge"
    BY <1>6 DEF RefusePageCount, StopAtCharLimit, FinishParsing, ParserFails, Answer
  <2>2. QED
    BY <1>1, <2>1 DEF Measured
<1>7. CASE ReadPage
  <2>1. /\ stage = "parse" /\ stage' = "parse" /\ UNCHANGED pages
        /\ texts' = SubSeq(pages, 1, Len(texts) + 1) /\ Len(texts) + 1 \in 0..Len(pages)
    BY <1>1, <1>7 DEF ReadPage
  <2>2. Len(texts') = Len(texts) + 1
    BY <2>1, Beginnings DEF ExtractionInv, ReadSoFar
  <2>3. stage = "parse" /\ stage' = "parse" /\ Len(pages') = Len(pages)
    BY <2>1
  <2>4. StepsLeft' = StepsLeft - 1
    BY <1>1, <2>2, <2>3 DEF Measured
  <2>5. QED
    BY <2>4 DEF Measured
<1>8. CASE SendText
  <2>1. stage = "judge" /\ stage' = "call" /\ Len(errors') = 0
    BY <1>8 DEF SendText, ExtractionInv, Attempts
  <2>2. QED
    BY <1>1, <2>1 DEF Measured
<1>9. CASE GeminiFails
  <2>1. PICK error \in LLMErrors:
          /\ errors' = Append(errors, error)
          /\ stage' = "backoff" \/ stage' = "done"
    BY <1>9 DEF GeminiFails, Raise
  <2>2. Len(errors') = Len(errors) + 1 /\ stage = "call"
    BY <1>9, <2>1, AppendProperties DEF GeminiFails, ExtractionInv, Attempts
  <2>3. QED
    BY <1>1, <1>2, <2>1, <2>2 DEF Measured
<1>10. CASE Retry
  <2>1. stage = "backoff" /\ stage' = "call" /\ UNCHANGED errors
    BY <1>10 DEF Retry
  <2>2. QED
    BY <1>1, <2>1 DEF Measured
<1>11. QED
  BY <1>3, <1>4, <1>5, <1>6, <1>7, <1>8, <1>9, <1>10 DEF Next, Done

(* An extraction takes a bounded number of steps, whatever the worker and  *)
(* the provider do: what is left to ExtractionEnds is that it takes them.  *)
THEOREM ExtractionIsBounded == Spec => [](StepsLeft \in Nat) /\ ExtractionAdvances
<1>1. ExtractionInv => Measured /\ StepsLeft \in Nat
  BY StepsAreMeasured DEF Measured
<1>2. ExtractionInv /\ Measured /\ Measured' /\ [Next]_vars => [StepsLeft' < StepsLeft]_vars
  BY StepsAdvance
<1>3. QED
  BY <1>1, <1>2, ExtractionInvHolds, PTL DEF Spec, ExtractionAdvances
=============================================================================
