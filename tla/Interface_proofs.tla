------------------------- MODULE Interface_proofs -------------------------
(***************************************************************************)
(* The safety of Interface, for every number of files, records, actions    *)
(* and faults, and every filter.  Most actions of the user touch neither a *)
(* script nor a request nor a record (Quiet), so each part of the          *)
(* invariant is about the few that do.  The part behind the report follows *)
(* a request from its sending to its answer: it is on the wire, or nobody  *)
(* waits for it and the report says so, and while it is unanswered no      *)
(* record comes from it.  Two more results follow from the invariant: the  *)
(* records take the steps of RecordLifecycle, and a script gets shorter.   *)
(***************************************************************************)
EXTENDS Interface, FiniteSetTheorems, SequenceTheorems, TLAPS

NewPost == [op |-> "POST", origin |-> [launch |-> launches, place |-> NextPlace],
            id |-> None]

(* A request is on the wire only while its script runs; what the reply     *)
(* claims is so.                                                           *)
WireInv ==
    /\ doing = "idle" => wire = None
    /\ doing # "batch" => outcomes = <<>>
    /\ wire # None =>
        /\ doing = "batch" =>
            /\ wire.request = NewPost
            /\ NextPlace <= Len(batch) /\ ~Stopped /\ NextPlace <= MaxFiles
            /\ wire.reply \in {None} \cup {Refusal(c): c \in Causes} \cup {Created(i): i \in Ids}
            /\ \A i \in Ids: wire.reply = Created(i) => source[i] = wire.request.origin
        /\ doing \in {"delete", "erase"} =>
            /\ wire.request.op = "DELETE" /\ wire.request.id \in Ids
            /\ doing = "delete" => wire.request.id \in todo
            /\ wire.reply \in {None, NotFound, Erased} \cup {Refusal(c): c \in Causes}
            /\ wire.reply \in {NotFound, Erased} => record[wire.request.id] = "erased"

(* Nobody knows what became of the file n, and nothing was sent after it.  *)
GaveUp(report, n) ==
    /\ n \in DOMAIN report
    /\ report[n].kind = "error" /\ report[n].error = "Unreachable"
    /\ \A m \in DOMAIN report: m > n => report[m].kind = "not_run"

Named(report, launch) ==
    \A n \in DOMAIN report: report[n].kind = "ok" =>
        report[n].id \in Ids /\ source[report[n].id] = [launch |-> launch, place |-> n]

NamesOrGaveUp(report, i) ==
    LET n == source[i].place
    IN \/ n \in DOMAIN report /\ report[n].kind = "ok" /\ report[n].id = i
       \/ GaveUp(report, n)

(* The requests nobody waits for.                                          *)
OrphanInv ==
    \A q \in orphans:
        \/ q.op = "DELETE" /\ q.id \in Ids
        \/ /\ q.op = "POST" /\ q.id = None
           /\ q.origin \in Origin /\ q.origin.launch <= launches
           /\ \A i \in Ids: source[i] # q.origin
           /\ q.origin.launch = reported => GaveUp(results, q.origin.place)
           /\ (doing = "batch" /\ q.origin.launch = launches) =>
                  GaveUp(outcomes, q.origin.place)

(* The records of a launch: in its report, in the report in progress, or   *)
(* in the reply that is on its way.                                        *)
AccountInv ==
    /\ \A i \in Ids: record[i] = "absent" => source[i] = None
    /\ \A i \in Ids: source[i] # None => source[i].launch <= launches
    /\ \A i, j \in Ids: (source[i] # None /\ source[i] = source[j]) => i = j
    /\ reported = 0 => results = <<>>
    /\ doing = "batch" => reported < launches
    /\ Named(results, reported)
    /\ \A i \in Ids: (source[i] # None /\ source[i].launch = reported) =>
           NamesOrGaveUp(results, i)
    /\ doing = "batch" =>
        /\ Named(outcomes, launches)
        /\ \A i \in Ids: (source[i] # None /\ source[i].launch = launches) =>
               \/ NamesOrGaveUp(outcomes, i)
               \/ wire # None /\ wire.reply = Created(i) /\ source[i].place = NextPlace

(* Every error has a name, and the general ones stop the batch.            *)
StopsInv ==
    /\ BatchStopsForACause
    /\ \A n \in DOMAIN outcomes: outcomes[n].kind = "error" => outcomes[n].error \in Errors

(* DeletionIsHonest, and that an id is left out of the report only once    *)
(* the script has stopped.                                                 *)
DeletionInv == DeletionIsHonest /\ (todo # {} => tally.left = 0)

(* A file prepared for a selection, whatever is on screen.                 *)
ReadyInv ==
    (ready # None /\ ready.request.ids # None) =>
        ready.request.ids # {} /\ ready.content \subseteq ready.request.ids

(* A page that shows an invoice has one, and the batch of deletions runs   *)
(* on the page it was started from.                                        *)
PageInv ==
    /\ page = "invoice" => current \in Ids
    /\ doing = "delete" => page = "history"

InterfaceInv ==
    /\ TypeOK /\ PageInv /\ WireInv /\ OrphanInv /\ AccountInv
    /\ StopsInv /\ DeletionInv /\ ReadyInv

-----------------------------------------------------------------------------
(* Actions of the user, outside scripts, that touch no request, no record  *)
(* and no report (or close the report).                                    *)
Quiet ==
    /\ doing = "idle"
    /\ UNCHANGED <<server, script, orphans, launches>>
    /\ \/ UNCHANGED <<results, reported>>
       \/ results' = <<>> /\ reported' = 0

(* The statuses and what the interface makes of them.                      *)
LEMMA Statuses ==
    /\ \A c \in DOMAIN HttpStatus: HttpStatus[c] \in Nat /\ HttpStatus[c] # 201
    /\ \A e \in Errors: StopsTheBatch(e) <=> CauseToStop(e)
    /\ "Unreachable" \in Errors /\ DOMAIN HttpStatus \subseteq Errors
<1>1. DOMAIN HttpStatus = {"Unauthorized", "UploadTooLarge", "InvalidUpload",
          "UploadRateLimited", "ServerBusy", "APIConfig", "PDFTooLarge",
          "PDFCorrupted", "EmptyDocument", "UnsupportedPDF", "DailyQuotaExceeded",
          "RateLimit", "LLMAuth", "ProviderTimeout", "ExtractionFailed", "Storage",
          "UnreadableAnswer", "Unexpected"}
  BY DEF HttpStatus
<1>2. \A c \in DOMAIN HttpStatus: HttpStatus[c] \in Nat /\ HttpStatus[c] # 201
  BY <1>1 DEF HttpStatus
<1>3. ASSUME NEW e \in DOMAIN HttpStatus
      PROVE  StopsTheBatch(e) <=> CauseToStop(e)
  BY <1>1 DEF HttpStatus, StopsTheBatch, CauseToStop, AboutTheDocument, TakenForGeneral
<1>4. StopsTheBatch("Unreachable") <=> CauseToStop("Unreachable")
  BY DEF StopsTheBatch, CauseToStop, AboutTheDocument
<1>5. QED
  BY <1>2, <1>3, <1>4 DEF Errors

(* Every step is quiet, or one of these.                                   *)
LEMMA StepsOfScripts ==
    ASSUME [Next]_vars
    PROVE  \/ Quiet \/ UNCHANGED vars
           \/ Launch \/ (\E filter \in Filters: Confirm(filter)) \/ EraseCurrent
           \/ Interrupt \/ LoseSession
           \/ ScriptStep
           \/ ServerAnswers \/ ServerFinishesOrphan
           \/ \E i \in Ids: RecordChanges(i)
<1> USE DEF Quiet, OnPage, server, script, uploadKeys, exportKeys
<1>1. ASSUME NEW p, Goto(p)
      PROVE  Quiet
  BY <1>1 DEF Goto
<1>2. ASSUME NEW files, Choose(files)
      PROVE  Quiet
  BY <1>2 DEF Choose
<1>3. ASSUME NEW n, View(n)
      PROVE  Quiet
  BY <1>3 DEF View
<1>4. CASE ClearResults
  BY <1>4 DEF ClearResults
<1>5. ASSUME NEW i, Open(i)
      PROVE  Quiet
  BY <1>5 DEF Open
<1>6. ASSUME NEW selected, ExportSelection(selected) \/ AskDelete(selected)
      PROVE  Quiet
  BY <1>6 DEF ExportSelection, AskDelete
<1>7. ASSUME NEW filter, Cancel(filter)
      PROVE  Quiet
  BY <1>7 DEF Cancel, Asked
<1>8. CASE Redraw
  BY <1>8 DEF Redraw
<1>9. CASE DropSelection \/ Prepare \/ PrepareFails \/ Download
  BY <1>9 DEF DropSelection, Prepare, PrepareFails, Download
<1>10. ASSUME NEW choice, ChooseExport(choice)
       PROVE  Quiet
  BY <1>10 DEF ChooseExport
<1>11. QED
  BY <1>1, <1>2, <1>3, <1>4, <1>5, <1>6, <1>7, <1>8, <1>9, <1>10 DEF Next, UserStep

-----------------------------------------------------------------------------
(* The types.                                                              *)

(* What a request may be answered.                                         *)
LEMMA AnswerTypes ==
    /\ Replies \subseteq Reply /\ Heard \subseteq Reply
    /\ \A c \in Causes: Refusal(c).id = None /\ Refusal(c).error = c /\ c \in Errors
    /\ None \notin Ids /\ None \notin Errors
<1>1. \A c \in Causes: Refusal(c) \in Reply
  BY Statuses, InterfaceAssumption DEF Refusal, Reply
<1>2. \A i \in Ids: Created(i) \in Reply
  BY DEF Created, Reply
<1>3. NotFound \in Reply /\ Erased \in Reply /\ Unreachable \in Reply
  BY Statuses DEF NotFound, Erased, Unreachable, Reply
<1>4. Replies \subseteq Reply /\ Heard \subseteq Reply
  BY <1>1, <1>2, <1>3 DEF Replies, Heard
<1>5. None \notin Ids /\ None \notin Errors
  BY InterfaceAssumption, NoneAssumption DEF Ids
<1>6. QED
  BY <1>4, <1>5, Statuses, InterfaceAssumption DEF Refusal

(* Sets of ids are finite.                                                 *)
LEMMA IdSets ==
    ASSUME NEW ids \in SUBSET Ids
    PROVE  /\ IsFiniteSet(ids) /\ Cardinality(ids) \in Nat
           /\ \A i \in ids: Cardinality(ids \ {i}) = Cardinality(ids) - 1
           /\ \A i \in Ids \ ids: Cardinality(ids \cup {i}) = Cardinality(ids) + 1
           /\ \A i \in ids: Cardinality(ids) >= 1
           /\ Cardinality({}) = 0
<1>1. IsFiniteSet(Ids)
  BY InterfaceAssumption, FS_Interval DEF Ids
<1>2. IsFiniteSet(ids) /\ Cardinality(ids) \in Nat
  BY <1>1, FS_Subset, FS_CardinalityType
<1>3. ASSUME NEW i \in ids
      PROVE  Cardinality(ids \ {i}) = Cardinality(ids) - 1
  BY <1>2, FS_RemoveElement
<1>4. ASSUME NEW i \in Ids \ ids
      PROVE  Cardinality(ids \cup {i}) = Cardinality(ids) + 1
  BY <1>2, FS_AddElement
<1>5. ASSUME NEW i \in ids
      PROVE  Cardinality(ids) >= 1
  <2>1. Cardinality(ids \ {i}) \in Nat
    BY <1>2, FS_RemoveElement, FS_CardinalityType
  <2>2. QED
    BY <1>2, <1>3, <2>1
<1>6. QED
  BY <1>2, <1>3, <1>4, <1>5, FS_EmptySet

(* A page that reads an invoice.                                           *)
LEMMA DrawTypes ==
    ASSUME NEW i \in Ids \cup {None}, DrawResult(i)
    PROVE  page' \in {"result", "invoice"} /\ current' \in Ids \cup {None}
BY DEF DrawResult

(* The end of a request on the client's side.                              *)
LEMMA HearTypes ==
    ASSUME TypeOK, NEW reply \in Heard, Hear(reply)
    PROVE  /\ wire # None /\ wire \in [request: Request, reply: Reply \cup {None}]
           /\ wire' = None /\ orphans' \subseteq Request
           /\ reply \in Reply
<1>1. wire # None /\ wire \in [request: Request, reply: Reply \cup {None}]
  BY DEF Hear, TypeOK
<1>2. QED
  BY <1>1, AnswerTypes DEF Hear, TypeOK

(* Giving a request up.                                                    *)
LEMMA AbandonTypes ==
    ASSUME TypeOK,
           orphans' = orphans \cup
               (IF wire # None /\ wire.reply = None THEN {wire.request} ELSE {})
    PROVE  orphans' \subseteq Request
<1>1. wire # None => wire \in [request: Request, reply: Reply \cup {None}]
  BY DEF TypeOK
<1>2. QED
  BY <1>1 DEF TypeOK

(* The server.                                                             *)
LEMMA ServerTypes ==
    ASSUME TypeOK, NEW request \in Request, NEW reply,
           \/ Posts(request, reply)
           \/ Deletes(request, reply) /\ request.id \in Ids
    PROVE  /\ record' \in [Ids -> {"absent", "live", "sealed", "expired", "erased"}]
           /\ source' \in [Ids -> Origin \cup {None}]
<1>1. request.origin \in Origin \cup {None}
  BY DEF Request
<1>2. CASE Posts(request, reply)
  BY <1>1, <1>2 DEF Posts, server, TypeOK
<1>3. CASE Deletes(request, reply) /\ request.id \in Ids
  BY <1>3 DEF Deletes, server, TypeOK
<1>4. QED
  BY <1>2, <1>3

(* What the user does outside scripts.                                     *)
LEMMA UserTypes ==
    ASSUME TypeOK, UserStep
    PROVE  TypeOK'
<1> USE DEF Click, OnPage, server, script, uploadKeys, exportKeys
<1>1. NoChoice \in [scope: {"selection", "filters"}, kind: {"invoices", "lines"},
                    filter: Filters]
  BY InterfaceAssumption DEF NoChoice
<1>2. clicks < MaxClicks => clicks + 1 \in 0..MaxClicks
  BY InterfaceAssumption DEF TypeOK
<1>3. ASSUME NEW p \in {"upload", "result", "history", "export"}, Goto(p)
      PROVE  TypeOK'
  <2>1. page' \in {"upload", "result", "invoice", "history", "export"}
        /\ current' \in Ids \cup {None}
    BY <1>3, DrawTypes DEF Goto, TypeOK
  <2>2. QED
    BY <1>1, <1>2, <1>3, <2>1 DEF Goto, TypeOK
<1>4. CASE Interrupt
  <2>1. orphans' \subseteq Request
    BY <1>4, AbandonTypes DEF Interrupt
  <2>2. NoReport \in Report /\ <<>> \in Seq(Outcome)
    BY DEF NoReport, Report
  <2>3. QED
    BY <1>2, <1>4, <2>1, <2>2 DEF Interrupt, EndScript, TypeOK
<1>5. ASSUME NEW files \in Batches, Choose(files)
      PROVE  TypeOK'
  BY <1>2, <1>5 DEF Choose, TypeOK
<1>6. CASE Launch
  BY <1>2, <1>6 DEF Launch, TypeOK
<1>7. CASE ClearResults
  BY <1>2, <1>7 DEF ClearResults, TypeOK
<1>8. ASSUME NEW n \in DOMAIN results, View(n)
      PROVE  TypeOK'
  <2>1. results[n].id \in Ids \cup {None}
    <3>1. results \in Seq(Outcome) /\ n \in 1..Len(results)
      BY LenProperties DEF TypeOK
    <3>2. results[n] \in Outcome
      BY <3>1
    <3>3. QED
      BY <3>2 DEF Outcome
  <2>2. page' \in {"result", "invoice"} /\ current' \in Ids \cup {None}
    BY <1>8, <2>1, DrawTypes DEF View
  <2>3. QED
    BY <1>2, <1>8, <2>2 DEF View, TypeOK
<1>9. ASSUME NEW filter \in Filters, NEW i \in Listed(filter), Open(i)
      PROVE  TypeOK'
  <2>1. i \in Ids
    BY <1>9 DEF Listed, Visible
  <2>2. page' \in {"result", "invoice"} /\ current' \in Ids \cup {None}
    BY <1>9, <2>1, DrawTypes DEF Open
  <2>3. QED
    BY <1>2, <1>9, <2>2 DEF Open, TypeOK
<1>10. ASSUME NEW filter \in Filters, NEW selected \in SUBSET Listed(filter),
              ExportSelection(selected) \/ AskDelete(selected)
       PROVE  TypeOK'
  <2>1. selected \subseteq Ids
    BY <1>10 DEF Listed, Visible
  <2>2. CASE ExportSelection(selected)
    BY <1>2, <2>1, <2>2 DEF ExportSelection, TypeOK
  <2>3. CASE AskDelete(selected)
    BY <1>2, <2>1, <2>3 DEF AskDelete, TypeOK
  <2>4. QED
    BY <1>10, <2>2, <2>3
<1>11. ASSUME NEW filter \in Filters, Confirm(filter) \/ Cancel(filter)
       PROVE  TypeOK'
  <2>1. NoReport \in Report
    BY DEF NoReport, Report
  <2>2. CASE Confirm(filter)
    BY <1>2, <2>1, <2>2 DEF Confirm, TypeOK
  <2>3. CASE Cancel(filter)
    BY <1>2, <2>3 DEF Cancel, TypeOK
  <2>4. QED
    BY <1>11, <2>2, <2>3
<1>12. CASE Redraw
  <2>1. page' \in {"result", "invoice"} /\ current' \in Ids \cup {None}
    BY <1>12, DrawTypes DEF Redraw, TypeOK
  <2>2. QED
    BY <1>2, <1>12, <2>1 DEF Redraw, TypeOK
<1>13. CASE EraseCurrent
  <2>1. [op |-> "DELETE", origin |-> None, id |-> current] \in Request
    BY DEF Request, TypeOK
  <2>2. wire' \in [request: Request, reply: Reply \cup {None}] \cup {None}
    BY <1>13, <2>1 DEF EraseCurrent, Send
  <2>3. QED
    BY <1>2, <1>13, <2>2 DEF EraseCurrent, TypeOK
<1>14. ASSUME NEW choice \in [scope: {"selection", "filters"},
                              kind: {"invoices", "lines"}, filter: Filters],
              ChooseExport(choice)
       PROVE  TypeOK'
  BY <1>2, <1>14 DEF ChooseExport, TypeOK
<1>15. CASE Prepare
  <2>1. OnScreen \in ExportRequest
    BY DEF OnScreen, ExportRequest, TypeOK
  <2>2. InFile(OnScreen) \subseteq Ids
    BY DEF InFile, Selected, Listed, Visible
  <2>3. ready' \in [request: ExportRequest, content: SUBSET Ids] \cup {None}
    BY <1>15, <2>1, <2>2 DEF Prepare
  <2>4. QED
    BY <1>2, <1>15, <2>3 DEF Prepare, TypeOK
<1>16. CASE DropSelection \/ PrepareFails \/ Download
  BY <1>2, <1>16 DEF DropSelection, PrepareFails, Download, TypeOK
<1>17. QED
  BY <1>3, <1>4, <1>5, <1>6, <1>7, <1>8, <1>9, <1>10, <1>11, <1>12, <1>13, <1>14,
     <1>15, <1>16 DEF UserStep

(* What the scripts do.                                                    *)
LEMMA ScriptTypes ==
    ASSUME TypeOK, WireInv, AccountInv, ScriptStep
    PROVE  TypeOK'
<1> USE DEF server, uploadKeys, exportKeys
<1>1. CASE PassOver
  <2>1. outcomes' \in Seq(Outcome)
    BY <1>1 DEF PassOver, Outcome, TypeOK
  <2>2. QED
    BY <1>1, <2>1 DEF PassOver, TypeOK
<1>2. CASE SendFile
  <2>1. launches \in Nat \ {0} /\ NextPlace \in Nat \ {0}
    BY <1>2, LenProperties DEF SendFile, NextPlace, AccountInv, TypeOK
  <2>2. wire' \in [request: Request, reply: Reply \cup {None}] \cup {None}
    BY <1>2, <2>1 DEF SendFile, Send, Request, Origin
  <2>3. QED
    BY <1>2, <2>2 DEF SendFile, TypeOK
<1>3. CASE FileAnswered
  <2>1. PICK reply \in Heard:
          /\ Hear(reply)
          /\ outcomes' = Append(outcomes,
                 [kind |-> IF reply.status = 201 THEN "ok" ELSE "error",
                  id |-> reply.id, error |-> reply.error])
    BY <1>3 DEF FileAnswered
  <2>2. wire' = None /\ orphans' \subseteq Request /\ reply \in Reply
    BY <2>1, HearTypes
  <2>3. outcomes' \in Seq(Outcome)
    BY <2>1, <2>2 DEF Outcome, Reply, TypeOK
  <2>4. QED
    BY <1>3, <2>2, <2>3 DEF FileAnswered, TypeOK
<1>4. CASE FinishBatch
  <2>1. NoReport \in Report /\ <<>> \in Seq(Outcome)
    BY DEF NoReport, Report
  <2>2. QED
    BY <1>4, <2>1 DEF FinishBatch, EndScript, TypeOK
<1>5. CASE SendDeletion
  <2>1. wire' \in [request: Request, reply: Reply \cup {None}] \cup {None}
    BY <1>5 DEF SendDeletion, Send, Request, TypeOK
  <2>2. QED
    BY <1>5, <2>1 DEF SendDeletion, TypeOK
<1>6. CASE DeletionAnswered
  <2> DEFINE i == wire.request.id
  <2>1. PICK reply \in Heard:
          /\ Hear(reply)
          /\ \/ reply = Erased /\ Done(i) /\ tally' = [tally EXCEPT !.deleted = @ \cup {i}]
             \/ reply = NotFound /\ Done(i) /\ tally' = [tally EXCEPT !.gone = @ \cup {i}]
             \/ reply \notin {Erased, NotFound} /\ NotDone(i, reply)
    BY <1>6 DEF DeletionAnswered
  <2>2. wire # None /\ wire' = None /\ orphans' \subseteq Request
    BY <2>1, HearTypes
  <2>3. i \in todo /\ i \in Ids /\ todo \subseteq Ids
    BY <1>6, <2>2 DEF DeletionAnswered, WireInv, TypeOK
  <2> HIDE DEF i
  <2>4. current' \in Ids \cup {None} /\ todo' \in SUBSET Ids
    BY <2>1, <2>3 DEF Done, NotDone, TypeOK
  <2>5. NotDone(i, reply) => Cardinality(todo) - Cardinality(todo') - 1 \in Nat
    BY <2>3, IdSets DEF NotDone
  <2>6. tally' \in Report
    <3>1. tally \in Report
      BY DEF TypeOK
    <3>2. CASE tally' = [tally EXCEPT !.deleted = @ \cup {i}]
      BY <2>3, <3>1, <3>2 DEF Report
    <3>3. CASE tally' = [tally EXCEPT !.gone = @ \cup {i}]
      BY <2>3, <3>1, <3>3 DEF Report
    <3>4. CASE NotDone(i, reply)
      BY <2>3, <2>5, <3>1, <3>4 DEF NotDone, Report
    <3>5. QED
      BY <2>1, <3>2, <3>3, <3>4
  <2>7. QED
    BY <1>6, <2>2, <2>4, <2>6 DEF DeletionAnswered, TypeOK
<1>7. CASE FinishDeletion
  <2>1. NoReport \in Report /\ <<>> \in Seq(Outcome)
    BY DEF NoReport, Report
  <2>2. QED
    BY <1>7, <2>1 DEF FinishDeletion, EndScript, TypeOK
<1>8. CASE EraseAnswered
  <2>1. PICK reply \in Heard: Hear(reply)
    BY <1>8 DEF EraseAnswered
  <2>2. wire' = None /\ orphans' \subseteq Request
    BY <2>1, HearTypes
  <2>3. page' \in {"upload", "result", "invoice", "history", "export"}
        /\ current' \in Ids \cup {None}
    BY <1>8 DEF EraseAnswered, TypeOK
  <2>4. NoReport \in Report /\ <<>> \in Seq(Outcome)
    BY DEF NoReport, Report
  <2>5. QED
    BY <1>8, <2>2, <2>3, <2>4 DEF EraseAnswered, EndScript, TypeOK
<1>9. QED
  BY <1>1, <1>2, <1>3, <1>4, <1>5, <1>6, <1>7, <1>8 DEF ScriptStep

(* The types hold after every step.                                        *)
LEMMA TypeStep ==
    ASSUME TypeOK, WireInv, OrphanInv, AccountInv, [Next]_vars
    PROVE  TypeOK'
<1> USE DEF server, script, uploadKeys, exportKeys
<1>1. CASE ServerAnswers
  <2>1. wire # None /\ wire \in [request: Request, reply: Reply \cup {None}]
        /\ wire.request \in Request
    BY <1>1 DEF ServerAnswers, TypeOK
  <2>2. PICK reply \in Replies:
          /\ Posts(wire.request, reply) \/ Deletes(wire.request, reply)
          /\ wire' = [wire EXCEPT !.reply = reply]
    BY <1>1 DEF ServerAnswers
  <2>3. Deletes(wire.request, reply) => wire.request.id \in Ids
    BY <2>1 DEF Deletes, WireInv, NewPost, TypeOK
  <2>4. wire' \in [request: Request, reply: Reply \cup {None}]
    BY <2>1, <2>2, AnswerTypes
  <2>5. /\ record' \in [Ids -> {"absent", "live", "sealed", "expired", "erased"}]
        /\ source' \in [Ids -> Origin \cup {None}]
    BY <2>1, <2>2, <2>3, ServerTypes
  <2>6. QED
    BY <1>1, <2>4, <2>5 DEF ServerAnswers, TypeOK
<1>2. CASE ServerFinishesOrphan
  <2>1. PICK request \in orphans:
          /\ \E reply \in Replies: Posts(request, reply) \/ Deletes(request, reply)
          /\ orphans' = orphans \ {request}
    BY <1>2 DEF ServerFinishesOrphan
  <2>2. request \in Request /\ (request.op = "DELETE" => request.id \in Ids)
    BY DEF OrphanInv, TypeOK
  <2>3. /\ record' \in [Ids -> {"absent", "live", "sealed", "expired", "erased"}]
        /\ source' \in [Ids -> Origin \cup {None}]
    BY <2>1, <2>2, ServerTypes DEF Deletes
  <2>4. QED
    BY <1>2, <2>1, <2>3 DEF ServerFinishesOrphan, TypeOK
<1>3. ASSUME NEW i \in Ids, RecordChanges(i)
      PROVE  TypeOK'
  <2>1. record' \in [Ids -> {"absent", "live", "sealed", "expired", "erased"}]
    BY <1>3 DEF RecordChanges, TypeOK
  <2>2. faults' \in 0..MaxFaults
    BY <1>3, InterfaceAssumption DEF RecordChanges, Fault, TypeOK
  <2>3. QED
    BY <1>3, <2>1, <2>2 DEF RecordChanges, TypeOK
<1>4. CASE LoseSession
  <2>1. orphans' \subseteq Request
    BY <1>4, AbandonTypes DEF LoseSession
  <2>2. NoReport \in Report /\ <<>> \in Seq(Outcome)
    BY DEF NoReport, Report
  <2>3. NoChoice \in [scope: {"selection", "filters"}, kind: {"invoices", "lines"},
                      filter: Filters]
    BY InterfaceAssumption DEF NoChoice
  <2>4. faults' \in 0..MaxFaults
    BY <1>4, InterfaceAssumption DEF LoseSession, Fault, TypeOK
  <2>5. QED
    BY <1>4, <2>1, <2>2, <2>3, <2>4 DEF LoseSession, EndScript, TypeOK
<1>5. CASE UNCHANGED vars
  BY <1>5 DEF vars, TypeOK
<1>6. QED
  BY <1>1, <1>2, <1>3, <1>4, <1>5, UserTypes, ScriptTypes DEF Next

-----------------------------------------------------------------------------
(* The page and the prepared file.                                         *)

(* What DrawResult draws it has.                                           *)
LEMMA DrawShows ==
    ASSUME NEW i \in Ids \cup {None}, DrawResult(i)
    PROVE  page' = "invoice" => current' \in Ids
BY DEF DrawResult

(* Only a read can put an invoice on screen.                               *)
LEMMA PageStep ==
    ASSUME TypeOK, PageInv, [Next]_vars
    PROVE  PageInv'
<1> USE DEF PageInv, OnPage, server, script, uploadKeys, exportKeys
<1>1. ASSUME NEW i \in Ids \cup {None}, doing = "idle", doing' = "idle", DrawResult(i)
      PROVE  PageInv'
  BY <1>1, DrawShows
<1>2. ASSUME NEW p \in {"upload", "result", "history", "export"}, Goto(p)
      PROVE  PageInv'
  BY <1>1, <1>2 DEF Goto, TypeOK
<1>3. ASSUME NEW n \in DOMAIN results, View(n)
      PROVE  PageInv'
  <2>1. results[n].id \in Ids \cup {None}
    <3>1. results \in Seq(Outcome) /\ n \in 1..Len(results)
      BY LenProperties DEF TypeOK
    <3>2. results[n] \in Outcome
      BY <3>1
    <3>3. QED
      BY <3>2 DEF Outcome
  <2>2. QED
    BY <1>1, <1>3, <2>1 DEF View
<1>4. ASSUME NEW filter \in Filters, NEW i \in Listed(filter), Open(i)
      PROVE  PageInv'
  BY <1>1, <1>4 DEF Open, Listed, Visible
<1>5. CASE Redraw
  BY <1>1, <1>5 DEF Redraw, TypeOK
<1>6. CASE Interrupt \/ Launch \/ ClearResults \/ (\E files \in Batches: Choose(files))
  BY <1>6 DEF Interrupt, EndScript, Launch, ClearResults, Choose
<1>7. ASSUME NEW filter \in Filters,
             \/ \E selected \in SUBSET Listed(filter):
                    ExportSelection(selected) \/ AskDelete(selected)
             \/ Confirm(filter) \/ Cancel(filter)
      PROVE  PageInv'
  BY <1>7 DEF ExportSelection, AskDelete, Confirm, Cancel, Asked
<1>8. CASE EraseCurrent \/ DropSelection \/ Prepare \/ PrepareFails \/ Download
           \/ (\E choice \in [scope: {"selection", "filters"}, kind: {"invoices", "lines"},
                              filter: Filters]: ChooseExport(choice))
  BY <1>8 DEF EraseCurrent, DropSelection, Prepare, PrepareFails, Download, ChooseExport
<1>9. CASE UserStep
  BY <1>2, <1>3, <1>4, <1>5, <1>6, <1>7, <1>8, <1>9 DEF UserStep
<1>10. CASE PassOver \/ SendFile \/ FileAnswered \/ FinishBatch
  BY <1>10 DEF PassOver, SendFile, FileAnswered, FinishBatch, EndScript
<1>11. CASE SendDeletion \/ DeletionAnswered \/ FinishDeletion
  BY <1>11 DEF SendDeletion, DeletionAnswered, FinishDeletion, EndScript
<1>12. CASE EraseAnswered
  BY <1>12 DEF EraseAnswered, EndScript
<1>13. CASE ServerAnswers \/ ServerFinishesOrphan \/ (\E i \in Ids: RecordChanges(i))
  BY <1>13 DEF ServerAnswers, ServerFinishesOrphan, RecordChanges
<1>14. CASE LoseSession \/ UNCHANGED vars
  BY <1>14 DEF LoseSession, EndScript, vars
<1>15. QED
  BY <1>9, <1>10, <1>11, <1>12, <1>13, <1>14 DEF Next, ScriptStep

(* Only Prepare prepares a file, and an export of nothing is not asked of  *)
(* the API as an export without ids.                                       *)
LEMMA ReadyStep ==
    ASSUME TypeOK, ReadyInv, [Next]_vars
    PROVE  ReadyInv'
<1> USE DEF server, script, uploadKeys, exportKeys
<1>1. CASE Prepare
  <2>1. ready' = [request |-> OnScreen, content |-> InFile(OnScreen)]
    BY <1>1 DEF Prepare
  <2>2. CASE Scope = "selection"
    <3>1. exportIds # {} /\ exportIds # None
      BY <2>2, NoneAssumption DEF Scope, TypeOK
    <3>2. OnScreen.ids = exportIds
      BY <2>2 DEF OnScreen
    <3>3. Selected(OnScreen) \subseteq exportIds
      BY <3>1, <3>2 DEF Selected
    <3>4. InFile(OnScreen) \subseteq exportIds
      BY <3>3 DEF InFile
    <3>5. QED
      BY <2>1, <3>1, <3>2, <3>4 DEF ReadyInv
  <2>3. CASE Scope # "selection"
    BY <2>1, <2>3 DEF OnScreen, ReadyInv
  <2>4. QED
    BY <2>2, <2>3
<1>2. CASE ready' = None \/ ready' = ready
  BY <1>2 DEF ReadyInv
<1>3. CASE UserStep /\ ~Prepare
  <2>1. ready' = None \/ ready' = ready
    BY <1>3 DEF UserStep, Goto, Interrupt, Choose, Launch, ClearResults, View, Open,
       ExportSelection, AskDelete, Confirm, Cancel, Redraw, EraseCurrent,
       ChooseExport, DropSelection, PrepareFails, Download
  <2>2. QED
    BY <1>2, <2>1
<1>4. CASE ScriptStep
  <2>1. ready' = ready
    BY <1>4 DEF ScriptStep, PassOver, SendFile, FileAnswered, FinishBatch,
       SendDeletion, DeletionAnswered, FinishDeletion, EraseAnswered
  <2>2. QED
    BY <1>2, <2>1
<1>5. CASE ServerAnswers \/ ServerFinishesOrphan \/ (\E i \in Ids: RecordChanges(i))
           \/ LoseSession \/ UNCHANGED vars
  <2>1. ready' = None \/ ready' = ready
    BY <1>5 DEF ServerAnswers, ServerFinishesOrphan, RecordChanges, LoseSession, vars
  <2>2. QED
    BY <1>2, <2>1
<1>6. QED
  BY <1>1, <1>3, <1>4, <1>5 DEF Next

-----------------------------------------------------------------------------
(* The requests.                                                           *)

(* The replies differ.                                                     *)
LEMMA RepliesDiffer ==
    /\ \A i, j \in Ids: Created(i) = Created(j) => i = j
    /\ \A i \in Ids: Created(i) \notin {None, NotFound, Erased, Unreachable}
    /\ \A c \in Causes: Refusal(c) \notin {NotFound, Erased}
    /\ \A c \in Causes: \A i \in Ids: Refusal(c) # Created(i)
    /\ Unreachable \notin {NotFound, Erased} /\ NotFound # Erased
<1>1. \A i \in Ids: /\ Created(i).status = 201 /\ Created(i).id = i
                    /\ Created(i).error = None
  BY DEF Created
<1>2. /\ NotFound.error = None /\ Erased.error = None /\ Unreachable.error = "Unreachable"
      /\ NotFound.status = 404 /\ Erased.status = 204 /\ Unreachable.status = 0
  BY DEF NotFound, Erased, Unreachable
<1>3. \A c \in Causes: Refusal(c).error # None
  BY AnswerTypes
<1>4. \A i \in Ids: Created(i) # None
  BY AnswerTypes, NoneAssumption DEF Replies
<1>5. "Unreachable" # None
  BY AnswerTypes, Statuses
<1>6. QED
  BY <1>1, <1>2, <1>3, <1>4, <1>5

(* What the server does to the records it already has: an erased one stays *)
(* erased, a created one keeps its origin.                                 *)
RecordsGrow ==
    \A i \in Ids: /\ record[i] = "erased" => record'[i] = "erased"
                  /\ source[i] # None => source'[i] = source[i]

(* Whatever the server does with a request, its records only grow so.     *)
LEMMA ServerGrows ==
    ASSUME TypeOK, AccountInv, NEW request, NEW reply,
           Posts(request, reply) \/ Deletes(request, reply)
    PROVE  RecordsGrow
<1>1. CASE Posts(request, reply)
  BY <1>1 DEF Posts, server, RecordsGrow, AccountInv, TypeOK
<1>2. CASE Deletes(request, reply)
  BY <1>2 DEF Deletes, server, RecordsGrow, TypeOK
<1>3. QED
  BY <1>1, <1>2

(* Where the next upload of a batch comes from.                            *)
LEMMA OriginOfLaunch ==
    ASSUME TypeOK, AccountInv, doing = "batch"
    PROVE  /\ [launch |-> launches, place |-> NextPlace] \in Origin
           /\ [launch |-> launches, place |-> NextPlace] # None
           /\ NextPlace \in Nat /\ NextPlace \notin DOMAIN outcomes
<1>1. launches \in Nat \ {0}
  BY DEF AccountInv, TypeOK
<1>2. DOMAIN outcomes = 1..Len(outcomes) /\ Len(outcomes) \in Nat
  BY LenProperties DEF TypeOK
<1>3. [launch |-> launches, place |-> NextPlace] \in Origin
  BY <1>1, <1>2 DEF NextPlace, Origin
<1>4. QED
  BY <1>2, <1>3, NoneAssumption DEF NextPlace

(* A request on the wire stays what it is while records grow.              *)
LEMMA WireStays ==
    ASSUME TypeOK, AccountInv, WireInv, RecordsGrow,
           UNCHANGED <<doing, batch, outcomes, todo, wire, launches>>
    PROVE  WireInv'
<1>1. CASE wire = None
  BY <1>1 DEF WireInv
<1>2. CASE wire # None /\ doing = "batch"
  <2>1. wire.request.origin # None
    BY <1>2, OriginOfLaunch DEF WireInv, NewPost
  <2>2. \A i \in Ids: wire.reply = Created(i) => source'[i] = wire.request.origin
    BY <1>2, <2>1 DEF WireInv, RecordsGrow
  <2>3. QED
    BY <1>2, <2>2 DEF WireInv, NewPost, NextPlace, Stopped
<1>3. CASE wire # None /\ doing \in {"delete", "erase"}
  BY <1>3 DEF WireInv, RecordsGrow
<1>4. QED
  BY <1>1, <1>2, <1>3 DEF TypeOK, WireInv

(* Requests start with their script, and the server answers each once.     *)
LEMMA WireStep ==
    ASSUME TypeOK, PageInv, WireInv, AccountInv, [Next]_vars
    PROVE  WireInv'
<1> USE DEF server, script, uploadKeys, exportKeys
<1>1. ASSUME wire' = None, doing' # "batch" => outcomes' = <<>>
      PROVE  WireInv'
  BY <1>1 DEF WireInv
<1>2. CASE Quiet \/ UNCHANGED vars
  <2>1. UNCHANGED <<record, source, doing, batch, outcomes, todo, wire, launches>>
    BY <1>2 DEF Quiet, vars
  <2>2. QED
    BY <2>1 DEF WireInv, NewPost, NextPlace, Stopped
<1>3. CASE Launch \/ (\E filter \in Filters: Confirm(filter))
  BY <1>1, <1>3 DEF Launch, Confirm, Asked, OnPage, WireInv
<1>4. CASE Interrupt \/ LoseSession \/ FinishBatch
  BY <1>1, <1>4 DEF Interrupt, LoseSession, FinishBatch, EndScript
<1>5. CASE EraseCurrent
  <2>1. wire' = [request |-> [op |-> "DELETE", origin |-> None, id |-> current], reply |-> None]
        /\ doing' = "erase" /\ outcomes' = <<>> /\ current \in Ids
    BY <1>5 DEF EraseCurrent, Send, OnPage, PageInv, WireInv
  <2>2. None \notin {NotFound, Erased}
    BY AnswerTypes, NoneAssumption DEF Replies
  <2>3. QED
    BY <2>1, <2>2 DEF WireInv
<1>6. CASE SendFile
  <2>1. wire' = [request |-> NewPost, reply |-> None]
        /\ UNCHANGED <<source, doing, batch, outcomes, launches>>
    BY <1>6 DEF SendFile, Send, NewPost
  <2>2. doing = "batch" /\ NextPlace <= Len(batch) /\ ~Stopped /\ NextPlace <= MaxFiles
    BY <1>6 DEF SendFile, Sendable
  <2>3. \A i \in Ids: Created(i) # None
    BY RepliesDiffer
  <2>4. QED
    BY <2>1, <2>2, <2>3 DEF WireInv, NewPost, NextPlace, Stopped
<1>7. CASE PassOver
  BY <1>1, <1>7 DEF PassOver
<1>8. CASE FileAnswered
  BY <1>1, <1>8 DEF FileAnswered, Hear
<1>9. CASE SendDeletion
  <2>1. PICK i \in todo: Send([op |-> "DELETE", origin |-> None, id |-> i])
    BY <1>9 DEF SendDeletion
  <2>2. wire' = [request |-> [op |-> "DELETE", origin |-> None, id |-> i], reply |-> None]
        /\ doing = "delete" /\ doing' = "delete" /\ todo' = todo /\ outcomes' = outcomes
        /\ i \in Ids
    BY <1>9, <2>1 DEF SendDeletion, Send, TypeOK
  <2>3. None \notin {NotFound, Erased}
    BY AnswerTypes, NoneAssumption DEF Replies
  <2>4. QED
    BY <2>2, <2>3 DEF WireInv
<1>10. CASE DeletionAnswered \/ FinishDeletion \/ EraseAnswered
  BY <1>1, <1>10 DEF DeletionAnswered, FinishDeletion, EraseAnswered, Hear, EndScript, WireInv
<1>11. CASE ServerAnswers
  <2>1. wire # None /\ wire.reply = None
        /\ UNCHANGED <<doing, batch, outcomes, todo, launches>>
    BY <1>11 DEF ServerAnswers
  <2>2. wire \in [request: Request, reply: Reply \cup {None}]
    BY <2>1 DEF TypeOK
  <2>3. PICK reply \in Replies:
          /\ Posts(wire.request, reply) \/ Deletes(wire.request, reply)
          /\ wire' = [wire EXCEPT !.reply = reply]
    BY <1>11 DEF ServerAnswers
  <2>4. wire'.request = wire.request /\ wire'.reply = reply
    BY <2>2, <2>3
  <2>5. CASE doing = "batch"
    <3>1. wire.request = NewPost /\ wire.request.op = "POST"
      BY <2>1, <2>5 DEF WireInv, NewPost
    <3>2. Posts(wire.request, reply)
      BY <2>3, <3>1 DEF Deletes
    <3>3. /\ reply \in {Refusal(c): c \in Causes} \cup {Created(i): i \in Ids}
          /\ \A i \in Ids: reply = Created(i) => source'[i] = wire.request.origin
      BY <3>2, RepliesDiffer DEF Posts, TypeOK
    <3>4. QED
      BY <2>1, <2>4, <2>5, <3>1, <3>3 DEF WireInv, NewPost, NextPlace, Stopped
  <2>6. CASE doing \in {"delete", "erase"}
    <3>1. /\ wire.request.op = "DELETE" /\ wire.request.id \in Ids
          /\ doing = "delete" => wire.request.id \in todo
      BY <2>1, <2>6 DEF WireInv
    <3>2. Deletes(wire.request, reply)
      BY <2>3, <3>1 DEF Posts
    <3>3. /\ reply \in {NotFound, Erased} \cup {Refusal(c): c \in Causes}
          /\ reply \in {NotFound, Erased} => record'[wire.request.id] = "erased"
      BY <3>1, <3>2, RepliesDiffer DEF Deletes, TypeOK
    <3>4. QED
      BY <2>1, <2>4, <2>6, <3>1, <3>3 DEF WireInv
  <2>7. QED
    BY <2>1, <2>5, <2>6 DEF WireInv, TypeOK
<1>12. CASE ServerFinishesOrphan
  <2>1. RecordsGrow
    BY <1>12, ServerGrows DEF ServerFinishesOrphan
  <2>2. QED
    BY <1>12, <2>1, WireStays DEF ServerFinishesOrphan
<1>13. ASSUME NEW i \in Ids, RecordChanges(i)
       PROVE  WireInv'
  <2>1. RecordsGrow
    BY <1>13 DEF RecordChanges, RecordsGrow, TypeOK
  <2>2. QED
    BY <1>13, <2>1, WireStays DEF RecordChanges
<1>14. QED
  BY <1>2, <1>3, <1>4, <1>5, <1>6, <1>7, <1>8, <1>9, <1>10, <1>11, <1>12, <1>13,
     StepsOfScripts DEF ScriptStep

-----------------------------------------------------------------------------
(* The outcomes of a batch.                                                *)

(* One outcome more.                                                       *)
LEMMA OneMore ==
    ASSUME TypeOK, NEW o \in Outcome, outcomes' = Append(outcomes, o)
    PROVE  /\ DOMAIN outcomes' = DOMAIN outcomes \cup {NextPlace}
           /\ DOMAIN outcomes = 1..(NextPlace - 1)
           /\ NextPlace \in Nat \ {0} /\ NextPlace \notin DOMAIN outcomes
           /\ outcomes'[NextPlace] = o
           /\ \A n \in DOMAIN outcomes:
                  n \in Nat /\ n < NextPlace /\ outcomes'[n] = outcomes[n]
<1>1. outcomes \in Seq(Outcome)
  BY DEF TypeOK
<1>2. DOMAIN outcomes = 1..Len(outcomes) /\ Len(outcomes) \in Nat
  BY <1>1, LenProperties
<1>3. /\ outcomes' \in Seq(Outcome) /\ Len(outcomes') = Len(outcomes) + 1
      /\ outcomes'[Len(outcomes) + 1] = o
      /\ \A n \in 1..Len(outcomes): outcomes'[n] = outcomes[n]
  BY <1>1, AppendProperties
<1>4. DOMAIN outcomes' = 1..(Len(outcomes) + 1)
  BY <1>3, LenProperties
<1>5. QED
  BY <1>2, <1>3, <1>4 DEF NextPlace

(* A file that is not sent.                                                *)
LEMMA PassOverAppends ==
    ASSUME TypeOK, PassOver
    PROVE  \E o \in Outcome:
               /\ outcomes' = Append(outcomes, o)
               /\ o.kind = IF NextPlace > MaxFiles \/ Stopped THEN "not_run" ELSE "skipped"
<1> DEFINE o == [kind |-> IF NextPlace > MaxFiles \/ Stopped THEN "not_run" ELSE "skipped",
                 id |-> None, error |-> None]
<1>1. o \in Outcome /\ outcomes' = Append(outcomes, o)
  BY DEF PassOver, Outcome
<1>2. QED
  BY <1>1

(* A file that is answered, or given up.                                   *)
LEMMA AnswerAppends ==
    ASSUME TypeOK, WireInv, FileAnswered
    PROVE  /\ wire # None /\ wire' = None /\ wire.request = NewPost
           /\ ~Stopped /\ NextPlace <= MaxFiles
           /\ \E o \in Outcome:
               /\ outcomes' = Append(outcomes, o)
               /\ \/ /\ o.kind = "error" /\ o.error = "Unreachable"
                     /\ orphans' = orphans \cup
                            (IF wire.reply = None THEN {NewPost} ELSE {})
                  \/ /\ o.kind = "error" /\ o.error \in Errors
                     /\ orphans' = orphans
                     /\ \A i \in Ids: wire.reply # Created(i)
                  \/ /\ o.kind = "ok" /\ o.id \in Ids /\ wire.reply = Created(o.id)
                     /\ source[o.id] = NewPost.origin
                     /\ orphans' = orphans
<1>1. PICK reply \in Heard:
        /\ Hear(reply)
        /\ outcomes' = Append(outcomes,
               [kind |-> IF reply.status = 201 THEN "ok" ELSE "error",
                id |-> reply.id, error |-> reply.error])
  BY DEF FileAnswered
<1> DEFINE o == [kind |-> IF reply.status = 201 THEN "ok" ELSE "error",
                 id |-> reply.id, error |-> reply.error]
<1>2. wire # None /\ wire' = None /\ reply \in Reply /\ doing = "batch"
  BY <1>1, HearTypes DEF FileAnswered
<1>3. wire.request = NewPost /\ ~Stopped /\ NextPlace <= MaxFiles
  BY <1>2 DEF WireInv
<1>4. o \in Outcome /\ outcomes' = Append(outcomes, o)
  BY <1>1, <1>2 DEF Outcome, Reply
<1>5. CASE reply = Unreachable
  <2>1. o.kind = "error" /\ o.error = "Unreachable"
    BY <1>5 DEF Unreachable
  <2>2. orphans' = orphans \cup (IF wire.reply = None THEN {NewPost} ELSE {})
    BY <1>1, <1>3 DEF Hear
  <2>3. QED
    BY <1>2, <1>3, <1>4, <2>1, <2>2
<1>6. CASE reply # Unreachable
  <2>1. wire.reply = reply /\ reply # None /\ orphans' = orphans
    BY <1>1, <1>6 DEF Hear
  <2>2. CASE \E c \in Causes: reply = Refusal(c)
    <3>1. PICK c \in Causes: reply = Refusal(c)
      BY <2>2
    <3>2. reply.status # 201 /\ reply.error \in Errors
      BY <3>1, Statuses, InterfaceAssumption DEF Refusal
    <3>3. \A i \in Ids: wire.reply # Created(i)
      BY <2>1, <3>1, RepliesDiffer
    <3>4. o.kind = "error" /\ o.error \in Errors
      BY <3>2
    <3>5. QED
      BY <1>2, <1>3, <1>4, <2>1, <3>3, <3>4
  <2>3. CASE \E i \in Ids: reply = Created(i)
    <3>1. PICK i \in Ids: reply = Created(i)
      BY <2>3
    <3>2. reply.status = 201 /\ reply.id = i
      BY <3>1 DEF Created
    <3>3. source[i] = NewPost.origin
      BY <1>2, <1>3, <2>1, <3>1 DEF WireInv
    <3>4. o.kind = "ok" /\ o.id = i
      BY <3>2
    <3>5. QED
      BY <1>2, <1>3, <1>4, <2>1, <3>1, <3>3, <3>4
  <2>4. QED
    BY <1>2, <2>1, <2>2, <2>3 DEF WireInv
<1>7. QED
  BY <1>5, <1>6

(* What else a step may do to the outcomes.                                *)
LEMMA OutcomesStep ==
    ASSUME WireInv, [Next]_vars
    PROVE  PassOver \/ FileAnswered \/ outcomes' = outcomes \/ outcomes' = <<>>
BY StepsOfScripts DEF Quiet, script, Launch, Confirm, EraseCurrent, Interrupt, LoseSession,
   EndScript, ScriptStep, SendFile, FinishBatch, SendDeletion, DeletionAnswered,
   FinishDeletion, EraseAnswered, ServerAnswers, ServerFinishesOrphan, RecordChanges, vars

(* Stopped is what the property says of the outcomes so far.               *)
LEMMA StoppedMeans ==
    ASSUME TypeOK, StopsInv
    PROVE  Stopped <=> \E m \in DOMAIN outcomes:
                           outcomes[m].kind = "error" /\ CauseToStop(outcomes[m].error)
BY Statuses DEF Stopped, StopsInv

(* Each outcome is judged once, when it is added.                          *)
LEMMA StopsStep ==
    ASSUME TypeOK, WireInv, StopsInv, [Next]_vars
    PROVE  StopsInv'
<1>1. CASE outcomes' = outcomes \/ outcomes' = <<>>
  BY <1>1 DEF StopsInv, BatchStopsForACause
<1>2. ASSUME NEW o \in Outcome, outcomes' = Append(outcomes, o),
             o.kind = "error" => o.error \in Errors,
             NextPlace <= MaxFiles => (o.kind = "not_run" <=> Stopped)
      PROVE  StopsInv'
  <2>1. /\ DOMAIN outcomes' = DOMAIN outcomes \cup {NextPlace}
        /\ DOMAIN outcomes = 1..(NextPlace - 1)
        /\ NextPlace \in Nat \ {0} /\ outcomes'[NextPlace] = o
        /\ \A n \in DOMAIN outcomes:
               n \in Nat /\ n < NextPlace /\ outcomes'[n] = outcomes[n]
    BY <1>2, OneMore
  <2>2. \A n \in DOMAIN outcomes': outcomes'[n].kind = "error" => outcomes'[n].error \in Errors
    BY <1>2, <2>1 DEF StopsInv
  <2>3. ASSUME NEW n \in DOMAIN outcomes', n <= MaxFiles
        PROVE  (outcomes'[n].kind = "not_run") <=>
                   \E m \in 1..(n - 1):
                       outcomes'[m].kind = "error" /\ CauseToStop(outcomes'[m].error)
    <3>1. \A m \in 1..(n - 1): outcomes'[m] = outcomes[m]
      BY <2>1
    <3>2. CASE n = NextPlace
      BY <1>2, <2>1, <2>3, <3>1, <3>2, StoppedMeans
    <3>3. CASE n \in DOMAIN outcomes
      BY <2>1, <2>3, <3>1, <3>3 DEF StopsInv, BatchStopsForACause
    <3>4. QED
      BY <2>1, <3>2, <3>3
  <2>4. QED
    BY <2>2, <2>3 DEF StopsInv, BatchStopsForACause
<1>3. CASE PassOver
  <2>1. PICK o \in Outcome:
          /\ outcomes' = Append(outcomes, o)
          /\ o.kind = IF NextPlace > MaxFiles \/ Stopped THEN "not_run" ELSE "skipped"
    BY <1>3, PassOverAppends
  <2>2. NextPlace \in Nat /\ MaxFiles \in Nat
    BY <2>1, OneMore, InterfaceAssumption
  <2>3. QED
    BY <1>2, <2>1, <2>2
<1>4. CASE FileAnswered
  BY <1>2, <1>4, AnswerAppends, Statuses
<1>5. QED
  BY <1>1, <1>3, <1>4, OutcomesStep

-----------------------------------------------------------------------------
(* The report of a deletion.                                               *)

Settled == tally.deleted \cup tally.gone \cup tally.failed

Adds(ids) ==
    Cardinality(tally.deleted) + Cardinality(tally.gone) + Cardinality(tally.failed)
        + Cardinality(todo) + tally.left = Cardinality(ids)

(* One id is answered.                                                     *)
LEMMA DeletionAnsweredKeeps ==
    ASSUME TypeOK, WireInv, DeletionInv, DeletionAnswered
    PROVE  DeletionInv'
<1> DEFINE i == wire.request.id
<1>1. PICK reply \in Heard:
        /\ Hear(reply)
        /\ \/ reply = Erased /\ Done(i) /\ tally' = [tally EXCEPT !.deleted = @ \cup {i}]
           \/ reply = NotFound /\ Done(i) /\ tally' = [tally EXCEPT !.gone = @ \cup {i}]
           \/ reply \notin {Erased, NotFound} /\ NotDone(i, reply)
  BY DEF DeletionAnswered
<1>2. /\ wire # None /\ wire' = None /\ doing = "delete" /\ doing' = "delete"
      /\ pending' = pending /\ record' = record
  BY <1>1, HearTypes DEF DeletionAnswered, server
<1>3. reply \in {Erased, NotFound} => wire.reply = reply
  BY <1>1, RepliesDiffer DEF Hear
<1>4. i \in todo /\ i \in Ids /\ (reply \in {Erased, NotFound} => record[i] = "erased")
  BY <1>2, <1>3 DEF WireInv
<1> HIDE DEF i
<1>5. /\ tally \in Report /\ todo \in SUBSET Ids /\ pending \in SUBSET Ids
      /\ Settled \cup todo \subseteq pending /\ Settled \cap todo = {}
      /\ \A j \in tally.deleted \cup tally.gone: record[j] = "erased" /\ current # j
      /\ Adds(pending) /\ tally.left = 0
  BY <1>2, <1>4 DEF DeletionInv, DeletionIsHonest, Settled, Adds, TypeOK
<1>6. /\ {tally.deleted, tally.gone, tally.failed} \subseteq SUBSET Ids
      /\ i \notin tally.deleted /\ i \notin tally.gone /\ i \notin tally.failed
  BY <1>4, <1>5 DEF Settled, Report
<1>7. /\ Cardinality(tally.deleted \cup {i}) = Cardinality(tally.deleted) + 1
      /\ Cardinality(tally.gone \cup {i}) = Cardinality(tally.gone) + 1
      /\ Cardinality(tally.failed \cup {i}) = Cardinality(tally.failed) + 1
      /\ Cardinality(todo \ {i}) = Cardinality(todo) - 1
      /\ Cardinality({}) = 0
      /\ Cardinality(tally.deleted) \in Nat /\ Cardinality(tally.gone) \in Nat
      /\ Cardinality(tally.failed) \in Nat /\ Cardinality(todo) \in Nat
  <2>1. /\ tally.deleted \in SUBSET Ids /\ tally.gone \in SUBSET Ids
        /\ tally.failed \in SUBSET Ids
    BY <1>6
  <2>2. QED
    BY <1>4, <1>5, <1>6, <2>1, IdSets
<1>8. ASSUME Done(i), reply \in {Erased, NotFound}
      PROVE  /\ todo' = todo \ {i} /\ current' # i
             /\ \A j \in tally.deleted \cup tally.gone: current' # j
  BY <1>4, <1>5, <1>6, <1>8, AnswerTypes DEF Done
<1>9. CASE reply = Erased
  <2>1. Done(i) /\ tally' = [tally EXCEPT !.deleted = @ \cup {i}]
    BY <1>1, <1>9, RepliesDiffer
  <2>2. /\ tally'.deleted = tally.deleted \cup {i} /\ tally'.gone = tally.gone
        /\ tally'.failed = tally.failed /\ tally'.left = tally.left
    BY <1>5, <2>1 DEF Report
  <2>3. Adds(pending)'
    <3>1. todo' = todo \ {i} /\ pending' = pending
      BY <1>2, <1>8, <1>9, <2>1
    <3>2. QED
      BY <1>5, <1>7, <2>2, <3>1 DEF Adds
  <2>4. QED
    BY <1>2, <1>4, <1>5, <1>6, <1>8, <1>9, <2>1, <2>2, <2>3
    DEF DeletionInv, DeletionIsHonest, Settled, Adds
<1>10. CASE reply = NotFound
  <2>1. Done(i) /\ tally' = [tally EXCEPT !.gone = @ \cup {i}]
    BY <1>1, <1>10, RepliesDiffer
  <2>2. /\ tally'.deleted = tally.deleted /\ tally'.gone = tally.gone \cup {i}
        /\ tally'.failed = tally.failed /\ tally'.left = tally.left
    BY <1>5, <2>1 DEF Report
  <2>3. Adds(pending)'
    <3>1. todo' = todo \ {i} /\ pending' = pending
      BY <1>2, <1>8, <1>10, <2>1
    <3>2. QED
      BY <1>5, <1>7, <2>2, <3>1 DEF Adds
  <2>4. QED
    BY <1>2, <1>4, <1>5, <1>6, <1>8, <1>10, <2>1, <2>2, <2>3
    DEF DeletionInv, DeletionIsHonest, Settled, Adds
<1>11. CASE reply \notin {Erased, NotFound}
  <2>1. NotDone(i, reply)
    BY <1>1, <1>11
  <2>2. /\ tally'.deleted = tally.deleted /\ tally'.gone = tally.gone
        /\ tally'.failed = tally.failed \cup {i}
        /\ tally'.left = Cardinality(todo) - Cardinality(todo') - 1
        /\ todo' \in {{}, todo \ {i}} /\ current' = current
    BY <1>5, <2>1 DEF NotDone, Report
  <2>3. Adds(pending)' /\ (todo' # {} => tally'.left = 0)
    <3>1. CASE todo' = {}
      BY <1>2, <1>5, <1>7, <2>2, <3>1 DEF Adds
    <3>2. CASE todo' = todo \ {i}
      BY <1>2, <1>5, <1>7, <2>2, <3>2 DEF Adds
    <3>3. QED
      BY <2>2, <3>1, <3>2
  <2>4. QED
    BY <1>2, <1>4, <1>5, <1>6, <2>2, <2>3
    DEF DeletionInv, DeletionIsHonest, Settled, Adds
<1>12. QED
  BY <1>9, <1>10, <1>11

(* Only an answer moves an id, from what is left to one part of the report. *)
LEMMA DeletionStep ==
    ASSUME TypeOK, WireInv, AccountInv, DeletionInv, [Next]_vars
    PROVE  DeletionInv'
<1> USE DEF server, script, uploadKeys, exportKeys
<1>1. ASSUME doing' # "delete",
             todo' = {} \/ (todo' = todo /\ tally' = tally)
      PROVE  DeletionInv'
  BY <1>1 DEF DeletionInv, DeletionIsHonest
<1>2. ASSUME UNCHANGED <<doing, pending, current, todo, tally>>, RecordsGrow,
             wire' # None => wire' \in [request: Request, reply: Reply \cup {None}]
                             /\ (doing = "delete" => wire'.request.id \in todo)
      PROVE  DeletionInv'
  <2>1. \A j \in tally.deleted \cup tally.gone: j \in Ids
    BY DEF TypeOK, Report
  <2>2. QED
    BY <1>2, <2>1 DEF DeletionInv, DeletionIsHonest, RecordsGrow
<1>3. CASE UNCHANGED vars
  BY <1>3 DEF vars, DeletionInv, DeletionIsHonest
<1>4. CASE Quiet \/ Launch \/ EraseCurrent
  BY <1>1, <1>4 DEF Quiet, Launch, EraseCurrent
<1>5. ASSUME NEW filter \in Filters, Confirm(filter)
      PROVE  DeletionInv'
  <2>1. /\ todo' = pending /\ pending' = pending /\ tally' = NoReport /\ wire' = wire
        /\ record' = record /\ current' = current
    BY <1>5 DEF Confirm
  <2>2. wire = None
    BY <1>5 DEF Confirm, Asked, OnPage, WireInv
  <2>3. Cardinality(pending) \in Nat /\ Cardinality({}) = 0
    BY IdSets DEF TypeOK
  <2>4. QED
    BY <2>1, <2>2, <2>3 DEF NoReport, DeletionInv, DeletionIsHonest
<1>6. CASE Interrupt \/ LoseSession
  BY <1>1, <1>6 DEF Interrupt, LoseSession, EndScript
<1>7. CASE PassOver \/ SendFile \/ FileAnswered
  BY <1>1, <1>7 DEF PassOver, SendFile, FileAnswered
<1>8. CASE FinishBatch \/ FinishDeletion \/ EraseAnswered
  BY <1>1, <1>8 DEF FinishBatch, FinishDeletion, EraseAnswered, EndScript
<1>9. CASE SendDeletion
  <2>1. PICK i \in todo: Send([op |-> "DELETE", origin |-> None, id |-> i])
    BY <1>9 DEF SendDeletion
  <2>2. wire'.request.id = i /\ UNCHANGED <<record, doing, pending, current, todo, tally>>
    BY <1>9, <2>1 DEF SendDeletion, Send
  <2>3. QED
    BY <2>1, <2>2 DEF DeletionInv, DeletionIsHonest
<1>10. CASE DeletionAnswered
  BY <1>10, DeletionAnsweredKeeps
<1>11. CASE ServerAnswers
  <2>1. RecordsGrow
    BY <1>11, ServerGrows DEF ServerAnswers
  <2>2. PICK reply \in Replies: wire' = [wire EXCEPT !.reply = reply]
    BY <1>11 DEF ServerAnswers
  <2>3. wire # None /\ wire \in [request: Request, reply: Reply \cup {None}]
    BY <1>11 DEF ServerAnswers, TypeOK
  <2>4. wire' \in [request: Request, reply: Reply \cup {None}]
        /\ wire'.request = wire.request
    BY <2>2, <2>3, AnswerTypes
  <2>5. doing = "delete" => wire'.request.id \in todo
    BY <2>3, <2>4 DEF WireInv
  <2>6. QED
    BY <1>2, <1>11, <2>1, <2>4, <2>5 DEF ServerAnswers
<1>12. CASE ServerFinishesOrphan
  <2>1. RecordsGrow
    BY <1>12, ServerGrows DEF ServerFinishesOrphan
  <2>2. QED
    BY <1>2, <1>12, <2>1 DEF ServerFinishesOrphan, WireInv, TypeOK
<1>13. ASSUME NEW i \in Ids, RecordChanges(i)
       PROVE  DeletionInv'
  <2>1. RecordsGrow
    BY <1>13 DEF RecordChanges, RecordsGrow, TypeOK
  <2>2. QED
    BY <1>2, <1>13, <2>1 DEF RecordChanges, WireInv, TypeOK
<1>14. QED
  BY <1>3, <1>4, <1>5, <1>6, <1>7, <1>8, <1>9, <1>10, <1>11, <1>12, <1>13,
     StepsOfScripts DEF ScriptStep

-----------------------------------------------------------------------------
(* The records of a batch and its report.                                  *)

(* What was given up stopped the batch.                                    *)
LEMMA GaveUpStops ==
    ASSUME NEW n, GaveUp(outcomes, n)
    PROVE  Stopped
<1>1. StopsTheBatch("Unreachable")
  BY Statuses DEF CauseToStop, AboutTheDocument
<1>2. QED
  BY <1>1 DEF GaveUp, Stopped

(* It stays so while the other files are passed over.                      *)
LEMMA GaveUpStays ==
    ASSUME TypeOK, NEW o \in Outcome, outcomes' = Append(outcomes, o), o.kind = "not_run",
           NEW n, GaveUp(outcomes, n)
    PROVE  GaveUp(outcomes', n)
BY OneMore DEF GaveUp

(* An upload that is not answered yet has made no record, and it is not    *)
(* one that was given up.                                                  *)
LEMMA Fresh ==
    ASSUME TypeOK, WireInv, OrphanInv, AccountInv,
           doing = "batch", wire # None, wire.reply = None
    PROVE  /\ \A i \in Ids: source[i] # NewPost.origin
           /\ \A q \in orphans: q.op = "POST" => q.origin # NewPost.origin
<1>1. /\ NewPost.origin = [launch |-> launches, place |-> NextPlace]
      /\ NewPost.origin # None /\ NextPlace \notin DOMAIN outcomes
  BY OriginOfLaunch DEF NewPost
<1>2. ASSUME NEW i \in Ids, source[i] = NewPost.origin
      PROVE  FALSE
  <2>1. source[i] # None /\ source[i].launch = launches /\ source[i].place = NextPlace
    BY <1>1, <1>2
  <2>2. NamesOrGaveUp(outcomes, i)
    BY <2>1, RepliesDiffer DEF AccountInv
  <2>3. QED
    BY <1>1, <2>1, <2>2 DEF NamesOrGaveUp, GaveUp
<1>3. ASSUME NEW q \in orphans, q.op = "POST", q.origin = NewPost.origin
      PROVE  FALSE
  <2>1. q.origin.launch = launches /\ q.origin.place = NextPlace
    BY <1>1, <1>3
  <2>2. GaveUp(outcomes, NextPlace)
    BY <1>3, <2>1 DEF OrphanInv
  <2>3. QED
    BY <1>1, <2>2 DEF GaveUp
<1>4. QED
  BY <1>2, <1>3

(* Giving up the request in progress.                                      *)
LEMMA AbandonKeeps ==
    ASSUME TypeOK, WireInv, OrphanInv, AccountInv,
           orphans' = orphans \cup
               (IF wire # None /\ wire.reply = None THEN {wire.request} ELSE {}),
           doing' # "batch", source' = source, launches' = launches,
           \/ results' = results /\ reported' = reported
           \/ results' = <<>> /\ reported' = 0
    PROVE  OrphanInv'
<1>1. ASSUME NEW q \in orphans
      PROVE  \/ q.op = "DELETE" /\ q.id \in Ids
             \/ /\ q.op = "POST" /\ q.id = None
                /\ q.origin \in Origin /\ q.origin.launch <= launches'
                /\ \A i \in Ids: source'[i] # q.origin
                /\ q.origin.launch = reported' => GaveUp(results', q.origin.place)
  BY DEF OrphanInv, Origin
<1>2. ASSUME wire # None, wire.reply = None
      PROVE  \/ wire.request.op = "DELETE" /\ wire.request.id \in Ids
             \/ /\ wire.request.op = "POST" /\ wire.request.id = None
                /\ wire.request.origin \in Origin
                /\ wire.request.origin.launch <= launches'
                /\ \A i \in Ids: source'[i] # wire.request.origin
                /\ wire.request.origin.launch # reported'
  <2>1. CASE doing = "batch"
    <3>1. /\ wire.request = NewPost /\ NewPost.origin \in Origin
          /\ NewPost.origin.launch = launches /\ NewPost.op = "POST" /\ NewPost.id = None
      BY <1>2, <2>1, OriginOfLaunch DEF WireInv, NewPost
    <3>2. launches \in Nat /\ reported \in Nat /\ reported < launches /\ reported' # launches
      BY <2>1 DEF AccountInv, TypeOK
    <3>3. QED
      BY <1>2, <2>1, <3>1, <3>2, Fresh
  <2>2. CASE doing # "batch"
    BY <1>2, <2>2 DEF WireInv, TypeOK
  <2>3. QED
    BY <2>1, <2>2
<1>3. QED
  BY <1>1, <1>2 DEF OrphanInv

(* The requests nobody waits for when none is added, no record comes from  *)
(* one, and what is given up stays so.                                     *)
LEMMA OrphansStay ==
    ASSUME TypeOK, OrphanInv, orphans' \subseteq orphans,
           UNCHANGED <<results, reported, launches>>,
           \A q \in orphans': q.op = "POST" =>
               \A i \in Ids: source'[i] = source[i] \/ source'[i] # q.origin,
           doing' = "batch" => doing = "batch",
           \A n: (doing = "batch" /\ GaveUp(outcomes, n)) => GaveUp(outcomes', n)
    PROVE  OrphanInv'
<1>1. ASSUME NEW q \in orphans'
      PROVE  \/ q.op = "DELETE" /\ q.id \in Ids
             \/ /\ q.op = "POST" /\ q.id = None
                /\ q.origin \in Origin /\ q.origin.launch <= launches'
                /\ \A i \in Ids: source'[i] # q.origin
                /\ q.origin.launch = reported' => GaveUp(results', q.origin.place)
                /\ (doing' = "batch" /\ q.origin.launch = launches') =>
                       GaveUp(outcomes', q.origin.place)
  <2>1. q \in orphans
    OBVIOUS
  <2>2. QED
    BY <2>1 DEF OrphanInv
<1>2. QED
  BY <1>1 DEF OrphanInv

(* A file that is answered adds a request at most, and says so.            *)
LEMMA AnsweredOrphans ==
    ASSUME TypeOK, WireInv, OrphanInv, AccountInv, FileAnswered
    PROVE  OrphanInv'
<1>1. /\ doing = "batch" /\ doing' = doing
      /\ UNCHANGED <<source, results, reported, launches>>
  BY DEF FileAnswered, server, uploadKeys
<1>2. wire # None /\ ~Stopped
  BY AnswerAppends
<1>3. \A n: ~GaveUp(outcomes, n)
  BY <1>2, GaveUpStops
<1>4. ASSUME orphans' = orphans
      PROVE  OrphanInv'
  BY <1>1, <1>3, <1>4, OrphansStay
<1>5. PICK o \in Outcome:
        /\ outcomes' = Append(outcomes, o)
        /\ \/ /\ o.kind = "error" /\ o.error = "Unreachable"
              /\ orphans' = orphans \cup (IF wire.reply = None THEN {NewPost} ELSE {})
           \/ orphans' = orphans
  BY AnswerAppends
<1>6. ASSUME o.kind = "error", o.error = "Unreachable", wire.reply = None,
             orphans' = orphans \cup {NewPost}
      PROVE  OrphanInv'
  <2>1. GaveUp(outcomes', NextPlace)
    BY <1>5, <1>6, OneMore DEF GaveUp
  <2>2. /\ NewPost.op = "POST" /\ NewPost.id = None
        /\ NewPost.origin \in Origin /\ NewPost.origin.launch = launches
        /\ NewPost.origin.place = NextPlace
    BY <1>1, OriginOfLaunch DEF NewPost
  <2>3. launches \in Nat /\ reported < launches /\ reported \in Nat
    BY <1>1 DEF AccountInv, TypeOK
  <2>4. \A i \in Ids: source'[i] # NewPost.origin
    BY <1>1, <1>2, <1>6, Fresh
  <2>5. ASSUME NEW q \in orphans
        PROVE  \/ q.op = "DELETE" /\ q.id \in Ids
               \/ /\ q.op = "POST" /\ q.id = None
                  /\ q.origin \in Origin /\ q.origin.launch <= launches'
                  /\ \A i \in Ids: source'[i] # q.origin
                  /\ q.origin.launch = reported' => GaveUp(results', q.origin.place)
                  /\ (doing' = "batch" /\ q.origin.launch = launches') =>
                         GaveUp(outcomes', q.origin.place)
    BY <1>1, <1>3, <2>5 DEF OrphanInv
  <2> DEFINE p == NewPost
  <2>6. /\ p.op = "POST" /\ p.id = None
        /\ p.origin \in Origin /\ p.origin.launch <= launches'
        /\ \A i \in Ids: source'[i] # p.origin
        /\ p.origin.launch = reported' => GaveUp(results', p.origin.place)
        /\ (doing' = "batch" /\ p.origin.launch = launches') =>
               GaveUp(outcomes', p.origin.place)
    BY <1>1, <2>1, <2>2, <2>3, <2>4
  <2>7. orphans' = orphans \cup {p}
    BY <1>6
  <2> HIDE DEF p
  <2>8. QED
    BY <2>5, <2>6, <2>7 DEF OrphanInv
<1>7. QED
  BY <1>4, <1>5, <1>6

(* A request given up is reported so, and leaves no record behind until    *)
(* the server executes it.                                                 *)
LEMMA OrphanStep ==
    ASSUME TypeOK, WireInv, OrphanInv, AccountInv, [Next]_vars
    PROVE  OrphanInv'
<1> USE DEF server, script, uploadKeys, exportKeys
<1>1. ASSUME UNCHANGED <<source, orphans, launches>>, doing' # "batch",
             \/ UNCHANGED <<results, reported>>
             \/ results' = <<>> /\ reported' = 0
      PROVE  OrphanInv'
  BY <1>1 DEF OrphanInv, Origin
<1>2. CASE Quiet \/ EraseCurrent \/ (\E filter \in Filters: Confirm(filter))
  BY <1>1, <1>2 DEF Quiet, EraseCurrent, Confirm
<1>3. CASE SendDeletion \/ FinishDeletion
  BY <1>1, <1>3 DEF SendDeletion, FinishDeletion, EndScript
<1>4. ASSUME UNCHANGED <<source, orphans, results, reported, launches, doing, outcomes>>
      PROVE  OrphanInv'
  BY <1>4, OrphansStay
<1>5. CASE SendFile \/ (\E i \in Ids: RecordChanges(i)) \/ UNCHANGED vars
  BY <1>4, <1>5 DEF SendFile, RecordChanges, vars
<1>6. CASE Launch
  <2>1. \A q \in orphans: q.op = "POST" =>
            q.origin.launch # launches' /\ q.origin.launch <= launches'
    BY <1>6 DEF Launch, OrphanInv, Origin, TypeOK
  <2>2. UNCHANGED <<source, orphans, results, reported>>
    BY <1>6 DEF Launch
  <2>3. QED
    BY <2>1, <2>2 DEF OrphanInv
<1>7. CASE Interrupt \/ LoseSession
  BY <1>7, AbandonKeeps DEF Interrupt, LoseSession, EndScript
<1>8. CASE DeletionAnswered
  BY <1>8, AbandonKeeps DEF DeletionAnswered, Hear
<1>9. CASE EraseAnswered
  BY <1>9, AbandonKeeps DEF EraseAnswered, Hear, EndScript
<1>10. CASE PassOver
  <2>1. PICK o \in Outcome:
          /\ outcomes' = Append(outcomes, o)
          /\ o.kind = IF NextPlace > MaxFiles \/ Stopped THEN "not_run" ELSE "skipped"
    BY <1>10, PassOverAppends
  <2>2. ASSUME NEW n, GaveUp(outcomes, n)
        PROVE  GaveUp(outcomes', n)
    BY <2>1, <2>2, GaveUpStops, GaveUpStays
  <2>3. UNCHANGED <<source, orphans, results, reported, launches, doing>>
    BY <1>10 DEF PassOver
  <2>4. QED
    BY <2>2, <2>3, OrphansStay
<1>11. CASE FileAnswered
  BY <1>11, AnsweredOrphans
<1>12. CASE FinishBatch
  <2>1. /\ UNCHANGED <<source, orphans, launches>> /\ doing = "batch" /\ doing' = "idle"
        /\ results' = outcomes /\ reported' = launches
    BY <1>12 DEF FinishBatch, EndScript
  <2>2. QED
    BY <2>1 DEF OrphanInv
<1>13. CASE ServerAnswers
  <2>1. /\ wire # None /\ wire.reply = None
        /\ UNCHANGED <<orphans, results, reported, launches, doing, outcomes>>
    BY <1>13 DEF ServerAnswers
  <2>2. PICK reply \in Replies: Posts(wire.request, reply) \/ Deletes(wire.request, reply)
    BY <1>13 DEF ServerAnswers
  <2>3. ASSUME NEW q \in orphans, q.op = "POST", NEW i \in Ids
        PROVE  source'[i] = source[i] \/ source'[i] # q.origin
    <3>1. CASE Deletes(wire.request, reply)
      BY <3>1 DEF Deletes
    <3>2. CASE Posts(wire.request, reply)
      <4>1. doing = "batch" /\ wire.request = NewPost
        BY <2>1, <3>2 DEF Posts, WireInv, TypeOK
      <4>2. source'[i] = source[i] \/ source'[i] = NewPost.origin
        BY <3>2, <4>1 DEF Posts, TypeOK
      <4>3. QED
        BY <2>1, <2>3, <4>1, <4>2, Fresh
    <3>3. QED
      BY <2>2, <3>1, <3>2
  <2>4. QED
    BY <2>1, <2>3, OrphansStay
<1>14. CASE ServerFinishesOrphan
  <2>1. PICK request \in orphans:
          /\ \E reply \in Replies: Posts(request, reply) \/ Deletes(request, reply)
          /\ orphans' = orphans \ {request}
    BY <1>14 DEF ServerFinishesOrphan
  <2>2. UNCHANGED <<results, reported, launches, doing, outcomes>>
    BY <1>14 DEF ServerFinishesOrphan
  <2>3. ASSUME NEW q \in orphans', q.op = "POST", NEW i \in Ids
        PROVE  source'[i] = source[i] \/ source'[i] # q.origin
    <3>1. CASE \E reply: Deletes(request, reply)
      BY <3>1 DEF Deletes
    <3>2. CASE request.op = "POST" /\ \E reply: Posts(request, reply)
      <4>1. source'[i] = source[i] \/ source'[i] = request.origin
        BY <3>2 DEF Posts, TypeOK
      <4>2. q \in orphans /\ q # request /\ q.id = None /\ request.id = None
        BY <2>1, <2>3, <3>2 DEF OrphanInv
      <4>3. q \in Request /\ request \in Request
        BY <4>2 DEF TypeOK
      <4>4. q.origin # request.origin
        BY <2>3, <3>2, <4>2, <4>3 DEF Request
      <4>5. QED
        BY <4>1, <4>4
    <3>3. QED
      BY <2>1, <3>1, <3>2 DEF Posts
  <2>4. QED
    BY <2>1, <2>2, <2>3, OrphansStay
<1>15. QED
  BY <1>2, <1>3, <1>5, <1>6, <1>7, <1>8, <1>9, <1>10, <1>11, <1>12, <1>13, <1>14,
     StepsOfScripts DEF ScriptStep

(* Steps that add no record to the account.                                *)
LEMMA AccountStays ==
    ASSUME TypeOK, AccountInv, UNCHANGED <<source, launches>>,
           \A i \in Ids: record'[i] = "absent" => record[i] = "absent",
           \/ UNCHANGED <<results, reported>>
           \/ results' = <<>> /\ reported' = 0,
           doing' # "batch" \/ (UNCHANGED <<doing, outcomes>> /\ wire \in {wire', None})
    PROVE  AccountInv'
<1>1. \A i \in Ids: source[i] # None => source[i].launch # 0
  BY DEF Origin, TypeOK
<1>2. /\ \A i \in Ids: record'[i] = "absent" => source'[i] = None
      /\ \A i \in Ids: source'[i] # None => source'[i].launch <= launches'
      /\ \A i, j \in Ids: (source'[i] # None /\ source'[i] = source'[j]) => i = j
  BY DEF AccountInv
<1>3. /\ reported' = 0 => results' = <<>>
      /\ Named(results, reported)'
      /\ \A i \in Ids: (source'[i] # None /\ source'[i].launch = reported') =>
             NamesOrGaveUp(results, i)'
  BY <1>1 DEF AccountInv, Named, NamesOrGaveUp
<1>4. ASSUME doing' = "batch"
      PROVE  /\ reported' < launches'
             /\ Named(outcomes, launches)'
             /\ \A i \in Ids: (source'[i] # None /\ source'[i].launch = launches') =>
                    \/ NamesOrGaveUp(outcomes, i)'
                    \/ wire' # None /\ wire'.reply = Created(i) /\ source'[i].place = NextPlace'
  <2>1. doing = "batch" /\ outcomes' = outcomes /\ wire \in {wire', None}
    BY <1>4
  <2>2. reported < launches /\ (reported' = reported \/ reported' = 0)
    BY <2>1 DEF AccountInv
  <2>3. reported' < launches'
    BY <2>2 DEF TypeOK
  <2>4. QED
    BY <2>1, <2>3 DEF AccountInv, Named, NamesOrGaveUp, NextPlace
<1>5. QED
  BY <1>2, <1>3, <1>4 DEF AccountInv

(* A record is created for an upload that had none.                        *)
LEMMA OneRecordMore ==
    ASSUME TypeOK, AccountInv, NEW i \in Ids, NEW origin \in Origin,
           record[i] = "absent", record' = [record EXCEPT ![i] = "live"],
           source' = [source EXCEPT ![i] = origin],
           \A j \in Ids: source[j] # origin,
           origin.launch <= launches,
           UNCHANGED <<results, reported, launches, doing, outcomes>>,
           origin.launch = reported => GaveUp(results, origin.place),
           (doing = "batch" /\ origin.launch = launches) =>
               \/ GaveUp(outcomes, origin.place)
               \/ wire' # None /\ wire'.reply = Created(i) /\ origin.place = NextPlace,
           \A j \in Ids: (wire # None /\ wire.reply = Created(j)) => wire' = wire
    PROVE  AccountInv'
<1>1. source[i] = None /\ origin # None
  BY NoneAssumption DEF AccountInv
<1>2. /\ source'[i] = origin
      /\ \A j \in Ids \ {i}: source'[j] = source[j] /\ record'[j] = record[j]
      /\ record'[i] = "live"
  BY DEF TypeOK
<1>3. /\ \A j \in Ids: record'[j] = "absent" => source'[j] = None
      /\ \A j \in Ids: source'[j] # None => source'[j].launch <= launches'
      /\ \A j, k \in Ids: (source'[j] # None /\ source'[j] = source'[k]) => j = k
  BY <1>2 DEF AccountInv
<1>4. ASSUME NEW report, NEW launch \in Nat, Named(report, launch),
             \A n \in DOMAIN report: n \in Nat \ {0} /\ launch # 0
      PROVE  \A n \in DOMAIN report: report[n].kind = "ok" =>
                 /\ report[n].id \in Ids
                 /\ source'[report[n].id] = [launch |-> launch, place |-> n]
  <2>1. ASSUME NEW n \in DOMAIN report, report[n].kind = "ok"
        PROVE  /\ report[n].id \in Ids
               /\ source'[report[n].id] = [launch |-> launch, place |-> n]
    <3>1. /\ report[n].id \in Ids
          /\ source[report[n].id] = [launch |-> launch, place |-> n]
      BY <1>4, <2>1 DEF Named
    <3>2. [launch |-> launch, place |-> n] \in Origin
      BY <1>4, <2>1 DEF Origin
    <3>3. QED
      BY <1>1, <1>2, <3>1, <3>2, NoneAssumption
  <2>2. QED
    BY <2>1
<1>5. /\ \A n \in DOMAIN results: n \in Nat \ {0} /\ reported # 0
      /\ \A n \in DOMAIN outcomes: n \in Nat \ {0}
      /\ reported \in Nat /\ launches \in Nat
      /\ doing = "batch" => launches # 0
  BY LenProperties DEF AccountInv, TypeOK
<1>6. Named(results, reported)'
  <2>1. Named(results, reported)
    BY DEF AccountInv
  <2>2. \A n \in DOMAIN results: results[n].kind = "ok" =>
            /\ results[n].id \in Ids
            /\ source'[results[n].id] = [launch |-> reported, place |-> n]
    BY <1>4, <1>5, <2>1
  <2>3. QED
    BY <2>2 DEF Named
<1>7. \A j \in Ids: (source'[j] # None /\ source'[j].launch = reported') =>
          NamesOrGaveUp(results, j)'
  BY <1>2 DEF AccountInv, NamesOrGaveUp
<1>8. ASSUME doing = "batch"
      PROVE  /\ Named(outcomes, launches)'
             /\ \A j \in Ids: (source'[j] # None /\ source'[j].launch = launches') =>
                    \/ NamesOrGaveUp(outcomes, j)'
                    \/ wire' # None /\ wire'.reply = Created(j) /\ source'[j].place = NextPlace'
  <2>1. Named(outcomes, launches)'
    <3>1. Named(outcomes, launches)
      BY <1>8 DEF AccountInv
    <3>2. \A n \in DOMAIN outcomes: outcomes[n].kind = "ok" =>
              /\ outcomes[n].id \in Ids
              /\ source'[outcomes[n].id] = [launch |-> launches, place |-> n]
      BY <1>4, <1>5, <1>8, <3>1
    <3>3. QED
      BY <3>2 DEF Named
  <2>2. ASSUME NEW j \in Ids, source'[j] # None, source'[j].launch = launches
        PROVE  \/ NamesOrGaveUp(outcomes, j)'
               \/ wire' # None /\ wire'.reply = Created(j) /\ source'[j].place = NextPlace'
    <3>1. CASE j = i
      BY <1>2, <1>8, <2>2, <3>1 DEF NamesOrGaveUp, NextPlace
    <3>2. CASE j # i
      <4>1. source'[j] = source[j]
        BY <1>2, <3>2
      <4>2. \/ NamesOrGaveUp(outcomes, j)
            \/ wire # None /\ wire.reply = Created(j) /\ source[j].place = NextPlace
        BY <1>8, <2>2, <4>1 DEF AccountInv
      <4>3. QED
        BY <4>1, <4>2 DEF NamesOrGaveUp, NextPlace
    <3>3. QED
      BY <3>1, <3>2
  <2>3. QED
    BY <2>1, <2>2
<1>9. QED
  BY <1>3, <1>6, <1>7, <1>8 DEF AccountInv

(* A file of the batch has its outcome: the record it made is named.       *)
LEMMA OutcomeKeeps ==
    ASSUME TypeOK, AccountInv, doing = "batch", doing' = doing,
           UNCHANGED <<record, source, results, reported, launches>>,
           NEW o \in Outcome, outcomes' = Append(outcomes, o),
           o.kind = "ok" => o.id \in Ids
               /\ source[o.id] = [launch |-> launches, place |-> NextPlace],
           \A n: GaveUp(outcomes, n) => o.kind = "not_run",
           \A i \in Ids: (wire # None /\ wire.reply = Created(i)
                              /\ source[i] # None /\ source[i].launch = launches
                              /\ source[i].place = NextPlace) =>
               (o.kind = "ok" /\ o.id = i) \/ (o.kind = "error" /\ o.error = "Unreachable")
    PROVE  AccountInv'
<1>1. /\ DOMAIN outcomes' = DOMAIN outcomes \cup {NextPlace}
      /\ NextPlace \notin DOMAIN outcomes
      /\ outcomes'[NextPlace] = o
      /\ \A n \in DOMAIN outcomes:
             n \in Nat /\ n < NextPlace /\ outcomes'[n] = outcomes[n]
      /\ NextPlace \in Nat
  BY OneMore
<1>2. Named(outcomes, launches)'
  <2>1. Named(outcomes, launches)
    BY DEF AccountInv
  <2>2. QED
    BY <1>1, <2>1 DEF Named
<1>3. ASSUME NEW i \in Ids, source[i] # None, source[i].launch = launches
      PROVE  NamesOrGaveUp(outcomes, i)'
  <2>1. \/ NamesOrGaveUp(outcomes, i)
        \/ wire # None /\ wire.reply = Created(i) /\ source[i].place = NextPlace
    BY <1>3 DEF AccountInv
  <2>2. CASE GaveUp(outcomes, source[i].place)
    BY <2>2, GaveUpStays DEF NamesOrGaveUp
  <2>3. CASE wire # None /\ wire.reply = Created(i) /\ source[i].place = NextPlace
    BY <1>1, <1>3, <2>3 DEF NamesOrGaveUp, GaveUp
  <2>4. CASE /\ source[i].place \in DOMAIN outcomes
             /\ outcomes[source[i].place].kind = "ok" /\ outcomes[source[i].place].id = i
    BY <1>1, <2>4 DEF NamesOrGaveUp
  <2>5. QED
    BY <2>1, <2>2, <2>3, <2>4 DEF NamesOrGaveUp
<1>4. /\ Named(results, reported)'
      /\ \A i \in Ids: (source'[i] # None /\ source'[i].launch = reported') =>
             NamesOrGaveUp(results, i)'
  BY DEF AccountInv, Named, NamesOrGaveUp
<1>5. QED
  BY <1>2, <1>3, <1>4 DEF AccountInv

(* The account of every launch stays right.                                *)
LEMMA AccountStep ==
    ASSUME TypeOK, WireInv, OrphanInv, AccountInv, [Next]_vars
    PROVE  AccountInv'
<1> USE DEF server, script, uploadKeys, exportKeys
<1>1. CASE Quiet \/ (\E filter \in Filters: Confirm(filter)) \/ EraseCurrent
  BY <1>1, AccountStays DEF Quiet, Confirm, Asked, OnPage, EraseCurrent
<1>2. CASE Interrupt \/ LoseSession
  BY <1>2, AccountStays DEF Interrupt, LoseSession, EndScript
<1>3. CASE SendFile \/ UNCHANGED vars
  BY <1>3, AccountStays DEF SendFile, Send, vars
<1>4. CASE SendDeletion \/ DeletionAnswered
  BY <1>4, AccountStays DEF SendDeletion, DeletionAnswered
<1>5. CASE FinishDeletion \/ EraseAnswered
  BY <1>5, AccountStays DEF FinishDeletion, EraseAnswered, EndScript
<1>6. ASSUME NEW i \in Ids, RecordChanges(i)
      PROVE  AccountInv'
  <2>1. \A j \in Ids: record'[j] = "absent" => record[j] = "absent"
    BY <1>6 DEF RecordChanges, TypeOK
  <2>2. QED
    BY <1>6, <2>1, AccountStays DEF RecordChanges
<1>7. CASE Launch
  <2>1. /\ UNCHANGED <<record, source, results, reported>>
        /\ launches' = launches + 1 /\ outcomes' = <<>>
    BY <1>7 DEF Launch
  <2>2. launches \in Nat /\ reported \in Nat /\ reported <= launches
    BY DEF TypeOK
  <2>3. \A i \in Ids: source[i] # None =>
            /\ source[i].launch \in Nat /\ source[i].launch <= launches
            /\ source[i].launch # launches' /\ source[i].launch <= launches'
    BY <2>1, <2>2 DEF AccountInv, Origin, TypeOK
  <2>4. Named(outcomes, launches)'
    BY <2>1 DEF Named
  <2>5. Named(results, reported)' /\ reported' < launches'
        /\ \A i \in Ids: (source'[i] # None /\ source'[i].launch = reported') =>
               NamesOrGaveUp(results, i)'
    BY <2>1, <2>2 DEF AccountInv, Named, NamesOrGaveUp
  <2>6. QED
    BY <2>1, <2>3, <2>4, <2>5 DEF AccountInv
<1>8. CASE PassOver
  <2>1. PICK o \in Outcome:
          /\ outcomes' = Append(outcomes, o)
          /\ o.kind = IF NextPlace > MaxFiles \/ Stopped THEN "not_run" ELSE "skipped"
    BY <1>8, PassOverAppends
  <2>2. \A n: GaveUp(outcomes, n) => o.kind = "not_run"
    BY <2>1, GaveUpStops
  <2>3. /\ doing = "batch" /\ doing' = doing /\ wire = None
        /\ UNCHANGED <<record, source, results, reported, launches>>
    BY <1>8 DEF PassOver
  <2>4. QED
    BY <2>1, <2>2, <2>3, OutcomeKeeps
<1>9. CASE FileAnswered
  <2>1. PICK o \in Outcome:
          /\ outcomes' = Append(outcomes, o)
          /\ \/ o.kind = "error" /\ o.error = "Unreachable"
             \/ o.kind = "error" /\ \A i \in Ids: wire.reply # Created(i)
             \/ /\ o.kind = "ok" /\ o.id \in Ids /\ wire.reply = Created(o.id)
                /\ source[o.id] = NewPost.origin
    BY <1>9, AnswerAppends
  <2>2. \A n: ~GaveUp(outcomes, n)
    BY <1>9, AnswerAppends, GaveUpStops
  <2>3. /\ doing = "batch" /\ doing' = doing
        /\ UNCHANGED <<record, source, results, reported, launches>>
    BY <1>9 DEF FileAnswered
  <2>4. NewPost.origin = [launch |-> launches, place |-> NextPlace]
    BY DEF NewPost
  <2>5. \A i \in Ids: wire.reply = Created(i) =>
            (o.kind = "ok" /\ o.id = i) \/ (o.kind = "error" /\ o.error = "Unreachable")
    BY <2>1, RepliesDiffer
  <2>6. QED
    BY <2>1, <2>2, <2>3, <2>4, <2>5, OutcomeKeeps
<1>10. CASE FinishBatch
  <2>1. /\ UNCHANGED <<record, source, launches>> /\ doing = "batch" /\ doing' = "idle"
        /\ results' = outcomes /\ reported' = launches /\ wire = None
    BY <1>10 DEF FinishBatch, EndScript
  <2>2. launches # 0
    BY <2>1 DEF AccountInv, TypeOK
  <2>3. Named(results, reported)'
    BY <2>1 DEF AccountInv, Named
  <2>4. \A i \in Ids: (source'[i] # None /\ source'[i].launch = reported') =>
            NamesOrGaveUp(results, i)'
    BY <2>1 DEF AccountInv, NamesOrGaveUp
  <2>5. QED
    BY <2>1, <2>2, <2>3, <2>4 DEF AccountInv
<1>11. ASSUME NEW request, NEW reply, Deletes(request, reply),
              UNCHANGED <<results, reported, launches, doing, outcomes>>,
              request.id \in Ids, doing = "batch" => wire' = wire
       PROVE  AccountInv'
  <2>1. \A j \in Ids: record'[j] = "absent" => record[j] = "absent"
    BY <1>11 DEF Deletes, TypeOK
  <2>2. source' = source
    BY <1>11 DEF Deletes
  <2>3. QED
    BY <1>11, <2>1, <2>2, AccountStays
<1>12. CASE ServerAnswers
  <2>1. wire # None /\ wire.reply = None
        /\ UNCHANGED <<results, reported, launches, doing, outcomes>>
    BY <1>12 DEF ServerAnswers
  <2>2. wire \in [request: Request, reply: Reply \cup {None}]
    BY <2>1 DEF TypeOK
  <2>3. PICK reply \in Replies:
          /\ Posts(wire.request, reply) \/ Deletes(wire.request, reply)
          /\ wire' = [wire EXCEPT !.reply = reply]
    BY <1>12 DEF ServerAnswers
  <2>4. /\ wire'.reply = reply
        /\ wire' # None
    BY <2>2, <2>3, AnswerTypes, NoneAssumption
  <2>5. CASE Deletes(wire.request, reply)
    <3>1. doing # "batch" /\ wire.request.id \in Ids
      BY <2>1, <2>5 DEF Deletes, WireInv, NewPost, TypeOK
    <3>2. QED
      BY <1>11, <2>1, <2>5, <3>1
  <2>6. CASE Posts(wire.request, reply)
    <3>1. doing = "batch" /\ wire.request = NewPost
      BY <2>1, <2>6 DEF Posts, WireInv, TypeOK
    <3>2. CASE UNCHANGED server
      <4>1. \A i \in Ids: wire.reply # Created(i)
        BY <2>1, RepliesDiffer
      <4>2. QED
        BY <2>1, <2>4, <3>1, <3>2, <4>1 DEF AccountInv, Named, NamesOrGaveUp, NextPlace
    <3>3. ASSUME NEW i \in Ids, record[i] = "absent", reply = Created(i),
                 record' = [record EXCEPT ![i] = "live"],
                 source' = [source EXCEPT ![i] = wire.request.origin]
          PROVE  AccountInv'
      <4>1. /\ NewPost.origin \in Origin /\ NewPost.origin.launch = launches
            /\ NewPost.origin.place = NextPlace
        BY <3>1, OriginOfLaunch DEF NewPost
      <4>2. \A j \in Ids: source[j] # NewPost.origin
        BY <2>1, <3>1, Fresh
      <4>3. launches <= launches /\ launches # reported
        BY <3>1 DEF AccountInv, TypeOK
      <4>4. \A j \in Ids: wire.reply # Created(j)
        BY <2>1, RepliesDiffer
      <4>5. QED
        BY <2>1, <2>4, <3>1, <3>3, <4>1, <4>2, <4>3, <4>4, OneRecordMore
    <3>4. QED
      BY <2>6, <3>2, <3>3 DEF Posts
  <2>7. QED
    BY <2>3, <2>5, <2>6
<1>13. CASE ServerFinishesOrphan
  <2>1. PICK request \in orphans:
          \E reply \in Replies: Posts(request, reply) \/ Deletes(request, reply)
    BY <1>13 DEF ServerFinishesOrphan
  <2>2. PICK reply \in Replies: Posts(request, reply) \/ Deletes(request, reply)
    BY <2>1
  <2>3. UNCHANGED <<results, reported, launches, doing, outcomes, wire>>
    BY <1>13 DEF ServerFinishesOrphan
  <2>4. CASE Deletes(request, reply)
    <3>1. request.id \in Ids
      BY <2>4 DEF Deletes, OrphanInv
    <3>2. QED
      BY <1>11, <2>3, <2>4, <3>1
  <2>5. CASE Posts(request, reply)
    <3>1. /\ request.origin \in Origin /\ request.origin.launch <= launches
          /\ \A i \in Ids: source[i] # request.origin
          /\ request.origin.launch = reported => GaveUp(results, request.origin.place)
          /\ (doing = "batch" /\ request.origin.launch = launches) =>
                 GaveUp(outcomes, request.origin.place)
      BY <2>5 DEF Posts, OrphanInv
    <3>2. CASE UNCHANGED server
      BY <2>3, <3>2, AccountStays
    <3>3. ASSUME NEW i \in Ids, record[i] = "absent",
                 record' = [record EXCEPT ![i] = "live"],
                 source' = [source EXCEPT ![i] = request.origin]
          PROVE  AccountInv'
      BY <2>3, <3>1, <3>3, OneRecordMore
    <3>4. QED
      BY <2>5, <3>2, <3>3 DEF Posts
  <2>6. QED
    BY <2>2, <2>4, <2>5
<1>14. QED
  BY <1>1, <1>2, <1>3, <1>4, <1>5, <1>6, <1>7, <1>8, <1>9, <1>10, <1>12, <1>13,
     StepsOfScripts DEF ScriptStep

-----------------------------------------------------------------------------
(* The theorems.                                                           *)

(* The first page of the first session.                                    *)
LEMMA InitHolds ==
    ASSUME Init
    PROVE  InterfaceInv
<1> USE DEF Init
<1>1. TypeOK
  <2>1. NoReport \in Report /\ <<>> \in Seq(Outcome)
    BY DEF NoReport, Report
  <2>2. NoChoice \in [scope: {"selection", "filters"}, kind: {"invoices", "lines"},
                      filter: Filters]
    BY InterfaceAssumption DEF NoChoice
  <2>3. record \in [Ids -> {"absent", "live", "sealed", "expired", "erased"}]
        /\ source \in [Ids -> Origin \cup {None}]
    OBVIOUS
  <2>4. 0 \in 0..MaxClicks /\ 0 \in 0..MaxFaults
    BY InterfaceAssumption
  <2>5. QED
    BY <2>1, <2>2, <2>3, <2>4 DEF TypeOK
<1>2. PageInv /\ WireInv /\ OrphanInv /\ ReadyInv
  BY DEF PageInv, WireInv, OrphanInv, ReadyInv
<1>3. AccountInv
  BY DEF AccountInv, Named
<1>4. StopsInv
  BY DEF StopsInv, BatchStopsForACause
<1>5. DeletionInv
  BY DEF DeletionInv, DeletionIsHonest
<1>6. QED
  BY <1>1, <1>2, <1>3, <1>4, <1>5 DEF InterfaceInv

(* The invariant of the session and of the requests it has sent.           *)
THEOREM InterfaceInvHolds == Spec => []InterfaceInv
<1>1. Init => InterfaceInv
  BY InitHolds
<1>2. InterfaceInv /\ [Next]_vars => InterfaceInv'
  BY TypeStep, PageStep, WireStep, OrphanStep, AccountStep, StopsStep, DeletionStep,
     ReadyStep DEF InterfaceInv
<1>3. QED
  BY <1>1, <1>2, PTL DEF Spec

(* Every key of the session keeps its type.                                *)
THEOREM InterfaceTypeCorrect == Spec => []TypeOK
<1>1. InterfaceInv => TypeOK
  BY DEF InterfaceInv
<1>2. QED
  BY <1>1, InterfaceInvHolds, PTL

(* The report of a batch accounts for every record the batch created,      *)
(* whenever the server created it.                                         *)
THEOREM ReportAccounts == Spec => []ReportAccountsForRecords
<1>1. InterfaceInv => ReportAccountsForRecords
  <2> SUFFICES ASSUME InterfaceInv
               PROVE  ReportAccountsForRecords
    OBVIOUS
  <2>1. AccountInv
    BY DEF InterfaceInv
  <2>2. ASSUME NEW i \in Ids, source[i] # None, source[i].launch = reported
        PROVE  LET n == source[i].place
               IN /\ n \in DOMAIN results
                  /\ \/ results[n].kind = "ok" /\ results[n].id = i
                     \/ /\ results[n].error = "Unreachable"
                        /\ \A m \in DOMAIN results: m > n => results[m].kind = "not_run"
    <3>1. NamesOrGaveUp(results, i)
      BY <2>1, <2>2 DEF AccountInv
    <3>2. QED
      BY <3>1 DEF NamesOrGaveUp, GaveUp
  <2>3. \A n \in DOMAIN results: results[n].kind = "ok" =>
            source[results[n].id] = [launch |-> reported, place |-> n]
    BY <2>1 DEF AccountInv, Named
  <2>4. \A i, j \in Ids: (source[i] # None /\ source[i] = source[j]) => i = j
    BY <2>1 DEF AccountInv
  <2>5. QED
    BY <2>2, <2>3, <2>4 DEF ReportAccountsForRecords
<1>2. QED
  BY <1>1, InterfaceInvHolds, PTL

(* A batch stops at an error that the next files would meet too, or at the *)
(* one about a document that the server answers as a failure of its store, *)
(* and for no other error the server can answer.                           *)
THEOREM StopsForACause == Spec => []BatchStopsForACause
<1>1. InterfaceInv => BatchStopsForACause
  BY DEF InterfaceInv, StopsInv
<1>2. QED
  BY <1>1, InterfaceInvHolds, PTL

(* The report of a batch of deletions adds up at every moment, and what it *)
(* calls gone is gone.                                                     *)
THEOREM DeletionHonest == Spec => []DeletionIsHonest
<1>1. InterfaceInv => DeletionIsHonest
  BY DEF InterfaceInv, DeletionInv
<1>2. QED
  BY <1>1, InterfaceInvHolds, PTL

(* The file offered for a selection never widens to all the invoices.      *)
THEOREM ExportStays == Spec => []ExportStaysInSelection
<1>1. InterfaceInv => ExportStaysInSelection
  <2> SUFFICES ASSUME InterfaceInv, Offered, Scope = "selection"
               PROVE  ready.content \subseteq exportIds
    BY DEF ExportStaysInSelection
  <2>1. exportIds # {} /\ exportIds \in SUBSET Ids /\ exportIds # None
    BY NoneAssumption DEF Scope, InterfaceInv, TypeOK
  <2>2. ready # None /\ ready.request.ids = exportIds
    BY DEF Offered, OnScreen
  <2>3. QED
    BY <2>1, <2>2 DEF InterfaceInv, ReadyInv
<1>2. QED
  BY <1>1, InterfaceInvHolds, PTL

-----------------------------------------------------------------------------
(* The life of the records: every id the session or a deletion holds is    *)
(* that of a record that was created.                                      *)
Known == {i \in Ids: record[i] # "absent"}

KnownInv ==
    /\ current # None => current \in Known
    /\ pending \subseteq Known /\ todo \subseteq Known
    /\ (wire # None /\ wire.request.op = "DELETE") => wire.request.id \in Known
    /\ \A q \in orphans: q.op = "DELETE" => q.id \in Known

(* A record that was created is erased.                                    *)
LEMMA OneErased ==
    ASSUME TypeOK, NEW i \in Known, record[i] # "erased",
           record' = [record EXCEPT ![i] = "erased"]
    PROVE  Lifecycle!Next /\ Known \subseteq Known'
<1>0. DOMAIN record = Ids
  BY DEF TypeOK
<1>1. \A j \in {i}: LifeOfRecords[j].state = "live"
  BY DEF LifeOfRecords, Life, Known
<1>2. LifeOfRecords' = [j \in Ids |->
          IF j \in {i} THEN Lifecycle!Erased ELSE LifeOfRecords[j]]
  BY <1>0 DEF LifeOfRecords, Life, Lifecycle!Erased
<1>3. Lifecycle!Erase({i}) /\ {i} \in SUBSET Ids
  BY <1>1, <1>2 DEF Lifecycle!Erase, Known
<1>4. QED
  BY <1>0, <1>3 DEF Lifecycle!Next, Known

(* What an answer of the server does to the records: it creates one, it    *)
(* erases the one it was asked to erase, or it leaves them alone.          *)
LEMMA AnswerToRecords ==
    ASSUME TypeOK, NEW request, NEW reply,
           \/ Posts(request, reply)
           \/ Deletes(request, reply) /\ request.id \in Known
    PROVE  [Lifecycle!Next]_LifeOfRecords /\ Known \subseteq Known'
<1> USE DEF server
<1>1. ASSUME NEW i \in Ids, record[i] = "absent", record' = [record EXCEPT ![i] = "live"]
      PROVE  Lifecycle!Next /\ Known \subseteq Known'
  <2>0. DOMAIN record = Ids
    BY DEF TypeOK
  <2>1. LifeOfRecords[i] = Lifecycle!Absent
    BY <1>1 DEF LifeOfRecords, Life, Lifecycle!Absent
  <2>2. LifeOfRecords' = [LifeOfRecords EXCEPT ![i] = Lifecycle!LiveUntil(0)]
    BY <1>1, <2>0 DEF LifeOfRecords, Life, Lifecycle!LiveUntil
  <2>3. Lifecycle!Create(i)
    BY <2>1, <2>2 DEF Lifecycle!Create
  <2>4. QED
    BY <1>1, <2>0, <2>3 DEF Lifecycle!Next, Known
<1>2. CASE UNCHANGED server
  BY <1>2 DEF LifeOfRecords, Known
<1>3. CASE Posts(request, reply)
  BY <1>1, <1>2, <1>3 DEF Posts
<1>4. CASE Deletes(request, reply) /\ request.id \in Known
  BY <1>2, <1>4, OneErased DEF Deletes
<1>5. QED
  BY <1>3, <1>4

(* What happens to a record outside requests: only its erasure counts.     *)
LEMMA ChangeToRecords ==
    ASSUME TypeOK, NEW i \in Ids, RecordChanges(i)
    PROVE  [Lifecycle!Next]_LifeOfRecords /\ Known \subseteq Known'
<1>1. ASSUME NEW new \in {"expired", "sealed"}, record[i] \in {"live", "sealed"},
             record' = [record EXCEPT ![i] = new]
      PROVE  UNCHANGED LifeOfRecords /\ Known \subseteq Known'
  BY <1>1 DEF LifeOfRecords, Life, Known, TypeOK
<1>2. CASE record[i] \in {"live", "sealed", "expired"}
           /\ record' = [record EXCEPT ![i] = "erased"]
  BY <1>2, OneErased DEF Known
<1>3. QED
  BY <1>1, <1>2 DEF RecordChanges

(* The records after a step of the system.                                 *)
LEMMA RecordsStep ==
    ASSUME TypeOK, WireInv, OrphanInv, KnownInv, [Next]_vars
    PROVE  [Lifecycle!Next]_LifeOfRecords /\ Known \subseteq Known'
<1> USE DEF server
<1>1. CASE ServerAnswers
  <2>1. PICK reply \in Replies: Posts(wire.request, reply) \/ Deletes(wire.request, reply)
    BY <1>1 DEF ServerAnswers
  <2>2. Deletes(wire.request, reply) => wire.request.id \in Known
    BY <1>1 DEF ServerAnswers, Deletes, KnownInv
  <2>3. QED
    BY <2>1, <2>2, AnswerToRecords
<1>2. CASE ServerFinishesOrphan
  <2>1. PICK q \in orphans, reply \in Replies: Posts(q, reply) \/ Deletes(q, reply)
    BY <1>2 DEF ServerFinishesOrphan
  <2>2. Deletes(q, reply) => q.id \in Known
    BY DEF Deletes, KnownInv
  <2>3. QED
    BY <2>1, <2>2, AnswerToRecords
<1>3. ASSUME NEW i \in Ids, RecordChanges(i)
      PROVE  [Lifecycle!Next]_LifeOfRecords /\ Known \subseteq Known'
  BY <1>3, ChangeToRecords
<1>4. CASE UNCHANGED record
  BY <1>4 DEF LifeOfRecords, Known
<1>5. CASE Quiet \/ UNCHANGED vars \/ Launch \/ (\E filter \in Filters: Confirm(filter))
           \/ EraseCurrent \/ Interrupt \/ LoseSession
  BY <1>4, <1>5 DEF Quiet, vars, Launch, Confirm, EraseCurrent, Interrupt, LoseSession
<1>6. CASE ScriptStep
  BY <1>4, <1>6 DEF ScriptStep, PassOver, SendFile, FileAnswered, FinishBatch,
     SendDeletion, DeletionAnswered, FinishDeletion, EraseAnswered
<1>7. QED
  BY <1>1, <1>2, <1>3, <1>5, <1>6, StepsOfScripts

(* The ids of a step of the user.                                          *)
LEMMA UserKnows ==
    ASSUME TypeOK, AccountInv, KnownInv, PageInv, UserStep
    PROVE  /\ current' # None => current' \in Known
           /\ pending' \subseteq Known /\ todo' \subseteq Known
<1> USE DEF KnownInv, server, script, uploadKeys, exportKeys
<1>1. ASSUME NEW i, i # None => i \in Known, DrawResult(i)
      PROVE  current' # None => current' \in Known
  BY <1>1 DEF DrawResult
<1>2. ASSUME NEW p, Goto(p)
      PROVE  current' # None => current' \in Known
  BY <1>1, <1>2 DEF Goto
<1>3. ASSUME NEW n \in DOMAIN results, View(n)
      PROVE  current' # None => current' \in Known
  <2>1. results[n].kind = "ok" /\ DrawResult(results[n].id)
    BY <1>3 DEF View
  <2>2. results[n].id \in Ids /\ source[results[n].id] = [launch |-> reported, place |-> n]
    BY <2>1 DEF AccountInv, Named
  <2>3. [launch |-> reported, place |-> n] # None
    <3>1. n \in 1..Len(results) /\ Len(results) \in Nat /\ results # <<>>
      BY LenProperties DEF TypeOK
    <3>2. reported \in Nat \ {0}
      BY <3>1 DEF AccountInv, TypeOK
    <3>3. [launch |-> reported, place |-> n] \in Origin
      BY <3>1, <3>2 DEF Origin
    <3>4. QED
      BY <3>3, NoneAssumption
  <2>4. results[n].id \in Known
    BY <2>2, <2>3 DEF AccountInv, Known
  <2>5. QED
    BY <1>1, <2>1, <2>4
<1>4. ASSUME NEW filter \in Filters
      PROVE  Listed(filter) \subseteq Known
  BY DEF Listed, Visible, Known
<1>5. ASSUME NEW filter \in Filters, NEW i \in Listed(filter), Open(i)
      PROVE  current' # None => current' \in Known
  BY <1>1, <1>4, <1>5 DEF Open
<1>6. CASE Redraw
  BY <1>1, <1>6 DEF Redraw
<1>7. ASSUME NEW filter \in Filters, NEW selected \in SUBSET Listed(filter), AskDelete(selected)
      PROVE  pending' \subseteq Known
  BY <1>4, <1>7 DEF AskDelete
<1>8. \/ current' = current
      \/ \E p: Goto(p)
      \/ \E n \in DOMAIN results: View(n)
      \/ \E filter \in Filters: \E i \in Listed(filter): Open(i)
      \/ Redraw
  BY DEF UserStep, Interrupt, Choose, Launch, ClearResults, ExportSelection, AskDelete,
     Confirm, Cancel, EraseCurrent, ChooseExport, DropSelection, Prepare, PrepareFails, Download
<1>9. \/ pending' = pending \/ pending' = {}
      \/ \E filter \in Filters: \E selected \in SUBSET Listed(filter): AskDelete(selected)
  BY DEF UserStep, Goto, Interrupt, Choose, Launch, ClearResults, View, Open,
     ExportSelection, Confirm, Cancel, Redraw, EraseCurrent, ChooseExport,
     DropSelection, Prepare, PrepareFails, Download
<1>10. todo' \in {todo, {}, pending}
  BY DEF UserStep, Goto, Interrupt, EndScript, Choose, Launch, ClearResults, View, Open,
     ExportSelection, AskDelete, Confirm, Cancel, Redraw, EraseCurrent, ChooseExport,
     DropSelection, Prepare, PrepareFails, Download
<1>11. QED
  BY <1>2, <1>3, <1>5, <1>6, <1>7, <1>8, <1>9, <1>10

(* The requests of a step: one that is sent has an id of the session, one  *)
(* that is given up keeps its own.                                         *)
LEMMA KnownStep ==
    ASSUME TypeOK, PageInv, WireInv, OrphanInv, AccountInv, KnownInv, [Next]_vars
    PROVE  KnownInv'
<1> USE DEF server, script, uploadKeys, exportKeys
<1>1. Known \subseteq Known'
  BY RecordsStep
<1>2. /\ current' # None => current' \in Known
      /\ pending' \subseteq Known /\ todo' \subseteq Known
  <2>1. CASE UserStep
    BY <2>1, UserKnows
  <2>2. CASE PassOver \/ SendFile \/ FileAnswered \/ FinishBatch
    BY <2>2 DEF PassOver, SendFile, FileAnswered, FinishBatch, EndScript, KnownInv
  <2>3. CASE SendDeletion \/ DeletionAnswered \/ FinishDeletion \/ EraseAnswered
    BY <2>3 DEF SendDeletion, DeletionAnswered, Done, NotDone, FinishDeletion,
       EraseAnswered, EndScript, KnownInv
  <2>4. CASE ServerAnswers \/ ServerFinishesOrphan \/ (\E i \in Ids: RecordChanges(i))
             \/ LoseSession \/ UNCHANGED vars
    BY <2>4 DEF ServerAnswers, ServerFinishesOrphan, RecordChanges, LoseSession,
       EndScript, vars, KnownInv
  <2>5. QED
    BY <2>1, <2>2, <2>3, <2>4 DEF Next, ScriptStep
<1>3. (wire' # None /\ wire'.request.op = "DELETE") => wire'.request.id \in Known
  <2>1. CASE SendDeletion
    BY <2>1 DEF SendDeletion, Send, KnownInv
  <2>2. CASE EraseCurrent
    <3>1. current \in Ids /\ wire' = [request |-> [op |-> "DELETE", origin |-> None,
                                                   id |-> current], reply |-> None]
      BY <2>2 DEF EraseCurrent, Send, OnPage, PageInv
    <3>2. current # None
      BY <3>1, InterfaceAssumption DEF Ids
    <3>3. current \in Known
      BY <3>2 DEF KnownInv
    <3>4. QED
      BY <3>1, <3>3
  <2>3. CASE SendFile
    BY <2>3 DEF SendFile, Send
  <2>4. CASE ServerAnswers
    <3>1. wire # None /\ wire \in [request: Request, reply: Reply \cup {None}]
      BY <2>4 DEF ServerAnswers, TypeOK
    <3>2. wire'.request = wire.request
      BY <2>4, <3>1 DEF ServerAnswers
    <3>3. QED
      BY <3>1, <3>2 DEF KnownInv
  <2>5. CASE wire' \in {wire, None}
    BY <2>5 DEF KnownInv
  <2>6. CASE Quiet \/ UNCHANGED vars \/ Launch \/ (\E filter \in Filters: Confirm(filter))
             \/ Interrupt \/ LoseSession \/ ServerFinishesOrphan
             \/ (\E i \in Ids: RecordChanges(i))
    BY <2>5, <2>6 DEF Quiet, vars, Launch, Confirm, Interrupt, LoseSession,
       ServerFinishesOrphan, RecordChanges
  <2>7. CASE PassOver \/ FileAnswered \/ FinishBatch \/ DeletionAnswered
             \/ FinishDeletion \/ EraseAnswered
    BY <2>5, <2>7 DEF PassOver, FileAnswered, FinishBatch, DeletionAnswered,
       FinishDeletion, EraseAnswered, Hear
  <2>8. QED
    BY <2>1, <2>2, <2>3, <2>4, <2>6, <2>7, StepsOfScripts DEF ScriptStep
<1>4. \A q \in orphans': q.op = "DELETE" => q.id \in Known
  <2>1. \A q \in orphans': q \in orphans \/ (wire # None /\ q = wire.request)
    <3>1. CASE orphans' \subseteq orphans \cup
                   (IF wire # None /\ wire.reply = None THEN {wire.request} ELSE {})
      BY <3>1
    <3>2. CASE Quiet \/ UNCHANGED vars \/ Launch \/ (\E filter \in Filters: Confirm(filter))
               \/ EraseCurrent \/ Interrupt \/ LoseSession \/ ServerFinishesOrphan
               \/ ServerAnswers \/ (\E i \in Ids: RecordChanges(i))
      BY <3>1, <3>2 DEF Quiet, vars, Launch, Confirm, EraseCurrent, Interrupt,
         LoseSession, ServerFinishesOrphan, ServerAnswers, RecordChanges
    <3>3. CASE FileAnswered \/ DeletionAnswered \/ EraseAnswered
      BY <3>3 DEF FileAnswered, DeletionAnswered, EraseAnswered, Hear
    <3>4. CASE PassOver \/ SendFile \/ FinishBatch \/ SendDeletion \/ FinishDeletion
      BY <3>4 DEF PassOver, SendFile, FinishBatch, SendDeletion, FinishDeletion
    <3>5. QED
      BY <3>2, <3>3, <3>4, StepsOfScripts DEF ScriptStep
  <2>2. QED
    BY <2>1 DEF KnownInv
<1>5. QED
  BY <1>1, <1>2, <1>3, <1>4 DEF KnownInv

(* No request reaches the server with an id that no upload was given, and  *)
(* what becomes of the records is a life that InvoiceStore allows them.    *)
THEOREM RecordsGoThroughTheirLife == Spec => RecordsLiveOnce
<1>1. Init => KnownInv
  BY DEF Init, KnownInv, Known
<1>2. InterfaceInv /\ KnownInv /\ [Next]_vars => KnownInv'
  BY KnownStep DEF InterfaceInv
<1>3. InterfaceInv /\ KnownInv /\ [Next]_vars => [Lifecycle!Next]_LifeOfRecords
  BY RecordsStep DEF InterfaceInv
<1>4. QED
  BY <1>1, <1>2, <1>3, InterfaceInvHolds, PTL DEF Spec, RecordsLiveOnce

-----------------------------------------------------------------------------
(* A script gets shorter.                                                  *)

(* There is an outcome for files of the batch only.                        *)
OutcomesFit == doing = "batch" => Len(outcomes) <= Len(batch)

Unsettled == IF doing = "batch" THEN Len(batch) - Len(outcomes) ELSE Cardinality(todo)

(* The files chosen, the batch and its outcomes have a length.             *)
LEMMA Lengths ==
    ASSUME TypeOK
    PROVE  /\ Len(outcomes) \in Nat /\ Len(batch) \in Nat /\ Len(chosen) \in Nat
           /\ NextPlace = Len(outcomes) + 1
<1>1. Batches \cup {<<>>} \subseteq Seq(Files)
  <2>1. Batches \subseteq Seq(Files) \ {<<>>}
    BY InterfaceAssumption
  <2>2. <<>> \in Seq(Files)
    OBVIOUS
  <2>3. QED
    BY <2>1, <2>2
<1>2. outcomes \in Seq(Outcome) /\ batch \in Seq(Files) /\ chosen \in Seq(Files)
  BY <1>1 DEF TypeOK
<1>3. QED
  BY <1>2, LenProperties DEF NextPlace

(* An outcome is added for a file that had none.                           *)
LEMMA FitStep ==
    ASSUME TypeOK, WireInv, OutcomesFit, [Next]_vars
    PROVE  OutcomesFit'
<1> USE DEF server, script, uploadKeys, exportKeys
<1>1. CASE UNCHANGED <<doing, batch, outcomes>>
  BY <1>1 DEF OutcomesFit
<1>2. CASE doing' # "batch"
  BY <1>2 DEF OutcomesFit
<1>3. CASE Launch
  <2>1. batch' = chosen /\ outcomes' = <<>>
    BY <1>3 DEF Launch
  <2>2. QED
    BY <2>1, Lengths DEF OutcomesFit
<1>4. ASSUME NextPlace <= Len(batch), batch' = batch,
             \E o \in Outcome: outcomes' = Append(outcomes, o)
      PROVE  OutcomesFit'
  <2>1. Len(outcomes') = Len(outcomes) + 1
    BY <1>4, AppendProperties DEF TypeOK
  <2>2. QED
    BY <1>4, <2>1, Lengths DEF OutcomesFit
<1>5. CASE PassOver
  BY <1>4, <1>5, PassOverAppends DEF PassOver
<1>6. CASE FileAnswered
  <2>1. wire # None /\ doing = "batch" /\ batch' = batch
        /\ \E o \in Outcome: outcomes' = Append(outcomes, o)
    BY <1>6, AnswerAppends DEF FileAnswered
  <2>2. QED
    BY <1>4, <2>1 DEF WireInv
<1>7. CASE (\E filter \in Filters: Confirm(filter)) \/ EraseCurrent \/ Interrupt
           \/ LoseSession \/ FinishBatch \/ FinishDeletion \/ EraseAnswered
  BY <1>2, <1>7 DEF Confirm, EraseCurrent, Interrupt, LoseSession, FinishBatch,
     FinishDeletion, EraseAnswered, EndScript
<1>8. CASE Quiet \/ UNCHANGED vars \/ SendFile \/ SendDeletion \/ DeletionAnswered
           \/ ServerAnswers \/ ServerFinishesOrphan \/ (\E i \in Ids: RecordChanges(i))
  BY <1>1, <1>8 DEF Quiet, vars, SendFile, SendDeletion, DeletionAnswered,
     ServerAnswers, ServerFinishesOrphan, RecordChanges
<1>9. QED
  BY <1>3, <1>5, <1>6, <1>7, <1>8, StepsOfScripts DEF ScriptStep

(* The measure: nothing is settled twice, and a request is for something   *)
(* that is not settled yet.                                                *)
Measured ==
    /\ StepsLeft \in Nat
    /\ doing = "idle" => StepsLeft = 0
    /\ doing = "erase" => StepsLeft = 1
    /\ doing \in {"batch", "delete"} =>
        /\ Unsettled \in Nat
        /\ wire = None => StepsLeft = 2 * Unsettled + 1
        /\ wire # None => StepsLeft = 2 * Unsettled /\ Unsettled >= 1

LEMMA StepsAreMeasured ==
    ASSUME TypeOK, WireInv, OutcomesFit
    PROVE  Measured
<1> USE DEF Measured
<1>1. CASE doing \in {"idle", "erase"}
  BY <1>1 DEF StepsLeft
<1>2. CASE doing = "batch"
  <2>1. Unsettled \in Nat
    BY <1>2, Lengths DEF OutcomesFit, Unsettled
  <2>2. wire # None => Unsettled >= 1
    BY <1>2, Lengths DEF WireInv, Unsettled
  <2>3. QED
    BY <1>2, <2>1, <2>2 DEF StepsLeft, Unsettled
<1>3. CASE doing = "delete"
  <2>1. Unsettled \in Nat /\ todo \subseteq Ids
    BY <1>3, IdSets DEF TypeOK, Unsettled
  <2>2. wire # None => Unsettled >= 1
    BY <1>3, <2>1, IdSets DEF WireInv, Unsettled
  <2>3. QED
    BY <1>3, <2>1, <2>2 DEF StepsLeft, Unsettled
<1>4. QED
  BY <1>1, <1>2, <1>3 DEF TypeOK

(* A request that is sent is on the wire.                                  *)
LEMMA SentIsSomething ==
    ASSUME TypeOK, AccountInv, SendFile \/ SendDeletion
    PROVE  wire' # None
<1>1. ASSUME NEW request \in Request, Send(request)
      PROVE  wire' # None
  <2>1. [request |-> request, reply |-> None] \in [request: Request, reply: Reply \cup {None}]
    OBVIOUS
  <2>2. QED
    BY <1>1, <2>1, NoneAssumption DEF Send
<1>2. CASE SendFile
  <2>1. launches \in Nat \ {0} /\ NextPlace \in Nat \ {0}
    BY <1>2, Lengths DEF SendFile, AccountInv, TypeOK
  <2>2. [op |-> "POST", origin |-> [launch |-> launches, place |-> NextPlace], id |-> None]
        \in Request
    BY <2>1 DEF Request, Origin
  <2>3. QED
    BY <1>1, <1>2, <2>2 DEF SendFile
<1>3. CASE SendDeletion
  <2>1. \A i \in todo: [op |-> "DELETE", origin |-> None, id |-> i] \in Request
    BY DEF Request, TypeOK
  <2>2. QED
    BY <1>1, <1>3, <2>1 DEF SendDeletion
<1>4. QED
  BY <1>2, <1>3

(* A step of the script: something more is settled, or a request is sent   *)
(* for it, or the script is over.                                          *)
LEMMA ScriptStepShortens ==
    ASSUME TypeOK, WireInv, AccountInv, Measured, Measured', ScriptStep
    PROVE  StepsLeft' < StepsLeft
<1> USE DEF Measured
<1>1. CASE SendFile \/ SendDeletion
  <2>1. /\ doing \in {"batch", "delete"} /\ wire = None
        /\ UNCHANGED <<doing, batch, outcomes, todo>>
    BY <1>1 DEF SendFile, SendDeletion, Send
  <2>2. wire' # None
    BY <1>1, SentIsSomething
  <2>3. Unsettled' = Unsettled
    BY <2>1 DEF Unsettled
  <2>4. QED
    BY <2>1, <2>2, <2>3
<1>2. CASE PassOver \/ FileAnswered
  <2>1. doing = "batch" /\ UNCHANGED <<doing, batch>>
    BY <1>2 DEF PassOver, FileAnswered
  <2>2. PICK o \in Outcome: outcomes' = Append(outcomes, o)
    BY <1>2, PassOverAppends, AnswerAppends
  <2>3. Len(outcomes') = Len(outcomes) + 1
    BY <2>2, AppendProperties DEF TypeOK
  <2>4. Unsettled' = Unsettled - 1
    BY <2>1, <2>3, Lengths DEF Unsettled
  <2>5. wire' = None
    BY <1>2, AnswerAppends DEF PassOver
  <2>6. QED
    BY <2>1, <2>4, <2>5
<1>3. CASE DeletionAnswered
  <2>1. PICK reply \in Heard:
          /\ Hear(reply)
          /\ Done(wire.request.id) \/ NotDone(wire.request.id, reply)
    BY <1>3 DEF DeletionAnswered
  <2>2. doing = "delete" /\ doing' = "delete" /\ wire # None /\ wire' = None
    BY <1>3, <2>1, HearTypes DEF DeletionAnswered
  <2>3. wire.request.id \in todo /\ todo \subseteq Ids
    BY <2>2 DEF WireInv, TypeOK
  <2>4. todo' = {} \/ todo' = todo \ {wire.request.id}
    BY <2>1 DEF Done, NotDone
  <2>5. Cardinality(todo') <= Cardinality(todo) - 1
    <3>1. Cardinality(todo) \in Nat /\ Cardinality(todo) >= 1 /\ Cardinality({}) = 0
          /\ Cardinality(todo \ {wire.request.id}) = Cardinality(todo) - 1
      BY <2>3, IdSets
    <3>2. CASE todo' = {}
      <4>1. Cardinality(todo') = 0
        BY <3>1, <3>2
      <4>2. QED
        BY <3>1, <4>1
    <3>3. CASE todo' = todo \ {wire.request.id}
      <4>1. Cardinality(todo') = Cardinality(todo) - 1
        BY <3>1, <3>3
      <4>2. QED
        BY <3>1, <4>1
    <3>4. QED
      BY <2>4, <3>2, <3>3
  <2>6. Unsettled' <= Unsettled - 1
    BY <2>2, <2>5 DEF Unsettled
  <2>7. QED
    BY <2>2, <2>6
<1>4. CASE FinishBatch \/ FinishDeletion \/ EraseAnswered
  <2>1. doing' = "idle" /\ doing \in {"batch", "delete", "erase"}
    BY <1>4 DEF FinishBatch, FinishDeletion, EraseAnswered, EndScript
  <2>2. doing \in {"batch", "delete"} => wire = None
    BY <1>4 DEF FinishBatch, FinishDeletion, EraseAnswered
  <2>3. QED
    BY <2>1, <2>2
<1>5. QED
  BY <1>1, <1>2, <1>3, <1>4 DEF ScriptStep

(* Nothing else that happens while a script runs sets it back.             *)
LEMMA NothingSetsBack ==
    ASSUME TypeOK, WireInv, AccountInv, Measured, Measured', doing # "idle", [Next]_vars
    PROVE  StepsLeft' <= StepsLeft
<1> USE DEF server, script, uploadKeys, exportKeys
<1>1. StepsLeft \in Nat /\ StepsLeft' \in Nat
  BY DEF Measured
<1>2. CASE ScriptStep
  BY <1>1, <1>2, ScriptStepShortens
<1>3. CASE doing' = "idle"
  BY <1>1, <1>3 DEF StepsLeft
<1>4. CASE UNCHANGED <<doing, batch, outcomes, todo>> /\ (wire # None => wire' # None)
  <2>1. \/ Unsettled' = Unsettled /\ Unsettled \in Int
        \/ doing = "erase"
    BY <1>4 DEF Measured, Unsettled, TypeOK
  <2>2. QED
    BY <1>1, <1>4, <2>1 DEF StepsLeft, Unsettled
<1>5. CASE UNCHANGED vars \/ ServerFinishesOrphan \/ (\E i \in Ids: RecordChanges(i))
  BY <1>4, <1>5 DEF vars, ServerFinishesOrphan, RecordChanges
<1>6. CASE ServerAnswers
  <2>1. wire # None /\ UNCHANGED <<doing, batch, outcomes, todo>>
    BY <1>6 DEF ServerAnswers
  <2>2. wire' # None
    <3>1. wire \in [request: Request, reply: Reply \cup {None}]
      BY <2>1 DEF TypeOK
    <3>2. PICK reply \in Reply: wire' = [wire EXCEPT !.reply = reply]
      BY <1>6, AnswerTypes DEF ServerAnswers
    <3>3. wire' \in [request: Request, reply: Reply \cup {None}]
      BY <3>1, <3>2
    <3>4. QED
      BY <3>3, NoneAssumption
  <2>3. QED
    BY <1>4, <2>1, <2>2
<1>7. CASE Interrupt \/ LoseSession
  BY <1>3, <1>7 DEF Interrupt, LoseSession, EndScript
<1>8. ~Quiet /\ ~Launch /\ ~EraseCurrent /\ \A filter \in Filters: ~Confirm(filter)
  BY DEF Quiet, Launch, EraseCurrent, Confirm, Asked, OnPage
<1>9. QED
  BY <1>2, <1>5, <1>6, <1>7, <1>8, StepsOfScripts

(* Every step of a script brings it nearer to its end, and nothing else    *)
(* sets it back: what is left to ScriptsEnd is that it takes its steps.    *)
THEOREM ScriptsShorten == Spec => [](StepsLeft \in Nat) /\ ScriptsGetShorter
<1>1. Init => OutcomesFit
  BY DEF Init, OutcomesFit
<1>2. InterfaceInv /\ OutcomesFit /\ [Next]_vars => OutcomesFit'
  BY FitStep DEF InterfaceInv
<1>3. InterfaceInv /\ OutcomesFit => Measured /\ StepsLeft \in Nat
  BY StepsAreMeasured DEF InterfaceInv, Measured
<1>4. InterfaceInv /\ Measured /\ Measured' /\ [Next]_vars
      => [doing # "idle" => /\ StepsLeft' <= StepsLeft
                            /\ ScriptStep => StepsLeft' < StepsLeft]_vars
  BY ScriptStepShortens, NothingSetsBack DEF InterfaceInv
<1>5. QED
  BY <1>1, <1>2, <1>3, <1>4, InterfaceInvHolds, PTL DEF Spec, ScriptsGetShorter
=============================================================================
