----------------------------- MODULE Interface -----------------------------
(***************************************************************************)
(* One browser session of the Streamlit interface and the invoice records  *)
(* behind the HTTP API.  A page is a script that runs once per user action *)
(* and keeps what must survive in session keys.  The scripts that change   *)
(* records (a batch of uploads, a batch of deletions, one deletion) send   *)
(* one request at a time and wait for it up to a timeout.                  *)
(*                                                                         *)
(* Hard parts: a request the interface gave up on may still be executed;   *)
(* a user action stops the running script at its next call into Streamlit, *)
(* with what it held in local variables; records expire, and disappear     *)
(* through other sessions, while their ids are in the session.             *)
(*                                                                         *)
(* A read changes nothing, so it is one step with the code that uses it,   *)
(* and a read that fails is a step that is not taken.  A record is its     *)
(* place in the order of creation, a file is itself, and a filter is the   *)
(* set of records it would match.  What a correction sends is in module    *)
(* Validation, what the server does inside a request in InvoiceStore.      *)
(***************************************************************************)
EXTENDS Naturals, Sequences, FiniteSets

CONSTANTS
    Files,          \* files on the user's disk
    Wrong,          \* those that precheck refuses
    Batches,        \* what the user may put in the uploader (sequences of files)
    Causes,         \* the errors an upload may meet in this instance
    Filters,        \* what the user may ask the list and the export for
    Bare,           \* invoices without lines
    None,           \* no value
    MaxFiles,       \* MAX_FILES
    MaxRows,        \* MAX_ROWS, MAX_EXPORT_ROWS
    MaxExportIds,   \* MAX_EXPORT_IDS
    OldRecords,     \* bound of the model: records that exist at the beginning
    MaxRecords,     \* bound of the model: records that ever exist
    MaxClicks,      \* bound of the model: actions of the user
    MaxFaults       \* bound of the model: expired, altered, lost sessions

Ids == 1..MaxRecords

(* to_http_error: the answer to each exception, by its class.  The token   *)
(* check answers 401 by itself.  Two causes share the status of a store    *)
(* that fails: an answer that its own record cannot hold (_open raises a   *)
(* StorageError), and every exception the table does not list.             *)
HttpStatus == [
    Unauthorized |-> 401, UploadTooLarge |-> 413, InvalidUpload |-> 415,
    UploadRateLimited |-> 429, ServerBusy |-> 503, APIConfig |-> 500,
    PDFTooLarge |-> 413, PDFCorrupted |-> 422, EmptyDocument |-> 422,
    UnsupportedPDF |-> 422, DailyQuotaExceeded |-> 429, RateLimit |-> 429,
    LLMAuth |-> 503, ProviderTimeout |-> 504, ExtractionFailed |-> 502,
    Storage |-> 500, UnreadableAnswer |-> 500, Unexpected |-> 500]

ASSUME InterfaceAssumption ==
    /\ {MaxFiles, MaxRows, MaxExportIds, OldRecords, MaxRecords, MaxClicks, MaxFaults}
           \subseteq Nat
    /\ OldRecords <= MaxRecords
    /\ Batches \subseteq Seq(Files) \ {<<>>}
    /\ Causes \subseteq DOMAIN HttpStatus
    /\ Filters \subseteq SUBSET Ids /\ Ids \in Filters
    /\ None \notin Nat

VARIABLES
    record,         \* record[i]: "absent", "live", "sealed" (does not open),
                    \* "expired" (not purged yet) or "erased"
    source,         \* source[i]: the launch and the place in it that created i
    page,           \* the page on screen; "invoice" is the Result page that
                    \* could read its invoice and draws it
    chosen,         \* the files in the uploader
    results,        \* RESULTS_KEY: the outcomes of launch number "reported"
    reported,
    current,        \* CURRENT_RECORD_KEY
    pending,        \* PENDING_DELETE_KEY
    exportIds,      \* EXPORT_IDS_KEY
    ready,          \* READY_KEY: the prepared file and its request
    screen,         \* the choices made on the Export page
    doing,          \* the script in progress
    batch, outcomes,\* process_batch: its files and the outcomes so far
    todo, tally,    \* delete_many: the ids left and the report so far
    wire,           \* the request in progress and its reply
    orphans,        \* requests nobody waits for any more
    launches, clicks, faults

server == <<record, source>>
uploadKeys == <<chosen, results, reported>>
exportKeys == <<exportIds, ready, screen>>
script == <<doing, batch, outcomes, todo, tally, wire>>
vars == <<record, source, page, chosen, results, reported, current, pending,
          exportIds, ready, screen, doing, batch, outcomes, todo, tally, wire,
          orphans, launches, clicks, faults>>

-----------------------------------------------------------------------------
(* Values.                                                                 *)

Origin == [launch: Nat \ {0}, place: Nat \ {0}]
Errors == DOMAIN HttpStatus \cup {"Unreachable"}
Outcome == [kind: {"ok", "error", "skipped", "not_run"},
            id: Ids \cup {None}, error: Errors \cup {None}]
Report == [deleted: SUBSET Ids, gone: SUBSET Ids, failed: SUBSET Ids, left: Nat]
ExportRequest == [ids: (SUBSET Ids) \cup {None}, kind: {"invoices", "lines"},
                  filter: Filters \cup {None}]
Request == [op: {"POST", "DELETE"}, origin: Origin \cup {None}, id: Ids \cup {None}]
Reply == [status: Nat, id: Ids \cup {None}, error: Errors \cup {None}]

(* None is no value of the fields it may stand in.                         *)
ASSUME NoneAssumption ==
    /\ None \notin Errors /\ None \notin Origin /\ None \notin Reply
    /\ \A ids \in SUBSET Ids: None # ids
    /\ None \notin [request: Request, reply: Reply \cup {None}]

NoReport == [deleted |-> {}, gone |-> {}, failed |-> {}, left |-> 0]
NoChoice == [scope |-> "selection", kind |-> "invoices", filter |-> Ids]

TypeOK ==
    /\ record \in [Ids -> {"absent", "live", "sealed", "expired", "erased"}]
    /\ source \in [Ids -> Origin \cup {None}]
    /\ page \in {"upload", "result", "invoice", "history", "export"}
    /\ chosen \in Batches \cup {<<>>} /\ batch \in Batches \cup {<<>>}
    /\ results \in Seq(Outcome) /\ outcomes \in Seq(Outcome)
    /\ {reported, launches} \subseteq Nat /\ reported <= launches
    /\ current \in Ids \cup {None}
    /\ {pending, exportIds, todo} \subseteq SUBSET Ids
    /\ ready \in [request: ExportRequest, content: SUBSET Ids] \cup {None}
    /\ screen \in [scope: {"selection", "filters"}, kind: {"invoices", "lines"},
                   filter: Filters]
    /\ doing \in {"idle", "batch", "delete", "erase"}
    /\ tally \in Report
    /\ wire \in [request: Request, reply: Reply \cup {None}] \cup {None}
    /\ orphans \subseteq Request
    /\ clicks \in 0..MaxClicks /\ faults \in 0..MaxFaults

Init ==
    /\ record = [i \in Ids |-> IF i <= OldRecords THEN "live" ELSE "absent"]
    /\ source = [i \in Ids |-> None]
    /\ page = "upload" /\ chosen = <<>> /\ results = <<>> /\ reported = 0
    /\ current = None /\ pending = {}
    /\ exportIds = {} /\ ready = None /\ screen = NoChoice
    /\ doing = "idle" /\ batch = <<>> /\ outcomes = <<>>
    /\ todo = {} /\ tally = NoReport /\ wire = None
    /\ orphans = {} /\ launches = 0 /\ clicks = 0 /\ faults = 0

-----------------------------------------------------------------------------
(* The server's side of a request.                                         *)

Visible == {i \in Ids: record[i] = "live"}

(* repository.list: the newest matches that are neither expired nor        *)
(* unreadable, up to the limit.                                            *)
Listed(filter) ==
    LET matches == Visible \cap filter
    IN {i \in matches: Cardinality({j \in matches: j > i}) < MaxRows}

Refusal(cause) == [status |-> HttpStatus[cause], id |-> None, error |-> cause]
NotFound == [status |-> 404, id |-> None, error |-> None]
Erased == [status |-> 204, id |-> None, error |-> None]
Created(i) == [status |-> 201, id |-> i, error |-> None]

(* POST: a record under a new id, or one of the errors.                    *)
Posts(request, reply) ==
    /\ request.op = "POST"
    /\ \/ \E i \in Ids:
            /\ record[i] = "absent"
            /\ \A j \in Ids: j < i => record[j] # "absent"
            /\ reply = Created(i)
            /\ record' = [record EXCEPT ![i] = "live"]
            /\ source' = [source EXCEPT ![i] = request.origin]
       \/ /\ reply \in {Refusal(c): c \in Causes}
          /\ UNCHANGED server

(* DELETE also erases a record that has expired or does not open; it reads *)
(* no answer, so it meets fewer errors than POST.                          *)
DeletionCauses == {"Unauthorized", "APIConfig", "Storage", "Unexpected"}

Deletes(request, reply) ==
    /\ request.op = "DELETE"
    /\ \/ /\ record[request.id] # "erased"
          /\ reply = Erased
          /\ record' = [record EXCEPT ![request.id] = "erased"]
          /\ UNCHANGED source
       \/ /\ record[request.id] = "erased"
          /\ reply = NotFound
          /\ UNCHANGED server
       \/ /\ reply \in {Refusal(c): c \in Causes \cap DeletionCauses}
          /\ UNCHANGED server

Replies == {Created(i): i \in Ids} \cup {Refusal(c): c \in Causes} \cup {NotFound, Erased}

ServerAnswers ==
    /\ wire # None /\ wire.reply = None
    /\ \E reply \in Replies:
        /\ Posts(wire.request, reply) \/ Deletes(wire.request, reply)
        /\ wire' = [wire EXCEPT !.reply = reply]
    /\ UNCHANGED <<page, uploadKeys, current, pending, exportKeys, doing, batch,
                   outcomes, todo, tally, orphans, launches, clicks, faults>>

(* The server executes a request whose client is gone.  It need not: the   *)
(* request may never have reached it.                                      *)
ServerFinishesOrphan ==
    /\ \E request \in orphans:
        /\ \E reply \in Replies: Posts(request, reply) \/ Deletes(request, reply)
        /\ orphans' = orphans \ {request}
    /\ UNCHANGED <<page, uploadKeys, current, pending, exportKeys, script,
                   launches, clicks, faults>>

-----------------------------------------------------------------------------
(* The client's side.                                                      *)

Send(request) ==
    /\ wire = None
    /\ wire' = [request |-> request, reply |-> None]

Unreachable == [status |-> 0, id |-> None, error |-> "Unreachable"]

(* Plausible bug: a request without a timeout.                             *)
HearReplyOnly(reply) ==
    /\ wire # None
    /\ reply \in {wire.reply} \ {None}
    /\ wire' = None
    /\ UNCHANGED orphans

(* _request: the reply, or ApiUnavailableError at the timeout, whatever    *)
(* the server has done or will do.                                         *)
Hear(reply) ==
    /\ wire # None
    /\ reply \in {Unreachable} \cup ({wire.reply} \ {None})
    /\ wire' = None
    /\ orphans' = orphans \cup (IF wire.reply = None THEN {wire.request} ELSE {})

Heard == {Unreachable} \cup Replies

EndScript ==
    /\ doing' = "idle" /\ batch' = <<>> /\ outcomes' = <<>>
    /\ todo' = {} /\ tally' = NoReport

(* Anything the user does starts the script of the page again.             *)
Click ==
    /\ clicks < MaxClicks
    /\ clicks' = clicks + 1

OnPage(p) == doing = "idle" /\ page = p

(* The Result page for i: the invoice is drawn, or is not there any more   *)
(* and is forgotten, or could not be read.                                 *)
DrawResult(i) ==
    \/ /\ i # None /\ record[i] = "live"
       /\ page' = "invoice" /\ current' = i
    \/ /\ i # None => record[i] \in {"expired", "erased"}
       /\ page' = "result" /\ current' = None
    \/ /\ i # None
       /\ page' = "result" /\ current' = i

(* The navigation.  Widgets that are not drawn lose what they held.        *)
Goto(p) ==
    /\ Click /\ doing = "idle" /\ page # p
    /\ IF p = "result" THEN DrawResult(current) ELSE page' = p /\ UNCHANGED current
    /\ chosen' = <<>> /\ screen' = NoChoice
    /\ UNCHANGED <<server, results, reported, pending, exportIds, ready, script,
                   orphans, launches, faults>>

(* Streamlit: an action of the user while a script runs stops it at its    *)
(* next call into Streamlit or into the session state.  process_batch      *)
(* makes one before each upload, delete_many after each deletion: the      *)
(* request in progress goes on, its reply and the local variables are      *)
(* lost, the session keys stay as they are.                                *)
Interrupt ==
    /\ Click /\ doing # "idle"
    /\ EndScript /\ wire' = None
    /\ orphans' = orphans \cup
           (IF wire # None /\ wire.reply = None THEN {wire.request} ELSE {})
    /\ UNCHANGED <<server, page, uploadKeys, current, pending, exportKeys,
                   launches, faults>>

-----------------------------------------------------------------------------
(* The Upload page and process_batch.                                      *)

Choose(files) ==
    /\ Click /\ OnPage("upload")
    /\ chosen' = files
    /\ UNCHANGED <<server, page, results, reported, current, pending, exportKeys,
                   script, orphans, launches, faults>>

Launch ==
    /\ Click /\ OnPage("upload") /\ chosen # <<>>
    /\ doing' = "batch" /\ batch' = chosen /\ outcomes' = <<>>
    /\ launches' = launches + 1
    /\ UNCHANGED <<server, page, uploadKeys, current, pending, exportKeys, todo,
                   tally, wire, orphans, faults>>

(* Plausible bugs: the exception that is not an ApiError is forgotten; any *)
(* 5xx stops the batch, as in delete_many.                                 *)
StopsOnStatusOnly(error) ==
    LET status == IF error = "Unreachable" THEN 0 ELSE HttpStatus[error]
    IN status \in {401, 429} \/ (status >= 500 /\ status # 502)

StopsOnAnyServerError(error) ==
    LET status == IF error = "Unreachable" THEN 0 ELSE HttpStatus[error]
    IN status = 0 \/ status \in {401, 429} \/ status >= 500

(* _stops_the_batch: the next files would meet the same error.             *)
StopsTheBatch(error) ==
    LET status == IF error = "Unreachable" THEN 0 ELSE HttpStatus[error]
    IN status = 0 \/ status \in {401, 429} \/ (status >= 500 /\ status # 502)

Stopped ==
    \E n \in DOMAIN outcomes:
        outcomes[n].kind = "error" /\ StopsTheBatch(outcomes[n].error)

NextPlace == Len(outcomes) + 1

Sendable ==
    NextPlace <= MaxFiles /\ ~Stopped /\ batch[NextPlace] \notin Wrong

(* A file that is not sent: one too many, after an error that stops the    *)
(* batch, or refused by precheck.                                          *)
PassOver ==
    /\ doing = "batch" /\ wire = None
    /\ NextPlace <= Len(batch) /\ ~Sendable
    /\ outcomes' = Append(outcomes,
           [kind |-> IF NextPlace > MaxFiles \/ Stopped THEN "not_run" ELSE "skipped",
            id |-> None, error |-> None])
    /\ UNCHANGED <<server, page, uploadKeys, current, pending, exportKeys, doing,
                   batch, todo, tally, wire, orphans, launches, clicks, faults>>

SendFile ==
    /\ doing = "batch"
    /\ NextPlace <= Len(batch) /\ Sendable
    /\ Send([op |-> "POST", origin |-> [launch |-> launches, place |-> NextPlace],
             id |-> None])
    /\ UNCHANGED <<server, page, uploadKeys, current, pending, exportKeys, doing,
                   batch, outcomes, todo, tally, orphans, launches, clicks, faults>>

FileAnswered ==
    /\ doing = "batch"
    /\ \E reply \in Heard:
        /\ Hear(reply)
        /\ outcomes' = Append(outcomes,
               [kind |-> IF reply.status = 201 THEN "ok" ELSE "error",
                id |-> reply.id, error |-> reply.error])
    /\ UNCHANGED <<server, page, uploadKeys, current, pending, exportKeys, doing,
                   batch, todo, tally, launches, clicks, faults>>

(* The report is kept, and a new key empties the uploader.                 *)
FinishBatch ==
    /\ doing = "batch" /\ wire = None /\ Len(outcomes) = Len(batch)
    /\ results' = outcomes /\ reported' = launches /\ chosen' = <<>>
    /\ EndScript
    /\ UNCHANGED <<server, page, current, pending, exportKeys, wire, orphans,
                   launches, clicks, faults>>

View(n) ==
    /\ Click /\ OnPage("upload") /\ results[n].kind = "ok"
    /\ DrawResult(results[n].id)
    /\ chosen' = <<>>
    /\ UNCHANGED <<server, results, reported, pending, exportKeys, script, orphans,
                   launches, faults>>

ClearResults ==
    /\ Click /\ OnPage("upload") /\ results # <<>>
    /\ results' = <<>> /\ reported' = 0
    /\ UNCHANGED <<server, page, chosen, current, pending, exportKeys, script,
                   orphans, launches, faults>>

-----------------------------------------------------------------------------
(* The History page and delete_many.                                       *)

Open(i) ==
    /\ Click /\ OnPage("history")
    /\ DrawResult(i)
    /\ UNCHANGED <<server, uploadKeys, pending, exportKeys, script, orphans,
                   launches, faults>>

ExportSelection(selected) ==
    /\ Click /\ OnPage("history") /\ selected # {}
    /\ exportIds' = selected /\ page' = "export"
    /\ UNCHANGED <<server, uploadKeys, current, pending, ready, screen, script,
                   orphans, launches, faults>>

(* The ids are fixed here; the confirmation comes with a later run.        *)
AskDelete(selected) ==
    /\ Click /\ OnPage("history") /\ selected # {}
    /\ pending' = selected
    /\ UNCHANGED <<server, page, uploadKeys, current, exportKeys, script, orphans,
                   launches, faults>>

(* The question is asked below the list: without a row it is not drawn.    *)
Asked(filter) == OnPage("history") /\ pending # {} /\ Listed(filter) # {}

Confirm(filter) ==
    /\ Click /\ Asked(filter)
    /\ doing' = "delete" /\ todo' = pending /\ tally' = NoReport
    /\ UNCHANGED <<server, page, uploadKeys, current, pending, exportKeys, batch,
                   outcomes, wire, orphans, launches, faults>>

Cancel(filter) ==
    /\ Click /\ Asked(filter)
    /\ pending' = {}
    /\ UNCHANGED <<server, page, uploadKeys, current, exportKeys, script, orphans,
                   launches, faults>>

(* The order of the ids is that of the table.                              *)
SendDeletion ==
    /\ doing = "delete"
    /\ \E i \in todo: Send([op |-> "DELETE", origin |-> None, id |-> i])
    /\ UNCHANGED <<server, page, uploadKeys, current, pending, exportKeys, doing,
                   batch, outcomes, todo, tally, orphans, launches, clicks, faults>>

StopsTheDeletion(reply) ==
    reply.status = 0 \/ reply.status \in {401, 429} \/ reply.status >= 500

(* Plausible bugs: an erased invoice stays the current one; the positions  *)
(* are counted from one.                                                   *)
DoneOnly(i) == todo' = todo \ {i} /\ UNCHANGED current

NotDoneFromOne(i, reply) ==
    /\ UNCHANGED current
    /\ todo' = IF StopsTheDeletion(reply) THEN {} ELSE todo \ {i}
    /\ tally' = [tally EXCEPT !.failed = @ \cup {i},
                   !.left = Cardinality(todo) - Cardinality(todo') - 2]

(* A 404 counts as done.  An id that is done is forgotten by the session.  *)
Done(i) ==
    /\ todo' = todo \ {i}
    /\ current' = IF current = i THEN None ELSE current

NotDone(i, reply) ==
    /\ UNCHANGED current
    /\ todo' = IF StopsTheDeletion(reply) THEN {} ELSE todo \ {i}
    /\ tally' = [tally EXCEPT !.failed = @ \cup {i},
                   !.left = Cardinality(todo) - Cardinality(todo') - 1]

DeletionAnswered ==
    /\ doing = "delete"
    /\ \E reply \in Heard:
        /\ Hear(reply)
        /\ LET i == wire.request.id
           IN \/ /\ reply = Erased /\ Done(i)
                 /\ tally' = [tally EXCEPT !.deleted = @ \cup {i}]
              \/ /\ reply = NotFound /\ Done(i)
                 /\ tally' = [tally EXCEPT !.gone = @ \cup {i}]
              \/ reply \notin {Erased, NotFound} /\ NotDone(i, reply)
    /\ UNCHANGED <<server, page, uploadKeys, pending, exportKeys, doing, batch,
                   outcomes, launches, clicks, faults>>

(* The report is shown once, on the page that is drawn next.               *)
FinishDeletion ==
    /\ doing = "delete" /\ wire = None /\ todo = {}
    /\ pending' = {}
    /\ EndScript
    /\ UNCHANGED <<server, page, uploadKeys, current, exportKeys, wire, orphans,
                   launches, clicks, faults>>

-----------------------------------------------------------------------------
(* The Result page.  What its form sends is in module Validation.          *)

(* Any action on the page draws it again.                                  *)
Redraw ==
    /\ Click /\ doing = "idle" /\ page \in {"result", "invoice"}
    /\ DrawResult(current)
    /\ UNCHANGED <<server, uploadKeys, pending, exportKeys, script, orphans,
                   launches, faults>>

(* "Yes" in the dialog of a page that shows its invoice.                   *)
EraseCurrent ==
    /\ Click /\ OnPage("invoice")
    /\ doing' = "erase"
    /\ Send([op |-> "DELETE", origin |-> None, id |-> current])
    /\ UNCHANGED <<server, page, uploadKeys, current, pending, exportKeys, batch,
                   outcomes, todo, tally, orphans, launches, faults>>

(* delete_invoice: any error, 404 included, leaves the invoice selected    *)
(* and on screen.                                                          *)
EraseAnswered ==
    /\ doing = "erase"
    /\ \E reply \in Heard:
        /\ Hear(reply)
        /\ IF reply = Erased THEN page' = "result" /\ current' = None
           ELSE UNCHANGED <<page, current>>
    /\ EndScript
    /\ UNCHANGED <<server, uploadKeys, pending, exportKeys, launches, clicks, faults>>

-----------------------------------------------------------------------------
(* The Export page.                                                        *)

Scope == IF exportIds # {} THEN screen.scope ELSE "filters"

(* build_request, from the choices on screen.                              *)
OnScreen ==
    IF Scope = "selection"
    THEN [ids |-> exportIds, kind |-> screen.kind, filter |-> None]
    ELSE [ids |-> None, kind |-> screen.kind, filter |-> screen.filter]

Accepted == Scope = "selection" => Cardinality(exportIds) <= MaxExportIds

(* Plausible bug: emptiness is tested after the ids that are gone were     *)
(* dropped.                                                                *)
SelectedIfAny(request) ==
    IF request.ids = None \/ request.ids \cap Visible = {}
    THEN Listed(IF request.filter = None THEN Ids ELSE request.filter)
    ELSE request.ids \cap Visible

(* GET /invoices/export.csv: the ids that can still be read, or, without   *)
(* ids, the list.  Invoices without lines have no row in a file of lines.  *)
Selected(request) ==
    IF request.ids \in {None, {}}
    THEN Listed(IF request.filter = None THEN Ids ELSE request.filter)
    ELSE request.ids \cap Visible

InFile(request) ==
    IF request.kind = "lines" THEN Selected(request) \ Bare ELSE Selected(request)

(* One id that does not open fails the whole export.                       *)
Exportable(request) ==
    request.ids # None => \A i \in request.ids: record[i] # "sealed"

(* The scope is asked for when there is a selection, the filter when the   *)
(* scope is not the selection.                                             *)
ChooseExport(choice) ==
    /\ Click /\ OnPage("export") /\ choice # screen
    /\ IF exportIds = {} THEN choice.scope = NoChoice.scope
       ELSE choice.scope = "selection" => choice.filter = NoChoice.filter
    /\ screen' = choice
    /\ UNCHANGED <<server, page, uploadKeys, current, pending, exportIds, ready,
                   script, orphans, launches, faults>>

DropSelection ==
    /\ Click /\ OnPage("export") /\ Scope = "selection"
    /\ exportIds' = {} /\ ready' = None
    /\ UNCHANGED <<server, page, uploadKeys, current, pending, screen, script,
                   orphans, launches, faults>>

Prepare ==
    /\ Click /\ OnPage("export") /\ Accepted
    /\ Exportable(OnScreen)
    /\ ready' = [request |-> OnScreen, content |-> InFile(OnScreen)]
    /\ UNCHANGED <<server, page, uploadKeys, current, pending, exportIds, screen,
                   script, orphans, launches, faults>>

PrepareFails ==
    /\ Click /\ OnPage("export") /\ Accepted
    /\ ready' = None
    /\ UNCHANGED <<server, page, uploadKeys, current, pending, exportIds, screen,
                   script, orphans, launches, faults>>

Offered == page = "export" /\ Accepted /\ ready # None /\ ready.request = OnScreen

Download ==
    /\ Click /\ OnPage("export") /\ Offered
    /\ ready' = None
    /\ UNCHANGED <<server, page, uploadKeys, current, pending, exportIds, screen,
                   script, orphans, launches, faults>>

-----------------------------------------------------------------------------
(* The environment.                                                        *)

Fault ==
    /\ faults < MaxFaults
    /\ faults' = faults + 1

(* A record expires, is altered on disk, or goes through another session   *)
(* or a purge.                                                             *)
RecordChanges(i) ==
    /\ Fault
    /\ \/ /\ record[i] \in {"live", "sealed"}
          /\ record' = [record EXCEPT ![i] = "expired"]
       \/ /\ record[i] = "live"
          /\ record' = [record EXCEPT ![i] = "sealed"]
       \/ /\ record[i] \in {"live", "sealed", "expired"}
          /\ record' = [record EXCEPT ![i] = "erased"]
    /\ UNCHANGED <<source, page, uploadKeys, current, pending, exportKeys, script,
                   orphans, launches, clicks>>

(* The browser is reloaded or Streamlit restarts: a new, empty session.    *)
LoseSession ==
    /\ Fault
    /\ page' = "upload" /\ chosen' = <<>> /\ results' = <<>> /\ reported' = 0
    /\ current' = None /\ pending' = {}
    /\ exportIds' = {} /\ ready' = None /\ screen' = NoChoice
    /\ EndScript /\ wire' = None
    /\ orphans' = orphans \cup
           (IF wire # None /\ wire.reply = None THEN {wire.request} ELSE {})
    /\ UNCHANGED <<server, launches, clicks>>

ScriptStep ==
    \/ PassOver \/ SendFile \/ FileAnswered \/ FinishBatch
    \/ SendDeletion \/ DeletionAnswered \/ FinishDeletion
    \/ EraseAnswered

UserStep ==
    \/ \E p \in {"upload", "result", "history", "export"}: Goto(p)
    \/ Interrupt
    \/ \E files \in Batches: Choose(files)
    \/ Launch \/ ClearResults \/ \E n \in DOMAIN results: View(n)
    \/ \E filter \in Filters:
        \/ \E i \in Listed(filter): Open(i)
        \/ \E selected \in SUBSET Listed(filter):
               ExportSelection(selected) \/ AskDelete(selected)
        \/ Confirm(filter) \/ Cancel(filter)
    \/ Redraw \/ EraseCurrent
    \/ \E choice \in [scope: {"selection", "filters"}, kind: {"invoices", "lines"},
                      filter: Filters]: ChooseExport(choice)
    \/ DropSelection \/ Prepare \/ PrepareFails \/ Download

Next ==
    \/ ScriptStep \/ UserStep
    \/ ServerAnswers \/ ServerFinishesOrphan
    \/ \E i \in Ids: RecordChanges(i)
    \/ LoseSession

Spec == Init /\ [][Next]_vars

(* A script that runs takes its next step: every request has a timeout.    *)
(* It limits each wait for data (httpx), so of the server it is assumed    *)
(* that it does not send its reply in drops, and nothing else.             *)
Fairness == WF_vars(ScriptStep)

FairSpec == Spec /\ Fairness

-----------------------------------------------------------------------------
(* What a user may rely on.                                                *)

(* The report of a batch accounts for every record the batch created,      *)
(* also when the server finished a request after the interface had given   *)
(* up: it names the record, or it says that the API did not answer for     *)
(* that file and that nothing was sent after it.  So at most one record of *)
(* a reported batch is not named, and no file made two.                    *)
ReportAccountsForRecords ==
    /\ \A i \in Ids:
        (source[i] # None /\ source[i].launch = reported) =>
            LET n == source[i].place
            IN /\ n \in DOMAIN results
               /\ \/ results[n].kind = "ok" /\ results[n].id = i
                  \/ /\ results[n].error = "Unreachable"
                     /\ \A m \in DOMAIN results: m > n => results[m].kind = "not_run"
    /\ \A n \in DOMAIN results: results[n].kind = "ok" =>
           source[results[n].id] = [launch |-> reported, place |-> n]
    /\ \A i, j \in Ids: (source[i] # None /\ source[i] = source[j]) => i = j

(* A batch stops for a cause: after an error that the next files would     *)
(* meet too none of them is sent, and an error about one document costs    *)
(* that document only, with one exception, of the code and not of the rule *)
(* its docstring states (upload_logic.py:73).  An answer that its record   *)
(* cannot hold, for one with too many warnings, is about one document, but *)
(* it leaves the server as a StorageError and stops the files after it.    *)
(* The server's table of statuses and the interface's reading of them are  *)
(* two pieces of code that share nothing but the numbers.                  *)
AboutTheDocument ==
    {"UploadTooLarge", "InvalidUpload", "PDFTooLarge", "PDFCorrupted",
     "EmptyDocument", "UnsupportedPDF", "ExtractionFailed", "UnreadableAnswer"}

TakenForGeneral == {"UnreadableAnswer"}

CauseToStop(error) == error \notin AboutTheDocument \/ error \in TakenForGeneral

BatchStopsForACause ==
    \A n \in DOMAIN outcomes: n <= MaxFiles =>
        ((outcomes[n].kind = "not_run")
            <=> \E m \in 1..(n - 1):
                    outcomes[m].kind = "error" /\ CauseToStop(outcomes[m].error))

(* When delete_many is over its report adds up to what the user was asked  *)
(* about, no less and nothing else; what it calls deleted or already gone  *)
(* is erased and is not the invoice the Result page would show; and no id  *)
(* outside the question was sent.                                          *)
DeletionIsHonest ==
    doing = "delete" =>
        LET settled == tally.deleted \cup tally.gone \cup tally.failed
        IN /\ settled \cup todo \subseteq pending /\ settled \cap todo = {}
           /\ wire # None => wire.request.id \in todo
           /\ \A i \in tally.deleted \cup tally.gone: record[i] = "erased" /\ current # i
           /\ Cardinality(tally.deleted) + Cardinality(tally.gone)
                  + Cardinality(tally.failed) + Cardinality(todo) + tally.left
                  = Cardinality(pending)

(* The file offered for a selection holds invoices of the selection on     *)
(* screen and no other, also when all of them have gone since they were    *)
(* selected, although the API takes an export without ids for an export of *)
(* everything.                                                             *)
ExportStaysInSelection ==
    (Offered /\ Scope = "selection") => ready.content \subseteq exportIds

(* Whatever a session, a request nobody waits for or another session does, *)
(* the records go through the life that InvoiceStore gives them: each is   *)
(* created once and erased for good.  So no DELETE reaches the server with *)
(* an id that no upload was given.                                         *)
Life(state) ==
    IF state = "absent" THEN [state |-> "absent"]
    ELSE IF state = "erased" THEN [state |-> "erased"]
    ELSE [state |-> "live", expires |-> 0]

LifeOfRecords == [i \in Ids |-> Life(record[i])]

Lifecycle == INSTANCE RecordLifecycle WITH
    Instants <- {0}, record <- LifeOfRecords

RecordsLiveOnce == [][Lifecycle!Next]_LifeOfRecords

(* A script that runs ends, whatever the server does.                      *)
ScriptsEnd == (doing # "idle") ~> (doing = "idle")

(* Why: a script has a number of steps left, two for a file or an id that  *)
(* is not answered yet and one for its report.  Each of its own steps      *)
(* brings it nearer to its end; no timeout, late answer, expiry or other   *)
(* session sets it back, and so nothing makes a script start over.         *)
StepsLeft ==
    LET waiting == IF wire # None THEN 1 ELSE 0
        unsettled == IF doing = "batch" THEN Len(batch) - Len(outcomes)
                     ELSE Cardinality(todo)
    IN IF doing = "idle" THEN 0
       ELSE IF doing = "erase" THEN 1
       ELSE 2 * unsettled - waiting + 1

ScriptsGetShorter ==
    [][doing # "idle" => /\ StepsLeft' <= StepsLeft
                         /\ ScriptStep => StepsLeft' < StepsLeft]_vars
=============================================================================
