# InvoiceAI: TLA+ specifications and proofs

InvoiceAI receives invoices (PDF, JPEG, PNG), reads them (OCR in a separate
process, or the image as it is), has Gemini extract the fields, checks the
amounts, and keeps the result in an encrypted database next to an encrypted
cache of the extractions. A Streamlit interface talks to the API over HTTP and
a launcher starts both. Everything below is translated from the code in
`src/src`; where a document says something else, the code was followed and the
difference is a finding (see "Findings").

## Inventory

| Component | State it keeps | Operations | Hard behaviours | What makes it correct |
|---|---|---|---|---|
| Upload and edit endpoints (`api/routes.py`) | none of its own | POST, PUT, DELETE, list, get, export | handlers run in worker threads and interleave at every file or database access | a slot and a file are given back on every way out; an answer sent is true |
| Concurrency slots (`api/security.py`, `ConcurrencyLimiter`) | `_active` | `slot()` | error paths inside a context manager | `_active` counts the uploads in progress, never more than the limit |
| Upload rate limiter (`api/security.py`, `SlidingWindowRateLimiter`) | a deque of instants per client, in a bounded table | `check()` | the table is full; rounding of Retry-After; eviction of clients | quota per window on the real history, bounded memory, an honest Retry-After, a full table empties |
| Upload directory (`api/upload.py`) | clear PDFs | `save_upload`, `delete_upload`, `purge_stale_uploads` | deletion fails; a crash leaves a file; the purge races an upload | nobody loses the file it reads |
| Extraction cache (`services/cache.py`) | one encrypted file per PDF hash, temporary files | `get_cached`, `store_cache`, `delete_cached`, `purge_expired` | unlink by name after a read; replace in two steps; two uploads of one document | an erased answer does not come back |
| Invoice repository (`services/repository.py`, `core/database.py`) | rows: sealed payload, hash, expiry | `create`, `get`, `list`, `update`, `delete`, `purge_expired` | two stores erased in two steps; read then write | a record lives once, with a fixed expiry; erased is final; nothing else loses a record |
| Start-up (`api/app.py`, lifespan) | none | three purges, then serve | crash or failure between two purges | nothing that had expired at the start is served, nothing goes before its date |
| Pipeline (`services/pipeline.py`) | none | `process_invoice` | a cache that cannot be written is ignored; a second failure is not | a failure of the cache costs no record |
| OCR (`ocr/extractor.py`, `ocr/worker.py`) | a worker process | `extract_text_from_pdf` | timeout, crash, limits in the middle of a document; separators counted as text | no part of a document passes for the whole |
| Gemini adapter (`llm/gemini_adapter.py`) | none | `extract_invoice_data`, `..._from_image` | retries under a daily quota of 20 requests | only errors that a retry can cure are retried, at most three calls |
| Validation (`models/schemas.py`, `services/validate_invoice.py`) | none | `validate_invoice` | warnings added after the bound on them was checked; tolerances that add up | a stored answer can be read back |
| Body limit (`api/middleware.py`) | bytes received, "answer started" | ASGI calls | the limit is crossed after the answer started | one answer per request |
| Interface (`ui/*`) | session state: selection, batch results, prepared export | batches of uploads and deletions, export | a timeout on a request the server completes; a batch that stops half-way; a stale export | every file or invoice is accounted for once |
| Launcher (`launcher.py`) | two child processes | start, wait for health, watch, stop | a child dies while it is awaited or stopped | no child survives the launcher |
| Redaction, CSV export, sanitising, settings, crypto | none | pure functions | | |

How they interact: POST takes a slot and a place in the rate limiter, writes
the upload directory, then in one worker thread runs the pipeline (cache, OCR,
Gemini, validation, cache) and the repository; the `finally` clauses delete the
file and release the slot. DELETE and the retention purge erase the cache entry
and then the row. PUT reads the row and writes it. The lifespan handler purges
the records, the cache and the upload directory, in that order, before the
first request, and a start whose purge of the records fails serves nothing. The
interface sees all this only through HTTP.

## Modules

| Module | Models | Refines or composes |
|---|---|---|
| `RecordLifecycle` | abstract: the life of one record | implemented by `InvoiceStore` and by `Interface` |
| `InvoiceStore` | POST, PUT, DELETE, slots, upload directory, cache, rows, lifespan, crashes | composes the components that share the three stores |
| `InvoiceStore_proofs` | theorems about `InvoiceStore`: slots and erasure, then records, start-up, upload directory and the refinement, then the progress of requests | |
| `RateLimiter` | the sliding window and its table | |
| `RateLimiter_proofs` | theorems about `RateLimiter` | |
| `Extraction` | OCR worker, judgement of the text, Gemini with retries | stands inside the steps `Extract` and `ProcessingFails` of `InvoiceStore` |
| `Extraction_proofs` | theorems about `Extraction` | uses `Sums_proofs` |
| `Sums` | Python's `sum()` over a list | used by `Extraction` (lengths of texts) and `Validation` (amounts of lines) |
| `Sums_proofs` | what `SumOf` computes for every list: its recursion, its partial sums, a bound | |
| `Validation` | the amount rules, the warnings, and the round trip of an invoice through cache, database, the form of the Result page and a correction | `Accepted(Validated(i))` is the flag `fits` of `InvoiceStore` |
| `Validation_proofs` | theorems about `Validation` | uses `Sums_proofs` |
| `BodyLimit` | `BodySizeLimitMiddleware` around one request | in front of every route |
| `BodyLimit_proofs` | theorems about `BodyLimit` | |
| `Launcher` | `main()` of the launcher, its two servers, the process guards, Ctrl+C and a kill | starts the API whose lifespan is in `InvoiceStore` |
| `Launcher_proofs` | theorems about `Launcher` | |
| `Interface` | one browser session: the four pages, the batches of uploads and of deletions, the session keys, the HTTP client and its timeouts, the export | its server side is a coarse `RecordLifecycle` (a request is executed at once, or after the client gave up) |
| `Interface_proofs` | theorems about `Interface` | |
| `MC*` | the TLC instances (model values and symmetry) | |

### InvoiceStore

One action is one access to shared state (a file system call or a database
transaction) with the code around it. `pc[u]` says where upload `u` is:

| `pc` | code |
|---|---|
| saving | `save_upload`, slot taken |
| lookup, unlink | `get_cached`: read, then unlink of an entry that was found stale |
| extract | OCR and Gemini (module `Extraction`), then `validate_invoice` |
| write, replace | `store_cache`: temporary file, then `os.replace` |
| insert | `InvoiceRepository.create` and the commit |
| stored, errored | the result is known; the `finally` clauses are to run |
| created, failed, refused | answered 201, an error, or 503 |
| crashed, unanswered | the process died before, or after, the commit |

`epc[e]` does the same for PUT (`amend`) and DELETE: `erase` the cache entry,
then `drop` the row; `dropped` once the removal is committed, `erased` once the
204 has left, `unanswered` when the process died between the two. (The commit
of a PUT and its answer are one step: it loses nothing, and no property tells them
apart.) `mode` is the lifespan handler: `Start`, three purges, `up`, and `down` again
by an orderly `Stop`, a `Crash` or a purge of the records that failed.

An answer is the upload whose Gemini call produced it (`by`) and whether the
schema accepts it when it is read back (`fits`: the warnings that
`validate_invoice` adds are not bounded again before the answer is sealed). A
hash is its document, a sealed payload is `readable` or not, time is a small
integer. `named[e]` is the hash a DELETE read in the row. `due` and `altered` are
history variables: the expiry date a record was created with, and the records
whose hash column somebody altered; `started` is the instant of the last start.
Several requests per record or document come from the quantifiers; a crash may
happen between any two steps.

`TamperRow` alters the payload or the hash, which is a plain column. With an altered
hash a DELETE, and the purge of an expired row, erase what the hash then names:
the entry of another document, or nothing when the hash is invalid (`_erase_cache`
catches the `ValueError` and logs it) or unknown; in every case the row goes and
the answer is 204. The docstring of `_erase_cache` (`repository.py:286-288`) and
`tests/unit/test_repository.py:286-297` say so, and `ErasureReachesTheCache` leaves
these records out. Other alterations of a row (its id, its expiry date) are not
modelled.

### RateLimiter

`check()` runs on the event loop without yielding, so a call is one step:
`Grant`, `RefuseQuota` or `RefuseFull`, after the sweep when the client is new
and the table full. `grants` and `promise` are history variables: the real
instants at which a client was let in, and the instant its last refusal
announced. A tick is a fraction of a second, so that rounding up to seconds is
visible.

### Extraction

The worker reads pages one by one until a limit, a crash or the timeout; the
parent judges the answer and calls Gemini under tenacity. A page is the length
of its text. The lengths of the page separators are those of the code, because
the code compares its thresholds with the joined text. A run of this module
that ends in `extracted` is the step `Extract` of `InvoiceStore`, one that ends
in an error the step `ProcessingFails`; it touches no store, so taking it as
one step there loses no interleaving.

### Validation

Amounts are integers in fifths of a cent, so that a gap is rounded to the cent
as in the code and never falls on a tie (where the binary float would decide). A
line is what quantity times price gives and what the invoice says; warnings are
counted. The schema (`Accepted`) is applied where the code applies it: to what
Gemini answers and to what is read back from the cache or the database, and not
to the copy `validate_invoice` makes in between. One record of one document at a
time, with as many uploads, expiries, corrections and deletions as one likes.

The form of the Result page is `Form` (what `form_from_view` and `_form` put in the widgets: amounts
as they are, the rate as a percentage with the decimals the widget keeps, by
`to_percent`, which takes a rate above 1 for a percentage already), `Edited` (what
the user may leave in it), `FormAccepts` and `Payload` (`validate_and_build`: the checks
and the division by 100) and `SaveForm`, which ends in the PUT. A rate is in
units of 1/`Percent` of a percent, so that rounding to the form's last decimal
(`Step`) is visible. Names, dates and descriptions are left out; a form that is
stale because another session saved in between sends what `Update` sends, and
the last write wins, as in the code.

### BodyLimit

The application is free within ASGI's order: it reads, answers, fails or
returns at any point, from several tasks. What the middleware has let through
is in `sending` until the server's `send` returns, so the limit may be crossed in
between. An answer has one body message: more of them would repeat that step.

### Launcher

`pc` is where `main()` is: `check` (settings and ports), `spawn` and `guard` (the
two halves of `ProcessGuard.popen`, the assignment to `api` or `ui` included),
`await` and `probe` (`wait_until_healthy`), `watch`, `leaving` (the `return` or the
`except` clause), then `stop`, `wait` and `killwait` of `_stop` for the interface
and the API in turn. `code` is the return value or the exception that will leave
`main()`. `handle` is what `main()` knows, `server` what runs: they differ while a
process is being created. A server dies when it likes, and need not die when it
is asked to (`asked`: SIGTERM, SIGINT). Ctrl+C reaches the servers too, which
share the terminal; the kernel acts on the `guarded` servers when the launcher
ends, however it ends. One required setting stands for the three: one wrong is
enough for a refusal.

### Interface

A page is a script that Streamlit runs again at every action of the user; what
survives is in session keys, which are the variables:

| Variable | code |
|---|---|
| results, reported | `RESULTS_KEY` of the Upload page, and the launch it reports |
| current | `CURRENT_RECORD_KEY` |
| pending | `PENDING_DELETE_KEY` |
| exportIds, ready | `EXPORT_IDS_KEY`, `READY_KEY` (the prepared file with the request it answers) |
| chosen, screen | the uploader's files, the choices on the Export page: lost when the page is left |
| doing, batch, outcomes, todo, tally | the script in progress and its local variables: `process_batch`, `delete_many`, the single deletion |
| wire, orphans | the request in progress with its reply, and the requests nobody waits for any more |
| record, source | what the database holds, and which file of which launch made it (a history variable) |

A button is an action (`Launch`, `View`, `Open`, `AskDelete`, `Confirm`, `Cancel`,
`EraseCurrent`, `Prepare`, `Download`...), possible only on the page that draws it:
`page = "invoice"` is the Result page when it could read its invoice, since only
then is the delete button drawn. The scripts that change records run step by
step: send, answer (`FileAnswered`, `DeletionAnswered`, `EraseAnswered`), end. The
answer is the server's, or the `ApiUnavailableError` of a timeout *whatever the server
has done or will do*: a request not yet executed becomes an orphan, which the
server may execute later or never. `Interrupt` is an action of the user while a
script runs: Streamlit stops the script at its next call into Streamlit, so the
local variables are lost and the request goes on. A read (list, get, export)
changes nothing and is one step with the code that uses it. The server's
statuses are `HttpStatus`, the table of `to_http_error`; the client's reading of
them is `StopsTheBatch` and `StopsTheDeletion`. `RecordChanges` is the retention,
damage on disk and other sessions; `LoseSession` a reload of the page.

## Runs

| Run | Configuration | Shows |
|---|---|---|
| `store_safety` | 2 uploads of 1 document, 2 edits, 2 slots, retention 1, TTL and age of a stale file 0, clock to 1, 1 fault; symmetry on requests; about 1.8 million states | the invariants of `InvoiceStore`, and that `InvoiceStore` implements `RecordLifecycle` |
| `store_liveness` | 2 uploads, 2 documents, 1 edit, 1 slot, one instant, 1 fault, no symmetry; about 257,000 states | every accepted upload is answered or dies with the process; the inductive invariant `IndInv`, also when an altered hash names the other document |
| `store_identical` | 2 uploads of 1 document, as `store_safety` | finding 1 |
| `limiter` | 3 clients, a table of 2, quota 2, window of 2 s in half seconds, 4 s | all properties of `RateLimiter` |
| `extraction` | documents of up to 4 pages (blank, short, sufficient), limit of 3 pages | all properties of `Extraction` |
| `validation` | up to 3 lines and 2 warnings; every gap is nothing, just within or just beyond the tolerance; nulls, warnings and doubts of Gemini; rates written as fractions and as percentages; percentages typed in the form: none, 0, 19.9, 100 and one too many; about 63,000 states | all properties of `Validation` |
| `validation_warnings` | the same | finding 3 |
| `body_limit` | up to 4 pieces of 0 to 2 bytes for a limit of 3; length declared rightly, wrongly or not at all | all properties of `BodyLimit` |
| `launcher` | three platforms, every state of the settings, 2 questions to `/health`, 2 Ctrl+C, one kill; about 170,000 states | all properties of `Launcher` |
| `launcher_killed` | Windows and Linux, 1 question, 1 Ctrl+C | finding 4 |
| `interface` | 2 good files and one `precheck` refuses, batches of 2 and 3 for a limit of 2; 3 records, 1 of them old; lists and selections of at most 2; 5 errors of the server (three about the document, of which one is answered 500; one quota, one failing store); 6 actions of the user, 1 fault; about 891,000 states | all properties of `Interface` |
| `extraction_blank` | documents of up to 9 blank pages, the code's threshold | finding 2 |

Why the bounds are enough. In the store the interesting conflicts are between
two accesses to the same entry or row: two uploads of the *same* document and
two edits give every pair (upload and upload, upload and DELETE, PUT and
DELETE, DELETE and DELETE, DELETE around an upload that hits the cache). A TTL
and an age of 0 are limits shorter than the unit of the clock, so that with one
tick an entry is stale and a file old, and a record (retention 1) expires: the
purges and the stale entries happen with a clock of two instants. One fault is a
crash, an unreadable entry, an unreadable row or an altered hash; a second start
needs none, since the server may also be stopped in order. In `store_liveness` time
stands still: all it does to an upload is to make entries stale, which an
alteration does too, and two documents let an altered hash name an entry that is
another's. In the limiter three clients for
two places force sweeps and refusals for want of room, and two windows of time
let a client be forgotten and come back. Four pages for a limit of three reach
every judgement. Two Ctrl+C reach `main()` once inside and once
outside its `try` statement. In the interface a batch (choose, launch, view) or a
deletion (history, tick, confirm) is three or four actions, so six reach a batch
followed by a deletion, an erasure followed by an export, or a batch
interrupted and launched again; two files in a batch are enough for an error
that stops the second, and for two records of one batch. What the bounds leave out, the proofs cover for the theorems
listed below.

Deadlock is not checked in `InvoiceStore` (every request may have ended and the
clock be at its bound: the server is idle) nor in `Interface` (the user may stop),
and is checked everywhere else.

### Properties worth a second look

* `ErasureReachesTheCache`: once a created record is gone, no cached copy of its
  answer is left, whatever the uploads of the same document do. This is the
  promise of erasure, and it depends on the order of two other pieces of code:
  the pipeline publishes an answer in the cache before any row can hold it. A
  record whose hash column was altered is left out: its row goes, its copy stays
  until the TTL, and that is what the code promises.
* `ErasedStaysErased`: a DELETE that was committed is final, answered or not, even
  against a PUT that read the row before it. It holds because the ORM updates by
  primary key and raises when no row matches.
* `CommittedRecordsKept`: until its own expiry date (`due`) a created record is lost
  to nothing but a DELETE of that record, which was answered 204 or was cut off
  between its commit and the answer.
* `ServingMeansPurged`: while requests are served no row is left that had expired
  when this start began, also after starts that failed half-way. A start that
  skipped the purge of the records, or logged its failure, would break it. A row
  that expires later waits for the next start; `get` and `list` do not show it.
* `UploadFileAvailable`: the purge of the upload directory takes no file in use.
* `SlotsAccounted`: the counter equals the number of uploads in progress.
* `QuotaPerWindow`, stated on the history and not on the table;
  `RetryAfterIsEnough`; `RefusedForACause`: a refusal for the quota means a full
  window of uploads of that client, and one for want of room means that as many
  other clients as the table holds were let in within the window, so failing closed
  has a way out and a client is never shut out by idle ones.
* `NothingPartialIsSent`, `CallsAreRationed`; `RefusedForItsText`: the page
  separators, which the code counts as text, only add to it. So no document is
  turned away as a scan although its pages hold as much text as the threshold;
  the harm they do is the other one, finding 2, and "empty" is only ever said of a
  document of one page.
* `HighMeansConsistent`: the tolerances of the rules add up, and this bounds by
  how much an invoice marked reliable may be off from its lines to its total;
  `EveryBrokenRuleIsReported` on every path, including the cache hit that skips
  validation.
* `OneAnswer`, `OversizedIsRefused`, `WithinTheLimitNothingIsLost`: the limit may be
  crossed at any moment of an answer.
* `NoServerIsForgotten`: the clean-up may be cut short or know less than what
  runs, and still every server left has had a signal; `OneDownBothDown`, also when
  "ready" was printed because another program answered in the API's place.
* `SavedIsShown`: the rate is divided by 100 on the way out and multiplied back by
  a rule that guesses its unit (`to_percent`); what the user saved is nevertheless
  what the page shows next, so a second save changes nothing.
* `ReportAccountsForRecords`: every record a batch made is named in its report, or
  the report says that the API did not answer for that file and nothing was sent
  after it. At most one record of a reported batch is therefore unnamed, although
  the server may execute a request after the interface gave up on it.
* `BatchStopsForACause`: the server's table of statuses and the interface's
  reading of them share nothing but numbers. No file is sent after an error that
  the next ones would meet too, and an error about one document costs that
  document only, with one exception that the property names
  (`TakenForGeneral`): an answer its own record cannot hold, of which finding 3 is
  the known case, leaves the server as the 500 of a failing store and stops the
  batch, although `_stops_the_batch` (`upload_logic.py:73`) means to stop for what is "Not a
  problem with one document". An exception the table does not list (500) says nothing
  of its cause and is counted as general, as there.
* `DeletionIsHonest`: the report of a batch deletion adds up to what was asked, and
  what it calls deleted is erased and no longer the current invoice.
* `ExportStaysInSelection`: an export of a selection whose invoices have all gone is
  an empty file and not an export of everything, although the API takes a request
  without ids for one.
* `UploadsEnd`, `ExtractionEnds`, `StopAlwaysEnds`, `ScriptsEnd`: liveness. What
  makes each of them true is an action property about a measure of the work
  left: `RequestsNeverGoBack`, `ExtractionAdvances`, `MainNeverGoesBack`,
  `ScriptsGetShorter`. Every step of the handler, `main()` or script makes it
  smaller, and nothing anybody else does makes it larger: no error path goes back
  to work already done, which retries, timeouts and late answers could well cause.

### Fairness

`InvoiceStore!Fairness`: a request in progress takes its next step while the
process lives. The code justifies it piece by piece: the OCR worker is killed at
`MAX_PDF_SECONDS`, tenacity stops at three attempts, SQLite gives up after its
busy timeout, `_replace_with_retry` is a bounded loop. The exception is the
Gemini client, to which the code gives no timeout: that it returns from every
call is an assumption. Nothing is assumed of clients, of the clock or of
restarts, so "the file left by a crash is purged some day" is not claimed.
`Extraction!Fairness` makes the same assumption, and none of the worker.

`Launcher!Fairness`: `main()` runs (its waits are bounded by deadlines), a server
that cannot bind its port or read its settings exits, and SIGKILL kills. That a
server ever obeys SIGTERM is not assumed.

`Interface!Fairness`: a script that runs takes its next step. Every request has a
timeout (`api_client.py`: 180 s for an upload, 30 s for the rest). It is httpx's, which
limits each wait for data and not the whole exchange: a server that sent its
reply in drops could hold a script longer than that, and this is the one thing
assumed of the server (uvicorn sends these small replies at once). Nothing is assumed
of the user.

## Proofs

Every safety property the passing runs check, and the refinement of
`RecordLifecycle`, is also a theorem, for every value of the constants; only
liveness stays with TLC. Each module of theorems proves an invariant that contains
the property and is inductive; the theorems about properties follow from it.

| Module | Theorems | Inductive invariant |
|---|---|---|
| `InvoiceStore_proofs` | `TypeCorrect`, `SlotsCorrect`, `ErasureCorrect`, `ErasureFinal` | `IndInv` (checked by `store_liveness` too) |
| | `FilesAvailable`, `PurgedBeforeServing`, `RecordsKept`, `StoreImplementsLifecycle` | `RecordsInv` |
| | `RequestsAdvance` | `IndInv`, with the measures `StepsLeft`, `EditStepsLeft` |
| `RateLimiter_proofs` | `QuotaCorrect`, `LimiterTypeCorrect`, `DequesCorrect`, `MemoryCorrect`, `NoRefusalWithoutCause`, `RetryAfterTrue` | `LimiterInv`, then one for the table and one for the promises |
| `Extraction_proofs` | `ExtractionTypeCorrect`, `NothingPartial`, `CallsRationed`, `ReadableTextIsNoScan`, `ExtractionIsBounded` | `ExtractionInv`, with the measure `StepsLeft` |
| `Validation_proofs` | `ValidationTypeCorrect`, `BrokenRulesReported`, `HighIsConsistent` | `IInv` |
| | `FormIsFaithful`, `StatusAgrees` | the properties, with the ranges of the fields they read |
| `BodyLimit_proofs` | `BodyTypeCorrect`, `AnswerIsOne`, `OversizedRefused`, `InvisibleWithinTheLimit` | `IndInv` |
| `Launcher_proofs` | `LauncherTypeCorrect`, `NothingForgotten`, `CleanExit`, `MainAdvances` | `IndInv`, with the measure `StepsLeft` |
| `Interface_proofs` | `InterfaceTypeCorrect`, `ReportAccounts`, `StopsForACause`, `DeletionHonest`, `ExportStays`, `RecordsGoThroughTheirLife`, `ScriptsShorten` | `InterfaceInv`, with the measure `StepsLeft` |
| `Sums_proofs` | lemmas only | |

Six of these formulas are in no configuration above, whose runs ask other
questions: `RequestsNeverGoBack`, `RefusedForItsText`, `ExtractionAdvances`,
`MainNeverGoesBack`, `ScriptsGetShorter` and the `RecordsLiveOnce` of `Interface`. Each
was model-checked on the instance of its module before it was proved; adding it
to a configuration repeats that.

The assumptions are the named ones of each module: limits are positive, as
`get_int_env` enforces, the sets of requests and clients that must be counted are
finite, and `None` is not a value of the fields it may stand in.

**The store.** `ErasureReachesTheCache` is not inductive: nothing in it forbids an
upload from replacing the entry after the erasure. `IndInv` adds the reason. An
answer has one writer, the upload whose Gemini call made it; that upload replaces
the entry once, *before* any row can hold the answer, its own or that of an upload
that found it in the cache. So when a record is committed, the writer of its
answer is past its `os.replace` (`AnswersHaveOneWriter`), and what a DELETE clears
is not written again (`EditsFollowTheRow`, between the two steps of the DELETE).
The DELETE and the purge clear the entry the row *names*, which is that of its
document unless the column was altered; altering it adds the record to `altered`, and
an alteration of another record's hash can only clear more.
The slot part needs a lemma on the cardinality of the set of uploads in progress
when one member enters or leaves. For the records, only three actions insert or
remove a row: the insertion, the DELETE, and the retention purge, which takes
rows whose date has come and no others; a row keeps the date its record was
created with (`DatesInOrder`: `expires = due`, and the last start is not after the
clock). No row that expired before the start survives its purge (`Purged`, from
the purge until the process is down again), and the rows inserted later expire a
retention period after a clock that has passed the start. The same case
analysis shows that every step of `InvoiceStore` is a step of `RecordLifecycle` or
changes none of its variables.

**The limiter.** A client's deque is the end of its history in order, and what it
has lost has left the window (`DequesEndTheHistory`). A grant finds fewer than
`MaxEvents` events left in the deque, so the one granted `MaxEvents` uploads ago is
among those lost. A swept client has lost its whole deque, the youngest event of
which had left the window. The table stays finite and within its bound because a
new client passes the room test. What a refusal promises reaches the end of the
window of the upload that stood `MaxEvents` places back (`PromiseReaches`), and
later refusals do not add to the history; that the loop which pops the deque has
stopped where it should follows from the well-foundedness of `<`. A refusal has
its cause because the deque that was found full *is* the last `MaxEvents` uploads
of the client, and every deque the sweep left in a full table ends with an upload
of its client within the window.

**The extraction.** Nothing is said of the texts until the worker answers `ok`, and then
they are the whole document within the limits; every error before the last one is
curable. When the judgement comes, `ok` means all pages were read, so the joined
text is the sum of the pages and of separators of positive length
(`SeparatorsAdd`, from `SumAtLeast`): what it refuses as too short was shorter
before the separators were added. The measure counts the pages still to read, the
judgement, and two steps for each attempt still allowed; an attempt that fails
uses one up.

**Sums.** The library's induction theorems take an operator as a parameter, which
the provers cannot instantiate; the same argument goes through sets. The numbers up
to `N` at which a claim about a sum fails have a least element (`WFMin`), which is
not 0, and whose predecessor gives the contradiction (`IntervalInduction`). A
recursive function exists because there is a longest beginning of its domain on
which one does (`Follows`, `Recursion`), and partial sums and bounds follow.

**The rules** (`IInv`). The invoices kept are not enough for an induction: what is
cached or put in a record is the invoice in hand a step earlier. Every invoice the
system holds, that one included, is well formed and reports the rules it breaks
(`Sound`). Validation reports what it finds (`ValidatedReports`), a cache hit carries
what was reported before it, and a correction is validated again; the form must
be shown to build an invoice at all (`EditorLines`, of the rows `_lines_from_editor` keeps).
`HighMeansConsistent` then follows: an invoice marked `high` breaks no rule, so each
line is off by less than half a cent over the tolerance, the sums of the lines by
that much per line (`SumsClose`), the subtotal by once more, and the tax scales
it by one plus the rate and rounds once (`TaxKeepsClose`).

**The form.** A percentage the form accepts is at most 100, so what is stored is
never taken for a percentage again and only the rounding to the form's last
decimal remains, which what came from the form survives. Validation only adds
warnings, so the status column and the sealed answer are set together.

**The body limit.** The messages sent and the one on its way are taken together
(`Sent`); they are the beginning of one answer, whose sender `response_started`
tells before the message has left.

**The launcher** (`Held`). Until it leaves its `try` statement, `main()` holds every
server but the one it is creating; afterwards a server it does not hold was cut
off by Ctrl+C, and got the Ctrl+C itself; and the API's turn comes when the
interface is down.

**The interface.** An upload is either on the wire, with the script that waits for
it (`WireInv`), or given up, in which case the report in progress says so and stops
there (`OrphanInv`); and while it is unanswered no record comes from it (`Fresh`).
So a record created by a request on the wire will be named, one created for a
request given up is where the report says that the API did not answer
(`AccountInv`), and no upload makes two. The report of a deletion is counted with
cardinalities: an answer moves one id from what is left to one part of the report
(`DeletionInv`). Actions that touch none of this are dealt with once (`Quiet`).
The steps that touch a record are a creation by the server for a request on the
wire or an orphan, an erasure, an expiry, or something other sessions do; every id a session sends
is one some record was given (`KnownInv`), so each of them is a step of `RecordLifecycle`, so the record `Interface` assumes behind the API has the
life that `InvoiceStore` is proved to give it. A script is measured by the files or
ids not answered yet, two steps each, less one while a request is on the wire.

**Progress.** The four measures are natural numbers in every state (by the type
invariants: `MaxAttempts` is never exceeded, no more answers than files), every
step of the actor lowers its own and no other step raises it. With the
fairness of the section above this is the usual argument for the liveness
properties; the last step of it, from fairness to "eventually", is TLC's.
`RequestsAdvance` also says what a crash does to a request: end it.

Checked by TLC only:

* liveness (`UploadsEnd`, `ExtractionEnds`, `ScriptsEnd`, `StopAlwaysEnds`,
  `OneDownBothDown`): the prover has no rules for fairness and ENABLED here;
* the runs that end in a violation.

## Findings

1. Concurrent identical uploads (`store_identical`): `cache.py:52-53` says that
   two identical uploads hit the cache before any OCR work. Nothing serialises
   them: when they overlap, both call OCR and Gemini. Each call costs one of the
   20 daily requests.
2. Blank pages (`extraction_blank`): `TECHNICAL_DESIGN.md:281` and
   `exceptions.py:17` promise `EmptyDocumentError` for a PDF without any text. From two
   pages on the separators `---PAGE n---` are counted as text: two to seven
   blank pages are "unsupported", and from eight on the separators alone reach
   the threshold of 100 characters and the document is sent to Gemini.
3. Warnings that block (`validation_warnings`): `schemas.py:64` calls warnings
   non-blocking. `validate_invoice` adds one per broken rule to a copy that is not
   validated again, with up to 200 lines (`schemas.py:83`) against 50 warnings
   (`schemas.py:76`). Past 50 the entry written to the cache cannot be read back
   and the record cannot be created: a `StorageError` after the Gemini call, at
   every repetition. A correction with that many inconsistent lines fails too. The
   `StorageError` leaves as a 500, so in the interface that one document also stops
   the whole batch (see `BatchStopsForACause`).

4. Killed at the wrong moment (`launcher_killed`): `launcher.py:103` says that the
   servers die with the launcher, even if it is killed. Each is created first
   and guarded next (`launcher.py:121-123`, or `prctl` in the forked child); a
   launcher killed in between leaves it running.

Also worth knowing, though no document contradicts it: an upload that fails or
dies between `store_cache` and the commit leaves a cached copy no DELETE can
reach (the TTL purge of a later start-up takes it), and a failed clean-up of the
temporary file turns an ignored cache failure into a failed upload. A setting
that is empty in the environment and good in `.env` passes `check_environment`
(`launcher.py:36` takes the file then) and not `load_dotenv`, which leaves it
empty: the launcher accepts it and the API does not start.

Of the interface and the form:

* A batch that is interrupted loses its report, and the files are still in the
  uploader: launching again sends those that were already read a second time. The
  cache spares the OCR and Gemini calls, the records are created twice.
  (`TECHNICAL_DESIGN.md:620` excludes an unwanted second sending of the same files
  after a batch, which has been emptied from the uploader by then.)
* The prepared CSV and the ids chosen for export survive the erasure of their
  invoices: the page offers the file when its request is the one on screen, and looks at no record.
* Saving the form without any change erases Gemini's own warnings and doubts: the
  server computes both from the corrected invoice alone.
* `schemas.py:26`, `result_logic.py:47` and `export.py:59` rely on `validate_invoice` to
  flag a rate written as a percentage (20 for 0.20). It does when the subtotal and
  the total are both present, and cannot otherwise; saving the form then stores
  0.20.
* A deletion on the Result page whose answer came after the timeout leaves the invoice on screen
  until the next read says it is gone.

## Not modelled, and why

Redaction, sanitising, CSV formatting, settings and security headers are pure
functions or tables. Encryption is a flag (`readable`). The token check is a
comparison: its refusal is one of the statuses of `Interface`. The engine cache
and SQLite's pragmas are the atomicity of a transaction. Names, descriptions and
prompts are abstracted: no property so far tells them apart. Of the interface,
layout, formatting, the reading of its settings and the text checks of the form
are left out, and the transport: a reply is heard whole or not at all. Of the
export, which invoices are in the file is modelled and how a cell is written is
not. Of the launcher, the console text and the command lines are left out, and
stopping a container (SIGTERM to the first process of it). Of the database, the
alteration of a row's id or expiry date is left out, and of the limiter's
`RetryAfterIsEnough` the refusals for want of room, which announce the whole
window (`security.py:146`). Two hazards have no
property: a cached copy left by an upload that died before its commit (the code
makes no promise about it before the TTL), and a Gemini call that never returns
(the code gives the client no timeout; it is an assumption of the liveness
properties).

## Plan

What the project could still gain, in this order:

1. Several browser sessions over one database: two `Interface` sessions that
   delete and correct the same invoice (today the other sessions are the free
   steps of `RecordChanges`).
2. `Interface` and `InvoiceStore` as one system: the server's side of a request
   is one step in `Interface` and many in `InvoiceStore`; the refinement between them
   would replace the argument that both implement a record's life.
3. Records created at the same instant, which `repository.py:194` lists in the
   order of their random ids.
