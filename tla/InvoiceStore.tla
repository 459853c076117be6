---------------------------- MODULE InvoiceStore ----------------------------
(***************************************************************************)
(* The API process of InvoiceAI around its three stores: the upload        *)
(* directory (clear PDFs), the encrypted extraction cache (one file per    *)
(* PDF hash) and the database of invoice records.                          *)
(*                                                                         *)
(* POST /invoices runs in a worker thread, PUT and DELETE in others, so    *)
(* the steps below interleave: each action is one access to shared state   *)
(* (a file system call or a database transaction) with the code around it. *)
(* The process may crash between any two of them; it restarts with the     *)
(* three purges of the lifespan handler.  Somebody with access to the      *)
(* files may alter an entry, a row's payload or the hash a row names.      *)
(*                                                                         *)
(* Data is kept as far as the properties tell it apart: a PDF is its hash, *)
(* an answer is the upload whose Gemini call produced it, and whether the  *)
(* stored schema accepts it when it is read back.                          *)
(***************************************************************************)
EXTENDS Naturals, FiniteSets

CONSTANTS
    Uploads,        \* POST requests; also the id of the record each may create
    Edits,          \* PUT and DELETE requests
    Docs,           \* documents, told apart by their SHA-256
    None,           \* no file, no row, no answer, the hash of no document
    Retention,      \* DEFAULT_RETENTION_DAYS
    Ttl,            \* CACHE_TTL_DAYS
    StaleAge,       \* _STALE_UPLOAD_SECONDS and _STALE_TMP_SECONDS
    MaxSlots,       \* MAX_CONCURRENT_EXTRACTIONS
    MaxClock,       \* bound of the model: the last instant
    MaxFaults       \* bound of the model: crashes and alterations together

ASSUME ParametersAssumption ==
    /\ {Retention, MaxSlots} \subseteq Nat \ {0}   \* get_int_env
    /\ {Ttl, StaleAge} \subseteq Nat              \* 0: shorter than the unit of clock
    /\ {MaxClock, MaxFaults} \subseteq Nat
    /\ IsFiniteSet(Uploads)
    /\ None \notin Uploads \cup Docs \cup Nat

VARIABLES
    clock,          \* wall-clock time
    mode,           \* "down", the three purges of the start-up, "up"
    started,        \* the instant of the last start
    faults,         \* crashes and alterations so far
    active,         \* ConcurrencyLimiter._active
    file,           \* file[u]: mtime of the stored upload, or None
    tmp,            \* tmp[u]: time of the cache temp file, or None
    cache,          \* cache[d]: the entry of hash d, or None
    db,             \* db[u]: the row with id u, or None
    pc, doc, answer,\* where upload u is, of which document, with what answer
    epc, target,    \* where edit e is, and the record it names
    named,          \* named[e]: the hash a DELETE read in the row
    due,            \* history: due[u], the expiry record u was created with
    altered         \* history: the records whose hash column was altered

uploadVars == <<pc, doc, answer>>
editVars == <<epc, target, named>>
processVars == <<clock, mode, started, faults>>
history == <<due, altered>>
vars == <<clock, mode, started, faults, active, file, tmp, cache, db,
          pc, doc, answer, epc, target, named, due, altered>>

Answer == [by: Uploads, fits: BOOLEAN]
Entry == [by: Uploads, at: Nat, readable: BOOLEAN]
Hash == Docs \cup {None}   \* None: invalid, or the hash of no document at all
Row == [hash: Hash, expires: 0..(MaxClock + Retention), readable: BOOLEAN]

ASSUME NoneAssumption == None \notin Answer \cup Entry \cup Row

(* An upload is "stored" once its row is committed and "errored" once it   *)
(* has failed; in both it still has its file to delete and its slot to     *)
(* give back.  A DELETE is "dropped" once the row's removal is committed   *)
(* and "erased" once it was answered 204.                                  *)
InFlight == {"saving", "lookup", "unlink", "extract", "write", "replace",
             "insert", "stored", "errored"}
Finished == {"created", "failed", "refused", "crashed", "unanswered"}
Committed == {"stored", "created", "unanswered"}
EditInFlight == {"erase", "drop", "dropped", "amend"}
EditFinished == {"erased", "amended", "missing", "failed", "crashed", "unanswered"}
RowRemoved == {"dropped", "erased", "unanswered"}

TypeOK ==
    /\ {clock, started} \subseteq 0..MaxClock
    /\ {faults, active} \subseteq Nat
    /\ mode \in {"down", "purge_records", "purge_cache", "purge_uploads", "up"}
    /\ file \in [Uploads -> Nat \cup {None}]
    /\ tmp \in [Uploads -> Nat \cup {None}]
    /\ cache \in [Docs -> Entry \cup {None}]
    /\ db \in [Uploads -> Row \cup {None}]
    /\ pc \in [Uploads -> {"idle"} \cup InFlight \cup Finished]
    /\ doc \in [Uploads -> Docs \cup {None}]
    /\ answer \in [Uploads -> Answer \cup {None}]
    /\ epc \in [Edits -> {"idle"} \cup EditInFlight \cup EditFinished]
    /\ target \in [Edits -> Uploads \cup {None}]
    /\ named \in [Edits -> Hash]
    /\ due \in [Uploads -> Nat \cup {None}]
    /\ altered \subseteq Uploads

Init ==
    /\ clock = 0 /\ mode = "down" /\ started = 0 /\ faults = 0 /\ active = 0
    /\ file = [u \in Uploads |-> None]
    /\ tmp = [u \in Uploads |-> None]
    /\ cache = [d \in Docs |-> None]
    /\ db = [u \in Uploads |-> None]
    /\ pc = [u \in Uploads |-> "idle"]
    /\ doc = [u \in Uploads |-> None]
    /\ answer = [u \in Uploads |-> None]
    /\ epc = [e \in Edits |-> "idle"]
    /\ target = [e \in Edits |-> None]
    /\ named = [e \in Edits |-> None]
    /\ due = [u \in Uploads |-> None]
    /\ altered = {}

-----------------------------------------------------------------------------
(* Helpers.                                                                *)

Clear(f, S) == [x \in DOMAIN f |-> IF x \in S THEN None ELSE f[x]]

(* _decode_entry: readable and not older than the TTL.  Strict: an entry   *)
(* whose age is exactly the TTL is still good.                             *)
Usable(entry) == entry.readable /\ clock - entry.at <= Ttl

(* A row the retention rule no longer lets anybody read.                   *)
Expired(u) == db[u] # None /\ db[u].expires <= clock

Goto(u, from, to) ==
    /\ mode = "up"
    /\ pc[u] = from
    /\ pc' = [pc EXCEPT ![u] = to]

EditGoto(e, from, to) ==
    /\ mode = "up"
    /\ epc[e] = from
    /\ epc' = [epc EXCEPT ![e] = to]

-----------------------------------------------------------------------------
(* Plausible bugs.  No action uses these definitions: each is a wrong form *)
(* of the action or helper it is named after, and shows that a property    *)
(* below depends on that part of the code.                                 *)

(* The slot is given back by save_upload's error path and by slot().       *)
SaveFailsReleasesTwice(u) ==
    /\ Goto(u, "saving", "errored")
    /\ active' = active - 1
    /\ UNCHANGED <<processVars, history, file, tmp, cache, db, doc, answer,
                   editVars>>

(* The slot is not given back when the upload is refused.                  *)
SaveFailsKeepsSlot(u) ==
    /\ Goto(u, "saving", "failed")
    /\ file' = Clear(file, {u})
    /\ UNCHANGED <<processVars, history, active, tmp, cache, db, doc, answer,
                   editVars>>

(* The clean-up of create_invoice runs on success only.                    *)
FinishUploadOnSuccess(u) ==
    /\ Goto(u, "stored", "created")
    /\ file' = Clear(file, {u})
    /\ active' = active - 1
    /\ UNCHANGED <<processVars, history, tmp, cache, db, doc, answer, editVars>>

(* delete looks at the record only: the cached copy is left to the purge.  *)
StartDeleteRowOnly(e, u) ==
    /\ db[u] # None
    /\ EditGoto(e, "idle", "drop")
    /\ target' = [target EXCEPT ![e] = u]
    /\ named' = [named EXCEPT ![e] = db[u].hash]
    /\ UNCHANGED <<processVars, history, active, file, tmp, cache, db,
                   uploadVars>>

(* _erase_cache also swallows the StorageError.                            *)
EraseCacheBestEffort(e) ==
    /\ EditGoto(e, "erase", "drop")
    /\ cache' \in {cache, Clear(cache, {named[e]})}
    /\ UNCHANGED <<processVars, history, active, file, tmp, db, uploadVars,
                   target, named>>

(* update merges the record it has read: an INSERT if the row is gone.     *)
AmendRowUpserts(e) ==
    /\ EditGoto(e, "amend", "amended")
    /\ db' = [db EXCEPT ![target[e]] =
                [hash |-> doc[target[e]], expires |-> due[target[e]], readable |-> TRUE]]
    /\ UNCHANGED <<processVars, history, active, file, tmp, cache, uploadVars,
                   target, named>>

(* update starts a new retention period.                                   *)
AmendRowExtends(e) ==
    /\ EditGoto(e, "amend", "amended")
    /\ db[target[e]] # None
    /\ db' = [db EXCEPT ![target[e]].expires = clock + Retention]
    /\ UNCHANGED <<processVars, history, active, file, tmp, cache, uploadVars,
                   target, named>>

(* The purge takes rows one instant too early.                             *)
ExpiredRowsEarly == {u \in Uploads: db[u] # None /\ db[u].expires <= clock + 1}

(* A failed purge of the records is logged and the start-up goes on.       *)
PurgeRecordsLogged ==
    /\ mode = "purge_records"
    /\ mode' = "purge_cache"
    /\ UNCHANGED <<clock, started, faults, history, active, file, tmp, cache, db,
                   uploadVars, editVars>>

(* The purge of the upload directory also runs while requests are served.  *)
PurgeUploadsDaily ==
    /\ mode \in {"purge_uploads", "up"}
    /\ mode' = "up"
    /\ file' = Clear(file, {u \in Uploads: file[u] # None /\ clock - file[u] > StaleAge})
    /\ UNCHANGED <<clock, started, faults, history, active, tmp, cache, db,
                   uploadVars, editVars>>

-----------------------------------------------------------------------------
(* POST /invoices.                                                         *)

(* The concurrency slot is taken and save_upload opens the file.           *)
StartUpload(u, d) ==
    /\ Goto(u, "idle", "saving")
    /\ active < MaxSlots
    /\ active' = active + 1
    /\ doc' = [doc EXCEPT ![u] = d]
    /\ file' = [file EXCEPT ![u] = clock]
    /\ UNCHANGED <<processVars, history, tmp, cache, db, answer, editVars>>

(* ServerBusyError: nothing is queued, nothing is written.                 *)
RefuseUpload(u) ==
    /\ Goto(u, "idle", "refused")
    /\ active >= MaxSlots
    /\ UNCHANGED <<processVars, history, active, file, tmp, cache, db, doc,
                   answer, editVars>>

(* A wrong type, an empty or too large body, or an OSError: the partial    *)
(* file goes, unless removing it fails too (_best_effort_unlink).          *)
SaveFails(u) ==
    /\ Goto(u, "saving", "failed")
    /\ active' = active - 1
    /\ \E left \in SUBSET {u}: file' = Clear(file, {u} \ left)
    /\ UNCHANGED <<processVars, history, tmp, cache, db, doc, answer, editVars>>

SaveSucceeds(u) ==
    /\ Goto(u, "saving", "lookup")
    /\ file' = [file EXCEPT ![u] = clock]
    /\ UNCHANGED <<processVars, history, active, tmp, cache, db, doc, answer,
                   editVars>>

(* get_cached: a hit.  The answer goes straight to the record.             *)
LookupHits(u) ==
    /\ Goto(u, "lookup", "insert")
    /\ cache[doc[u]] # None
    /\ Usable(cache[doc[u]])
    /\ answer' = [answer EXCEPT ![u] = [by |-> cache[doc[u]].by, fits |-> TRUE]]
    /\ UNCHANGED <<processVars, history, active, file, tmp, cache, db, doc,
                   editVars>>

LookupFindsNothing(u) ==
    /\ Goto(u, "lookup", "extract")
    /\ cache[doc[u]] = None
    /\ UNCHANGED <<processVars, history, active, file, tmp, cache, db, doc,
                   answer, editVars>>

(* The token read is tampered, expired or obsolete: it is to be deleted.   *)
LookupFindsStale(u) ==
    /\ Goto(u, "lookup", "unlink")
    /\ cache[doc[u]] # None
    /\ ~Usable(cache[doc[u]])
    /\ UNCHANGED <<processVars, history, active, file, tmp, cache, db, doc,
                   answer, editVars>>

(* path.unlink(missing_ok=True), by name: it takes whatever entry is there *)
(* by now, which another upload may have replaced since the read.          *)
UnlinkStale(u) ==
    /\ Goto(u, "unlink", "extract")
    /\ cache' = Clear(cache, {doc[u]})
    /\ UNCHANGED <<processVars, history, active, file, tmp, db, doc, answer,
                   editVars>>

(* OCR then Gemini, or Gemini on the image, then validate_invoice.         *)
Extract(u) ==
    /\ Goto(u, "extract", "write")
    /\ \E fits \in BOOLEAN: answer' = [answer EXCEPT ![u] = [by |-> u, fits |-> fits]]
    /\ UNCHANGED <<processVars, history, active, file, tmp, cache, db, doc,
                   editVars>>

(* The hash or the cache entry cannot be read, the unlink raises, OCR or   *)
(* Gemini fails: the exception leaves process_invoice.                     *)
ProcessingFails(u) ==
    /\ \E at \in {"lookup", "unlink", "extract"}: Goto(u, at, "errored")
    /\ UNCHANGED <<processVars, history, active, file, tmp, cache, db, doc,
                   answer, editVars>>

(* store_cache encrypts (the token carries this instant) and writes a      *)
(* temporary file of its own.                                              *)
WriteTmp(u) ==
    /\ Goto(u, "write", "replace")
    /\ tmp' = [tmp EXCEPT ![u] = clock]
    /\ UNCHANGED <<processVars, history, active, file, cache, db, doc, answer,
                   editVars>>

(* os.replace: the temporary file becomes the entry of the hash.           *)
ReplaceEntry(u) ==
    /\ Goto(u, "replace", "insert")
    /\ cache' = [cache EXCEPT ![doc[u]] =
                    [by |-> u, at |-> tmp[u], readable |-> answer[u].fits]]
    /\ tmp' = Clear(tmp, {u})
    /\ UNCHANGED <<processVars, history, active, file, db, doc, answer, editVars>>

(* Writing or replacing raises OSError and the temporary file is removed:  *)
(* StorageError, which the pipeline logs and ignores.                      *)
StoreFailsCleanly(u) ==
    /\ \E at \in {"write", "replace"}: Goto(u, at, "insert")
    /\ tmp' = Clear(tmp, {u})
    /\ UNCHANGED <<processVars, history, active, file, cache, db, doc, answer,
                   editVars>>

(* Removing the temporary file raises as well: that OSError is not a       *)
(* StorageError, so the pipeline does not catch it.                        *)
StoreFailsTwice(u) ==
    /\ \/ /\ Goto(u, "write", "errored")
          /\ tmp' = [tmp EXCEPT ![u] = clock]
       \/ /\ Goto(u, "replace", "errored")
          /\ UNCHANGED tmp
    /\ UNCHANGED <<processVars, history, active, file, cache, db, doc, answer,
                   editVars>>

(* repository.create and the commit: the row is inserted, read back with   *)
(* _open, and committed with its expiry date.                              *)
InsertRow(u) ==
    /\ Goto(u, "insert", "stored")
    /\ answer[u].fits
    /\ db' = [db EXCEPT ![u] =
                [hash |-> doc[u], expires |-> clock + Retention, readable |-> TRUE]]
    /\ due' = [due EXCEPT ![u] = clock + Retention]
    /\ UNCHANGED <<processVars, altered, active, file, tmp, cache, doc, answer,
                   editVars>>

(* _open refuses the answer (the schema does not accept it when it is read *)
(* back) or the database fails: rolled back.                               *)
InsertFails(u) ==
    /\ Goto(u, "insert", "errored")
    /\ UNCHANGED <<processVars, history, active, file, tmp, cache, db, doc,
                   answer, editVars>>

(* The finally clauses: delete_upload, whose failure is only logged, then  *)
(* the slot is given back and the answer is sent.                          *)
FinishUpload(u) ==
    /\ \/ Goto(u, "stored", "created")
       \/ Goto(u, "errored", "failed")
    /\ \E left \in SUBSET {u}: file' = Clear(file, {u} \ left)
    /\ active' = active - 1
    /\ UNCHANGED <<processVars, history, tmp, cache, db, doc, answer, editVars>>

-----------------------------------------------------------------------------
(* DELETE /invoices/{id}.                                                  *)

(* The row is read: what follows uses the hash it holds at this instant.   *)
StartDelete(e, u) ==
    /\ \/ /\ db[u] = None
          /\ EditGoto(e, "idle", "missing")
          /\ UNCHANGED <<target, named>>
       \/ /\ db[u] # None
          /\ EditGoto(e, "idle", "erase")
          /\ target' = [target EXCEPT ![e] = u]
          /\ named' = [named EXCEPT ![e] = db[u].hash]
    /\ UNCHANGED <<processVars, history, active, file, tmp, cache, db,
                   uploadVars>>

(* The cached copy goes first, under the hash the row holds.  An altered   *)
(* hash reaches another entry or, when it is not valid (ValueError, only   *)
(* logged) or unknown, none; the record is erased all the same.            *)
EraseCacheEntry(e) ==
    /\ EditGoto(e, "erase", "drop")
    /\ cache' = Clear(cache, {named[e]})
    /\ UNCHANGED <<processVars, history, active, file, tmp, db, uploadVars,
                   target, named>>

(* Then the row, and the commit; deleting no row is not an error (another  *)
(* DELETE won).                                                            *)
DropRow(e) ==
    /\ EditGoto(e, "drop", "dropped")
    /\ db' = Clear(db, {target[e]})
    /\ UNCHANGED <<processVars, history, active, file, tmp, cache, uploadVars,
                   target, named>>

(* The 204 leaves: the commit is already there.                            *)
AnswerDelete(e) ==
    /\ EditGoto(e, "dropped", "erased")
    /\ UNCHANGED <<processVars, history, active, file, tmp, cache, db,
                   uploadVars, target, named>>

(* The entry cannot be erased, or the database fails: a 500, to be retried.*)
DeleteFails(e) ==
    /\ \E at \in {"erase", "drop"}: EditGoto(e, at, "failed")
    /\ UNCHANGED <<processVars, history, active, file, tmp, cache, db,
                   uploadVars, target, named>>

(* PUT /invoices/{id}.                                                     *)

(* repository.get: absent when unknown or expired, an error when the row   *)
(* cannot be opened.                                                       *)
StartUpdate(e, u) ==
    /\ \/ /\ db[u] = None \/ Expired(u)
          /\ EditGoto(e, "idle", "missing")
          /\ UNCHANGED target
       \/ /\ db[u] # None /\ ~Expired(u) /\ ~db[u].readable
          /\ EditGoto(e, "idle", "failed")
          /\ UNCHANGED target
       \/ /\ db[u] # None /\ ~Expired(u) /\ db[u].readable
          /\ EditGoto(e, "idle", "amend")
          /\ target' = [target EXCEPT ![e] = u]
    /\ UNCHANGED <<processVars, history, active, file, tmp, cache, db,
                   uploadVars, named>>

(* UPDATE ... WHERE id = target: the payload is sealed again, the expiry   *)
(* date is not touched.                                                    *)
AmendRow(e) ==
    /\ EditGoto(e, "amend", "amended")
    /\ db[target[e]] # None
    /\ db' = [db EXCEPT ![target[e]].readable = TRUE]
    /\ UNCHANGED <<processVars, history, active, file, tmp, cache, uploadVars,
                   target, named>>

(* No row matched (it was erased meanwhile: StaleDataError), the corrected *)
(* invoice is refused by _open, or the database fails: rolled back.        *)
UpdateFails(e) ==
    /\ EditGoto(e, "amend", "failed")
    /\ UNCHANGED <<processVars, history, active, file, tmp, cache, db,
                   uploadVars, target, named>>

-----------------------------------------------------------------------------
(* The lifespan handler: three purges, then requests are served.           *)

ExpiredRows == {u \in Uploads: Expired(u)}
DocsOf(S) == {db[u].hash: u \in S}

(* uvicorn starts the process and enters the handler.                      *)
Start ==
    /\ mode = "down"
    /\ mode' = "purge_records"
    /\ started' = clock
    /\ UNCHANGED <<clock, faults, history, active, file, tmp, cache, db,
                   uploadVars, editVars>>

(* repository.purge_expired: every cached copy the expired rows name, then *)
(* every expired row (an altered hash spares a copy, never a row).         *)
PurgeRecords ==
    /\ mode = "purge_records"
    /\ mode' = "purge_cache"
    /\ cache' = Clear(cache, DocsOf(ExpiredRows))
    /\ db' = Clear(db, ExpiredRows)
    /\ UNCHANGED <<clock, started, faults, history, active, file, tmp,
                   uploadVars, editVars>>

(* One cached copy cannot be erased, or the DELETE fails: the transaction  *)
(* is rolled back and the server does not start.  The copies erased before *)
(* the failure are gone.                                                   *)
PurgeRecordsFails ==
    /\ mode = "purge_records"
    /\ mode' = "down"
    /\ \E D \in SUBSET DocsOf(ExpiredRows): cache' = Clear(cache, D)
    /\ UNCHANGED <<clock, started, faults, history, active, file, tmp, db,
                   uploadVars, editVars>>

(* cache.purge_expired: a file that cannot be removed is logged and left.  *)
PurgeCache ==
    /\ mode = "purge_cache"
    /\ mode' = "purge_uploads"
    /\ LET staleEntries == {d \in Docs: cache[d] # None /\ ~Usable(cache[d])}
           staleTmps == {u \in Uploads: tmp[u] # None /\ clock - tmp[u] > StaleAge}
       IN /\ \E D \in SUBSET staleEntries: cache' = Clear(cache, D)
          /\ \E S \in SUBSET staleTmps: tmp' = Clear(tmp, S)
    /\ UNCHANGED <<clock, started, faults, history, active, file, db,
                   uploadVars, editVars>>

(* purge_stale_uploads, likewise; then the server accepts requests.        *)
PurgeUploads ==
    /\ mode = "purge_uploads"
    /\ mode' = "up"
    /\ LET stale == {u \in Uploads: file[u] # None /\ clock - file[u] > StaleAge}
       IN \E S \in SUBSET stale: file' = Clear(file, S)
    /\ UNCHANGED <<clock, started, faults, history, active, tmp, cache, db,
                   uploadVars, editVars>>

-----------------------------------------------------------------------------
(* The environment.                                                        *)

Tick ==
    /\ clock < MaxClock
    /\ clock' = clock + 1
    /\ UNCHANGED <<mode, started, faults, history, active, file, tmp, cache, db,
                   uploadVars, editVars>>

(* An orderly stop: uvicorn lets the requests in progress end first.       *)
Stop ==
    /\ mode = "up"
    /\ \A u \in Uploads: pc[u] \notin InFlight
    /\ \A e \in Edits: epc[e] \notin EditInFlight
    /\ mode' = "down"
    /\ UNCHANGED <<clock, started, faults, history, active, file, tmp, cache, db,
                   uploadVars, editVars>>

(* The process dies: SQLite rolls back what was not committed, and what is *)
(* on disk stays.  A client whose record was committed, or whose row was   *)
(* removed, gets no answer.                                                *)
Crash ==
    /\ mode # "down" /\ faults < MaxFaults
    /\ faults' = faults + 1
    /\ mode' = "down"
    /\ active' = 0
    /\ pc' = [u \in Uploads |->
                IF pc[u] = "stored" THEN "unanswered"
                ELSE IF pc[u] \in InFlight THEN "crashed" ELSE pc[u]]
    /\ epc' = [e \in Edits |->
                IF epc[e] = "dropped" THEN "unanswered"
                ELSE IF epc[e] \in EditInFlight THEN "crashed" ELSE epc[e]]
    /\ UNCHANGED <<clock, started, history, file, tmp, cache, db, doc, answer,
                   target, named>>

(* Somebody alters a file, or the key changes: the entry or the row no     *)
(* longer opens.                                                           *)
TamperEntry(d) ==
    /\ cache[d] # None /\ faults < MaxFaults
    /\ faults' = faults + 1
    /\ cache' = [cache EXCEPT ![d].readable = FALSE]
    /\ UNCHANGED <<clock, mode, started, history, active, file, tmp, db,
                   uploadVars, editVars>>

(* The hash is a plain column: altered, the row still opens.               *)
TamperRow(u) ==
    /\ db[u] # None /\ faults < MaxFaults
    /\ faults' = faults + 1
    /\ \/ /\ db' = [db EXCEPT ![u].readable = FALSE]
          /\ UNCHANGED altered
       \/ /\ \E h \in Hash \ {db[u].hash}: db' = [db EXCEPT ![u].hash = h]
          /\ altered' = altered \cup {u}
    /\ UNCHANGED <<clock, mode, started, due, active, file, tmp, cache,
                   uploadVars, editVars>>

UploadStep(u) ==
    \/ SaveFails(u) \/ SaveSucceeds(u)
    \/ LookupHits(u) \/ LookupFindsNothing(u) \/ LookupFindsStale(u)
    \/ UnlinkStale(u) \/ Extract(u) \/ ProcessingFails(u)
    \/ WriteTmp(u) \/ ReplaceEntry(u) \/ StoreFailsCleanly(u) \/ StoreFailsTwice(u)
    \/ InsertRow(u) \/ InsertFails(u) \/ FinishUpload(u)

EditStep(e) ==
    \/ EraseCacheEntry(e) \/ DropRow(e) \/ AnswerDelete(e) \/ DeleteFails(e)
    \/ AmendRow(e) \/ UpdateFails(e)

Next ==
    \/ \E u \in Uploads, d \in Docs: StartUpload(u, d)
    \/ \E u \in Uploads: RefuseUpload(u) \/ UploadStep(u) \/ TamperRow(u)
    \/ \E e \in Edits, u \in Uploads: StartDelete(e, u) \/ StartUpdate(e, u)
    \/ \E e \in Edits: EditStep(e)
    \/ \E d \in Docs: TamperEntry(d)
    \/ Start \/ PurgeRecords \/ PurgeRecordsFails \/ PurgeCache \/ PurgeUploads
    \/ Tick \/ Stop \/ Crash

Spec == Init /\ [][Next]_vars

(* Every call of a handler returns (the OCR worker is killed at its        *)
(* timeout, tenacity stops at three attempts, SQLite's busy timeout; of    *)
(* the provider's client it is assumed), so a request that is in progress  *)
(* while the process lives takes its next step.  Nothing is assumed of     *)
(* clients, of the clock or of restarts.                                   *)
Fairness ==
    /\ \A u \in Uploads: WF_vars(UploadStep(u))
    /\ \A e \in Edits: WF_vars(EditStep(e))

FairSpec == Spec /\ Fairness

-----------------------------------------------------------------------------
(* What makes the store correct.                                           *)

(* The slots counted as taken are those of the uploads in progress, on     *)
(* every way out of create_invoice (security.py, slot()).                  *)
SlotsAccounted ==
    /\ active = Cardinality({u \in Uploads: pc[u] \in InFlight})
    /\ active <= MaxSlots

(* No purge and no other request takes away the file an upload still       *)
(* reads: the purge of the upload directory runs before requests do.       *)
UploadFileAvailable ==
    \A u \in Uploads: pc[u] \in {"lookup", "unlink", "extract"} => file[u] # None

(* Erasure reaches the cache: once a record that was created is gone, by   *)
(* DELETE or by the purge, no cached copy of its answer is left, whatever  *)
(* the uploads of the same document were doing meanwhile.  (A copy can     *)
(* outlive its upload only when that upload never created its record.)     *)
(* The exception is the code's own: of a record whose hash column somebody *)
(* altered only the row goes, and its copy is left to the TTL.             *)
ErasureReachesTheCache ==
    \A u \in Uploads \ altered:
        (pc[u] \in Committed /\ db[u] = None /\ cache[doc[u]] # None)
            => cache[doc[u]].by # answer[u].by

(* Once a DELETE is committed it is final, answered 204 or cut off by a    *)
(* crash: no PUT that had already read the row, no restart and no other    *)
(* upload brings the record back.                                          *)
ErasedStaysErased ==
    \A e \in Edits: epc[e] \in RowRemoved => db[target[e]] = None

(* The server serves only after the retention purge has succeeded: no row  *)
(* it then holds had expired when this start began, whatever start-ups     *)
(* failed half-way before.                                                 *)
ServingMeansPurged ==
    mode = "up" => \A u \in Uploads: db[u] # None => db[u].expires > started

(* A record that was created is not lost: until its own expiry date only a *)
(* DELETE of that record takes it away (answered, or cut off after its     *)
(* commit), not a crash, a failed request or a start-up that stopped       *)
(* half-way.                                                               *)
CommittedRecordsKept ==
    \A u \in Uploads:
        (pc[u] \in Committed /\ db[u] = None)
            => \/ \E e \in Edits: epc[e] \in RowRemoved /\ target[e] = u
               \/ due[u] <= clock

(* The store implements the life of a record: created once with its final  *)
(* expiry date, erased for good.                                           *)
Lifecycle == INSTANCE RecordLifecycle WITH
    Ids <- Uploads,
    Instants <- 0..(MaxClock + Retention),
    record <- [u \in Uploads |->
        IF db[u] # None THEN [state |-> "live", expires |-> db[u].expires]
        ELSE IF pc[u] \in Committed THEN [state |-> "erased"]
        ELSE [state |-> "absent"]]

RecordsLiveOnce == Lifecycle!Spec

(* Every accepted upload ends, answered or killed with the process.        *)
UploadsEnd ==
    \A u \in Uploads: (pc[u] \in InFlight) ~> (pc[u] \in Finished)

(* Every step of a request moves it forward, and nothing anybody else does *)
(* sets it back (at most, a crash ends it): no path through the handlers   *)
(* does again what it has done, so a request takes at most StepsLeft more  *)
(* steps.  This is the half of UploadsEnd that needs no fairness.          *)
StepsLeft(u) ==
    [idle |-> 9, saving |-> 8, lookup |-> 7, unlink |-> 6, extract |-> 5,
     write |-> 4, replace |-> 3, insert |-> 2, stored |-> 1, errored |-> 1,
     created |-> 0, failed |-> 0, refused |-> 0, crashed |-> 0,
     unanswered |-> 0][pc[u]]

EditStepsLeft(e) ==
    [idle |-> 4, erase |-> 3, drop |-> 2, dropped |-> 1, amend |-> 1, erased |-> 0,
     amended |-> 0, missing |-> 0, failed |-> 0, crashed |-> 0, unanswered |-> 0][epc[e]]

RequestsNeverGoBack ==
    [][/\ \A u \in Uploads: /\ StepsLeft(u)' <= StepsLeft(u)
                            /\ UploadStep(u) => StepsLeft(u)' < StepsLeft(u)
       /\ \A e \in Edits: /\ EditStepsLeft(e)' <= EditStepsLeft(e)
                          /\ EditStep(e) => EditStepsLeft(e)' < EditStepsLeft(e)]_vars

(* Why erasure works: an answer has one writer, which publishes it before  *)
(* any row can hold it.  So once a DELETE or a purge has cleared the entry *)
(* of a committed record, nobody is left who could publish it again.       *)
Published == {"insert", "stored", "errored"} \cup (Finished \ {"refused"})

AnswersHaveOneWriter ==
    /\ \A u \in Uploads:
        /\ mode # "up" => pc[u] \notin InFlight
        /\ (pc[u] = "idle" \/ pc[u] = "refused") => db[u] = None
        /\ (pc[u] # "idle" /\ pc[u] # "refused") => doc[u] \in Docs
        /\ pc[u] \in {"idle", "saving", "lookup", "unlink", "extract", "refused"}
               => answer[u] = None
        /\ pc[u] \in {"write", "replace"} => answer[u] \in Answer /\ answer[u].by = u
        /\ pc[u] = "replace" => tmp[u] \in Nat
        /\ pc[u] \in {"insert"} \cup Committed => answer[u] \in Answer
        /\ answer[u] # None =>
               /\ doc[answer[u].by] = doc[u]
               /\ answer[u].by = u \/ pc[answer[u].by] \in Published
        /\ db[u] # None =>
               pc[u] \in Committed /\ (u \notin altered => db[u].hash = doc[u])
    /\ \A d \in Docs: cache[d] # None =>
           doc[cache[d].by] = d /\ pc[cache[d].by] \in Published

EditsFollowTheRow ==
    \A e \in Edits:
        /\ epc[e] \in EditInFlight \cup RowRemoved =>
               target[e] \in Uploads /\ pc[target[e]] \in Committed
        /\ (epc[e] = "erase" /\ target[e] \notin altered) =>
               named[e] = doc[target[e]]
        /\ (epc[e] = "drop" /\ target[e] \notin altered) =>
               \/ cache[doc[target[e]]] = None
               \/ cache[doc[target[e]]].by # answer[target[e]].by

(* The inductive invariant behind the safety theorems.                     *)
IndInv ==
    /\ TypeOK /\ AnswersHaveOneWriter /\ EditsFollowTheRow
    /\ ErasureReachesTheCache /\ ErasedStaysErased /\ SlotsAccounted

(* What cache.py:52-53 says of the hash: two identical uploads hit the     *)
(* cache before any OCR work is done, so no upload goes to Gemini while    *)
(* the answer for its document is cached and still good.                   *)
IdenticalUploadsHitTheCache ==
    \A u \in Uploads:
        pc[u] = "extract" => (cache[doc[u]] = None \/ ~Usable(cache[doc[u]]))
=============================================================================
