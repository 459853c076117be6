------------------------- MODULE InvoiceStore_proofs -------------------------
(***************************************************************************)
(* Proofs about InvoiceStore, for every number of uploads, edits and       *)
(* documents and every value of the limits.  The safety theorems share one *)
(* inductive invariant, IndInv; each conjunct is preserved by a lemma of   *)
(* its own, with one step per action.                                      *)
(*                                                                         *)
(* The second part follows a record and the file of an upload: the store   *)
(* implements RecordLifecycle, only a DELETE or a purge that was due       *)
(* removes a record, requests are served only after a complete purge, and  *)
(* no purge takes the file of an upload in progress.  Few steps touch a    *)
(* record (StepsOnRecords), so each theorem looks at four kinds of steps;  *)
(* the order of the last start, the clock and the expiry dates does the    *)
(* rest.                                                                   *)
(***************************************************************************)
EXTENDS InvoiceStore, FiniteSetTheorems, TLAPS

(* What removing some of its files does to a store.                        *)
LEMMA ClearFunction ==
    ASSUME NEW S, NEW T, NEW f \in [S -> T \cup {None}], NEW X
    PROVE  /\ Clear(f, X) \in [S -> T \cup {None}]
           /\ \A x \in S: Clear(f, X)[x] = IF x \in X THEN None ELSE f[x]
  BY DEF Clear

(* The same for each of the four stores.                                   *)
LEMMA ClearStores ==
    ASSUME TypeOK, NEW X
    PROVE  /\ Clear(file, X) \in [Uploads -> Nat \cup {None}]
           /\ Clear(tmp, X) \in [Uploads -> Nat \cup {None}]
           /\ Clear(cache, X) \in [Docs -> Entry \cup {None}]
           /\ Clear(db, X) \in [Uploads -> Row \cup {None}]
           /\ \A d \in Docs: Clear(cache, X)[d] = IF d \in X THEN None ELSE cache[d]
           /\ \A u \in Uploads: Clear(db, X)[u] = IF u \in X THEN None ELSE db[u]
           /\ \A u \in Uploads: Clear(tmp, X)[u] = IF u \in X THEN None ELSE tmp[u]
<1>1. /\ file \in [Uploads -> Nat \cup {None}]
      /\ tmp \in [Uploads -> Nat \cup {None}]
      /\ cache \in [Docs -> Entry \cup {None}]
      /\ db \in [Uploads -> Row \cup {None}]
  BY DEF TypeOK
<1>2. Clear(file, X) \in [Uploads -> Nat \cup {None}]
  BY <1>1, ClearFunction
<1>3. Clear(tmp, X) \in [Uploads -> Nat \cup {None}]
  BY <1>1, ClearFunction
<1>4. Clear(cache, X) \in [Docs -> Entry \cup {None}]
  BY <1>1, ClearFunction
<1>5. Clear(db, X) \in [Uploads -> Row \cup {None}]
  BY <1>1, ClearFunction
<1>6. \A d \in Docs: Clear(cache, X)[d] = IF d \in X THEN None ELSE cache[d]
  BY <1>1 DEF Clear
<1>7. \A u \in Uploads: Clear(db, X)[u] = IF u \in X THEN None ELSE db[u]
  BY <1>1 DEF Clear
<1>8. \A u \in Uploads: Clear(tmp, X)[u] = IF u \in X THEN None ELSE tmp[u]
  BY <1>1 DEF Clear
<1>9. QED
  BY <1>2, <1>3, <1>4, <1>5, <1>6, <1>7, <1>8

(* What an alteration does to a row: it leaves its expiry alone, and its   *)
(* hash unless the row is counted as altered.                              *)
LEMMA TamperedRow ==
    ASSUME TypeOK, NEW u \in Uploads, TamperRow(u)
    PROVE  /\ \E r \in Row: /\ db' = [db EXCEPT ![u] = r]
                            /\ r.expires = db[u].expires
                            /\ u \notin altered' => r.hash = db[u].hash
           /\ db[u] # None
           /\ altered \subseteq altered' /\ altered' \subseteq Uploads
<1>1. db[u] \in Row
  BY DEF TypeOK, TamperRow
<1>2. CASE db' = [db EXCEPT ![u].readable = FALSE] /\ UNCHANGED altered
  <2> DEFINE r == [db[u] EXCEPT !.readable = FALSE]
  <2>1. r \in Row /\ r.expires = db[u].expires /\ r.hash = db[u].hash
    BY <1>1 DEF Row
  <2>2. db' = [db EXCEPT ![u] = r]
    BY <1>2
  <2>3. QED
    BY <1>2, <2>1, <2>2 DEF TypeOK, TamperRow
<1>3. ASSUME NEW h \in Hash, db' = [db EXCEPT ![u].hash = h],
             altered' = altered \cup {u}
      PROVE  \E r \in Row: db' = [db EXCEPT ![u] = r] /\ r.expires = db[u].expires
  <2> DEFINE r == [db[u] EXCEPT !.hash = h]
  <2>1. r \in Row /\ r.expires = db[u].expires
    BY <1>1 DEF Row
  <2>2. db' = [db EXCEPT ![u] = r]
    BY <1>3
  <2>3. QED
    BY <2>1, <2>2
<1>4. QED
  BY <1>2, <1>3 DEF TypeOK, TamperRow

(* What a PUT does to a row: its expiry and its hash are left alone.       *)
LEMMA AmendedRow ==
    ASSUME TypeOK, EditsFollowTheRow, NEW e \in Edits, AmendRow(e)
    PROVE  /\ \E r \in Row: /\ db' = [db EXCEPT ![target[e]] = r]
                            /\ r.expires = db[target[e]].expires
                            /\ r.hash = db[target[e]].hash
           /\ target[e] \in Uploads /\ db[target[e]] # None
<1>1. target[e] \in Uploads /\ db[target[e]] \in Row
  BY DEF TypeOK, AmendRow, EditGoto, EditsFollowTheRow, EditInFlight
<1> DEFINE r == [db[target[e]] EXCEPT !.readable = TRUE]
<1>2. r \in Row /\ r.expires = db[target[e]].expires /\ r.hash = db[target[e]].hash
  BY <1>1 DEF Row
<1>3. db' = [db EXCEPT ![target[e]] = r]
  BY DEF AmendRow
<1>4. QED
  BY <1>1, <1>2, <1>3 DEF AmendRow

-----------------------------------------------------------------------------
(* The slots.                                                              *)

Taken == {u \in Uploads: pc[u] \in InFlight}

(* An upload that leaves held a slot, and the count follows.               *)
LEMMA SlotReturned ==
    ASSUME TypeOK, SlotsAccounted, NEW u \in Uploads, pc[u] \in InFlight
    PROVE  /\ active - 1 \in Nat
           /\ Cardinality(Taken \ {u}) = active - 1
<1>1. IsFiniteSet(Taken) /\ u \in Taken
  BY ParametersAssumption, FS_Subset DEF Taken
<1>2. Cardinality(Taken \ {u}) = Cardinality(Taken) - 1
  BY <1>1, FS_RemoveElement
<1>3. Cardinality(Taken \ {u}) \in Nat
  BY <1>1, FS_RemoveElement, FS_CardinalityType
<1>4. QED
  BY <1>2, <1>3 DEF SlotsAccounted, Taken

(* Every step keeps the types: a slot given back is one that was taken, so *)
(* the count stays a natural number.                                       *)
LEMMA TypeStep ==
    ASSUME IndInv, [Next]_vars
    PROVE  TypeOK'
<1> USE ParametersAssumption, NoneAssumption
<1> USE DEF IndInv, TypeOK, processVars, history, uploadVars, editVars, InFlight,
            Finished, EditInFlight, EditFinished, Hash
<1>1. ASSUME NEW u \in Uploads, NEW d \in Docs, StartUpload(u, d)
     PROVE  TypeOK'
  BY <1>1 DEF StartUpload, Goto
<1>2. ASSUME NEW u \in Uploads, RefuseUpload(u)
     PROVE  TypeOK'
  BY <1>2 DEF RefuseUpload, Goto
<1>3. ASSUME NEW u \in Uploads, SaveFails(u)
     PROVE  TypeOK'
  <2>1. active - 1 \in Nat
    BY <1>3, SlotReturned DEF SaveFails, Goto
  <2>2. QED
    BY <1>3, <2>1, ClearStores DEF SaveFails, Goto
<1>4. ASSUME NEW u \in Uploads, SaveSucceeds(u)
     PROVE  TypeOK'
  BY <1>4 DEF SaveSucceeds, Goto
<1>5. ASSUME NEW u \in Uploads, LookupHits(u)
     PROVE  TypeOK'
  BY <1>5 DEF LookupHits, Goto, Answer, Entry, AnswersHaveOneWriter
<1>6. ASSUME NEW u \in Uploads, LookupFindsNothing(u)
     PROVE  TypeOK'
  BY <1>6 DEF LookupFindsNothing, Goto
<1>7. ASSUME NEW u \in Uploads, LookupFindsStale(u)
     PROVE  TypeOK'
  BY <1>7 DEF LookupFindsStale, Goto
<1>8. ASSUME NEW u \in Uploads, UnlinkStale(u)
     PROVE  TypeOK'
  BY <1>8, ClearStores DEF UnlinkStale, Goto
<1>9. ASSUME NEW u \in Uploads, Extract(u)
     PROVE  TypeOK'
  BY <1>9 DEF Extract, Goto, Answer
<1>10. ASSUME NEW u \in Uploads, ProcessingFails(u)
     PROVE  TypeOK'
  BY <1>10 DEF ProcessingFails, Goto
<1>11. ASSUME NEW u \in Uploads, WriteTmp(u)
     PROVE  TypeOK'
  BY <1>11 DEF WriteTmp, Goto
<1>12. ASSUME NEW u \in Uploads, ReplaceEntry(u)
     PROVE  TypeOK'
  BY <1>12, ClearStores DEF ReplaceEntry, Goto, Answer, Entry,
     AnswersHaveOneWriter
<1>13. ASSUME NEW u \in Uploads, StoreFailsCleanly(u)
     PROVE  TypeOK'
  BY <1>13, ClearStores DEF StoreFailsCleanly, Goto
<1>14. ASSUME NEW u \in Uploads, StoreFailsTwice(u)
     PROVE  TypeOK'
  BY <1>14 DEF StoreFailsTwice, Goto
<1>15. ASSUME NEW u \in Uploads, InsertRow(u)
     PROVE  TypeOK'
  BY <1>15 DEF InsertRow, Goto, Row, AnswersHaveOneWriter
<1>16. ASSUME NEW u \in Uploads, InsertFails(u)
     PROVE  TypeOK'
  BY <1>16 DEF InsertFails, Goto
<1>17. ASSUME NEW u \in Uploads, FinishUpload(u)
     PROVE  TypeOK'
  <2>1. active - 1 \in Nat
    BY <1>17, SlotReturned DEF FinishUpload, Goto
  <2>2. QED
    BY <1>17, <2>1, ClearStores DEF FinishUpload, Goto
<1>18. ASSUME NEW u \in Uploads, TamperRow(u)
     PROVE  TypeOK'
  <2>1. db' \in [Uploads -> Row \cup {None}] /\ altered' \subseteq Uploads
    BY <1>18, TamperedRow
  <2>2. QED
    BY <1>18, <2>1 DEF TamperRow
<1>19. ASSUME NEW e \in Edits, NEW u \in Uploads, StartDelete(e, u)
     PROVE  TypeOK'
  <2>1. db[u] # None => db[u].hash \in Hash
    BY DEF Row
  <2>2. QED
    BY <1>19, <2>1 DEF StartDelete, EditGoto
<1>20. ASSUME NEW e \in Edits, NEW u \in Uploads, StartUpdate(e, u)
     PROVE  TypeOK'
  BY <1>20 DEF StartUpdate, EditGoto
<1>21. ASSUME NEW e \in Edits, EraseCacheEntry(e)
     PROVE  TypeOK'
  BY <1>21, ClearStores DEF EraseCacheEntry, EditGoto
<1>22. ASSUME NEW e \in Edits, DropRow(e)
     PROVE  TypeOK'
  BY <1>22, ClearStores DEF DropRow, EditGoto
<1>23. ASSUME NEW e \in Edits, DeleteFails(e)
     PROVE  TypeOK'
  BY <1>23 DEF DeleteFails, EditGoto
<1>24. ASSUME NEW e \in Edits, AmendRow(e)
     PROVE  TypeOK'
  <2>1. db' \in [Uploads -> Row \cup {None}]
    BY <1>24, AmendedRow
  <2>2. QED
    BY <1>24, <2>1 DEF AmendRow, EditGoto
<1>25. ASSUME NEW e \in Edits, UpdateFails(e)
     PROVE  TypeOK'
  BY <1>25 DEF UpdateFails, EditGoto
<1>26. ASSUME NEW d \in Docs, TamperEntry(d)
     PROVE  TypeOK'
  <2>1. cache[d] \in Entry
    BY <1>26 DEF TamperEntry
  <2>2. [cache[d] EXCEPT !.readable = FALSE] \in Entry
    BY <2>1 DEF Entry
  <2>3. QED
    BY <1>26, <2>2 DEF TamperEntry
<1>27. CASE PurgeRecords
  BY <1>27, ClearStores DEF PurgeRecords
<1>28. CASE PurgeRecordsFails
  BY <1>28, ClearStores DEF PurgeRecordsFails
<1>29. CASE PurgeCache
  BY <1>29, ClearStores DEF PurgeCache
<1>30. CASE PurgeUploads
  BY <1>30, ClearStores DEF PurgeUploads
<1>31. CASE Tick
  BY <1>31 DEF Tick
<1>32. CASE Crash
  BY <1>32 DEF Crash
<1>33. CASE UNCHANGED vars
  BY <1>33 DEF vars
<1>34. ASSUME NEW e \in Edits, AnswerDelete(e)
     PROVE  TypeOK'
  BY <1>34 DEF AnswerDelete, EditGoto
<1>35. CASE Start
  BY <1>35 DEF Start
<1>36. CASE Stop
  BY <1>36 DEF Stop
<1>37. QED
  BY <1>1, <1>2, <1>3, <1>4, <1>5, <1>6, <1>7, <1>8, <1>9, <1>10, <1>11,
     <1>12, <1>13, <1>14, <1>15, <1>16, <1>17, <1>18, <1>19, <1>20, <1>21,
     <1>22, <1>23, <1>24, <1>25, <1>26, <1>27, <1>28, <1>29, <1>30, <1>31,
     <1>32, <1>33, <1>34, <1>35, <1>36 DEF Next, UploadStep, EditStep

(* Every step keeps one writer per answer: Extract makes it, only that     *)
(* upload publishes it, and an entry or a row never names another document.*)
LEMMA WritersStep ==
    ASSUME IndInv, [Next]_vars
    PROVE  AnswersHaveOneWriter'
<1> USE ParametersAssumption, NoneAssumption
<1> USE DEF IndInv, TypeOK, processVars, history, uploadVars, editVars
<1>1. ASSUME NEW u \in Uploads, NEW d \in Docs, StartUpload(u, d)
     PROVE  AnswersHaveOneWriter'
  BY <1>1 DEF StartUpload, Goto, Committed, Finished, Published,
     AnswersHaveOneWriter
<1>2. ASSUME NEW u \in Uploads, RefuseUpload(u)
     PROVE  AnswersHaveOneWriter'
  BY <1>2 DEF RefuseUpload, Goto, Committed, Finished, Published,
     AnswersHaveOneWriter
<1>3. ASSUME NEW u \in Uploads, SaveFails(u)
     PROVE  AnswersHaveOneWriter'
  BY <1>3 DEF SaveFails, Goto, Committed, Finished, Published,
     AnswersHaveOneWriter
<1>4. ASSUME NEW u \in Uploads, SaveSucceeds(u)
     PROVE  AnswersHaveOneWriter'
  BY <1>4 DEF SaveSucceeds, Goto, Committed, Finished, Published,
     AnswersHaveOneWriter
<1>5. ASSUME NEW u \in Uploads, LookupHits(u)
     PROVE  AnswersHaveOneWriter'
  BY <1>5 DEF LookupHits, Goto, Answer, Entry, Published, AnswersHaveOneWriter
<1>6. ASSUME NEW u \in Uploads, LookupFindsNothing(u)
     PROVE  AnswersHaveOneWriter'
  BY <1>6 DEF LookupFindsNothing, Goto, Committed, Finished, Published,
     AnswersHaveOneWriter
<1>7. ASSUME NEW u \in Uploads, LookupFindsStale(u)
     PROVE  AnswersHaveOneWriter'
  BY <1>7 DEF LookupFindsStale, Goto, Committed, Finished, Published,
     AnswersHaveOneWriter
<1>8. ASSUME NEW u \in Uploads, UnlinkStale(u)
     PROVE  AnswersHaveOneWriter'
  BY <1>8, ClearStores DEF UnlinkStale, Goto, Committed, Finished,
     Published, AnswersHaveOneWriter
<1>9. ASSUME NEW u \in Uploads, Extract(u)
     PROVE  AnswersHaveOneWriter'
  BY <1>9 DEF Extract, Goto, Answer, Finished, Published, AnswersHaveOneWriter
<1>10. ASSUME NEW u \in Uploads, ProcessingFails(u)
     PROVE  AnswersHaveOneWriter'
  BY <1>10 DEF ProcessingFails, Goto, Committed, Published,
     AnswersHaveOneWriter
<1>11. ASSUME NEW u \in Uploads, WriteTmp(u)
     PROVE  AnswersHaveOneWriter'
  BY <1>11 DEF WriteTmp, Goto, Committed, Finished, Published,
     AnswersHaveOneWriter
<1>12. ASSUME NEW u \in Uploads, ReplaceEntry(u)
     PROVE  AnswersHaveOneWriter'
  <2>1. doc[u] \in Docs /\ pc[u] = "replace" /\ pc'[u] \in Published
    BY <1>12 DEF ReplaceEntry, Goto, AnswersHaveOneWriter, Published
  <2>2. /\ \A v \in Uploads: pc'[v] = IF v = u THEN "insert" ELSE pc[v]
        /\ \A v \in Uploads: v # u => tmp'[v] = tmp[v]
        /\ \A d \in Docs: d # doc[u] => cache'[d] = cache[d]
        /\ cache'[doc[u]].by = u
        /\ UNCHANGED <<mode, doc, answer, db, altered>>
    BY <1>12, <2>1, ClearStores DEF ReplaceEntry, Goto
  <2>3. \A d \in Docs: cache'[d] # None =>
            doc'[cache'[d].by] = d /\ pc'[cache'[d].by] \in Published
    <3>1. \A v \in Uploads: pc[v] \in Published => pc'[v] \in Published
      BY <2>1, <2>2
    <3>2. \A d \in Docs: cache[d] # None => cache[d].by \in Uploads
      BY DEF Entry
    <3>3. QED
      BY <2>1, <2>2, <3>1, <3>2 DEF AnswersHaveOneWriter
  <2>4. QED
    BY <2>1, <2>2, <2>3 DEF AnswersHaveOneWriter, Answer, Committed, Finished
<1>13. ASSUME NEW u \in Uploads, StoreFailsCleanly(u)
     PROVE  AnswersHaveOneWriter'
  BY <1>13, ClearStores DEF StoreFailsCleanly, Goto, Committed, Published,
     AnswersHaveOneWriter
<1>14. ASSUME NEW u \in Uploads, StoreFailsTwice(u)
     PROVE  AnswersHaveOneWriter'
  BY <1>14 DEF StoreFailsTwice, Goto, Answer, Entry, Committed, Published,
     AnswersHaveOneWriter
<1>15. ASSUME NEW u \in Uploads, InsertRow(u)
     PROVE  AnswersHaveOneWriter'
  BY <1>15 DEF InsertRow, Goto, Committed, Published, AnswersHaveOneWriter
<1>16. ASSUME NEW u \in Uploads, InsertFails(u)
     PROVE  AnswersHaveOneWriter'
  BY <1>16 DEF InsertFails, Goto, Committed, Published, AnswersHaveOneWriter
<1>17. ASSUME NEW u \in Uploads, FinishUpload(u)
     PROVE  AnswersHaveOneWriter'
  BY <1>17 DEF FinishUpload, Goto, Answer, Entry, Committed, Finished,
     Published, AnswersHaveOneWriter
<1>18. ASSUME NEW u \in Uploads, TamperRow(u)
     PROVE  AnswersHaveOneWriter'
  BY <1>18, TamperedRow DEF TamperRow, AnswersHaveOneWriter
<1>19. ASSUME NEW e \in Edits, NEW u \in Uploads, StartDelete(e, u)
     PROVE  AnswersHaveOneWriter'
  BY <1>19 DEF StartDelete, AnswersHaveOneWriter
<1>20. ASSUME NEW e \in Edits, NEW u \in Uploads, StartUpdate(e, u)
     PROVE  AnswersHaveOneWriter'
  BY <1>20 DEF StartUpdate, AnswersHaveOneWriter
<1>21. ASSUME NEW e \in Edits, EraseCacheEntry(e)
     PROVE  AnswersHaveOneWriter'
  BY <1>21, ClearStores DEF EraseCacheEntry, AnswersHaveOneWriter
<1>22. ASSUME NEW e \in Edits, DropRow(e)
     PROVE  AnswersHaveOneWriter'
  BY <1>22, ClearStores DEF DropRow, AnswersHaveOneWriter
<1>23. ASSUME NEW e \in Edits, DeleteFails(e)
     PROVE  AnswersHaveOneWriter'
  BY <1>23 DEF DeleteFails, AnswersHaveOneWriter
<1>24. ASSUME NEW e \in Edits, AmendRow(e)
     PROVE  AnswersHaveOneWriter'
  BY <1>24, AmendedRow DEF AmendRow, AnswersHaveOneWriter
<1>25. ASSUME NEW e \in Edits, UpdateFails(e)
     PROVE  AnswersHaveOneWriter'
  BY <1>25 DEF UpdateFails, AnswersHaveOneWriter
<1>26. ASSUME NEW d \in Docs, TamperEntry(d)
     PROVE  AnswersHaveOneWriter'
  BY <1>26 DEF TamperEntry, AnswersHaveOneWriter
<1>27. CASE PurgeRecords
  BY <1>27, ClearStores DEF PurgeRecords, AnswersHaveOneWriter
<1>28. CASE PurgeRecordsFails
  BY <1>28, ClearStores DEF PurgeRecordsFails, AnswersHaveOneWriter
<1>29. CASE PurgeCache
  BY <1>29, ClearStores DEF PurgeCache, Finished, AnswersHaveOneWriter
<1>30. CASE PurgeUploads
  BY <1>30 DEF PurgeUploads, AnswersHaveOneWriter
<1>31. CASE Tick
  BY <1>31 DEF Tick, AnswersHaveOneWriter
<1>32. CASE Crash
  BY <1>32 DEF Crash, Answer, Entry, Committed, InFlight, Finished,
     Published, AnswersHaveOneWriter
<1>33. CASE UNCHANGED vars
  BY <1>33 DEF vars, AnswersHaveOneWriter
<1>34. ASSUME NEW e \in Edits, AnswerDelete(e)
     PROVE  AnswersHaveOneWriter'
  BY <1>34 DEF AnswerDelete, AnswersHaveOneWriter
<1>35. CASE Start
  BY <1>35 DEF Start, AnswersHaveOneWriter
<1>36. CASE Stop
  BY <1>36 DEF Stop, AnswersHaveOneWriter
<1>37. QED
  BY <1>1, <1>2, <1>3, <1>4, <1>5, <1>6, <1>7, <1>8, <1>9, <1>10, <1>11,
     <1>12, <1>13, <1>14, <1>15, <1>16, <1>17, <1>18, <1>19, <1>20, <1>21,
     <1>22, <1>23, <1>24, <1>25, <1>26, <1>27, <1>28, <1>29, <1>30, <1>31,
     <1>32, <1>33, <1>34, <1>35, <1>36 DEF Next, UploadStep, EditStep

(* The argument of erasure: while an upload is about to publish its answer *)
(* no committed record can hold that answer.                               *)
LEMMA OnlyTheWriterPublishes ==
    ASSUME TypeOK, AnswersHaveOneWriter, NEW u \in Uploads, pc[u] = "replace",
           NEW v \in Uploads, pc[v] \in Committed
    PROVE  answer[v].by # u
<1>1. v # u /\ pc[u] \notin Published
  BY DEF Committed, Published, Finished
<1>2. answer[v] \in Answer
  BY DEF AnswersHaveOneWriter
<1>3. answer[v].by = v \/ pc[answer[v].by] \in Published
  BY <1>2, NoneAssumption DEF AnswersHaveOneWriter
<1>4. QED
  BY <1>1, <1>3

(* Every step keeps what a DELETE or PUT in progress relies on: the record *)
(* it names was committed, and between the two steps of a DELETE nobody    *)
(* puts the erased answer back into the cache.                             *)
LEMMA EditsStep ==
    ASSUME IndInv, [Next]_vars
    PROVE  EditsFollowTheRow'
<1> USE ParametersAssumption, NoneAssumption
<1> USE DEF IndInv, TypeOK, processVars, history, uploadVars, editVars, RowRemoved
<1>1. ASSUME NEW u \in Uploads, NEW d \in Docs, StartUpload(u, d)
     PROVE  EditsFollowTheRow'
  BY <1>1 DEF StartUpload, Goto, EditInFlight, EditsFollowTheRow,
     AnswersHaveOneWriter
<1>2. ASSUME NEW u \in Uploads, RefuseUpload(u)
     PROVE  EditsFollowTheRow'
  BY <1>2 DEF RefuseUpload, Goto, EditsFollowTheRow, AnswersHaveOneWriter
<1>3. ASSUME NEW u \in Uploads, SaveFails(u)
     PROVE  EditsFollowTheRow'
  BY <1>3 DEF SaveFails, Goto, EditsFollowTheRow, AnswersHaveOneWriter
<1>4. ASSUME NEW u \in Uploads, SaveSucceeds(u)
     PROVE  EditsFollowTheRow'
  BY <1>4 DEF SaveSucceeds, Goto, EditsFollowTheRow, AnswersHaveOneWriter
<1>5. ASSUME NEW u \in Uploads, LookupHits(u)
     PROVE  EditsFollowTheRow'
  BY <1>5 DEF LookupHits, Goto, EditInFlight, EditsFollowTheRow,
     AnswersHaveOneWriter
<1>6. ASSUME NEW u \in Uploads, LookupFindsNothing(u)
     PROVE  EditsFollowTheRow'
  BY <1>6 DEF LookupFindsNothing, Goto, EditsFollowTheRow,
     AnswersHaveOneWriter
<1>7. ASSUME NEW u \in Uploads, LookupFindsStale(u)
     PROVE  EditsFollowTheRow'
  BY <1>7 DEF LookupFindsStale, Goto, EditsFollowTheRow, AnswersHaveOneWriter
<1>8. ASSUME NEW u \in Uploads, UnlinkStale(u)
     PROVE  EditsFollowTheRow'
  BY <1>8, ClearStores DEF UnlinkStale, Goto, EditInFlight,
     EditsFollowTheRow, AnswersHaveOneWriter
<1>9. ASSUME NEW u \in Uploads, Extract(u)
     PROVE  EditsFollowTheRow'
  BY <1>9 DEF Extract, Goto, EditInFlight, EditsFollowTheRow,
     AnswersHaveOneWriter
<1>10. ASSUME NEW u \in Uploads, ProcessingFails(u)
     PROVE  EditsFollowTheRow'
  BY <1>10 DEF ProcessingFails, Goto, EditsFollowTheRow, AnswersHaveOneWriter
<1>11. ASSUME NEW u \in Uploads, WriteTmp(u)
     PROVE  EditsFollowTheRow'
  BY <1>11 DEF WriteTmp, Goto, Committed, EditsFollowTheRow
<1>12. ASSUME NEW u \in Uploads, ReplaceEntry(u)
     PROVE  EditsFollowTheRow'
  <2>1. \A v \in Uploads: pc[v] \in Committed => answer[v].by # u
    BY <1>12, OnlyTheWriterPublishes DEF ReplaceEntry, Goto
  <2>2. doc[u] \in Docs /\ cache'[doc[u]].by = u
    BY <1>12 DEF ReplaceEntry, Goto, AnswersHaveOneWriter
  <2>3. /\ \A d \in Docs: d # doc[u] => cache'[d] = cache[d]
        /\ \A v \in Uploads: pc[v] \in Committed => pc'[v] \in Committed
        /\ UNCHANGED <<doc, answer, epc, target, named, altered>>
    BY <1>12 DEF ReplaceEntry, Goto, Committed
  <2>4. \A v \in Uploads: pc[v] \in Committed => doc[v] \in Docs
    BY DEF AnswersHaveOneWriter
  <2>5. QED
    BY <2>1, <2>2, <2>3, <2>4 DEF EditsFollowTheRow, EditInFlight
<1>13. ASSUME NEW u \in Uploads, StoreFailsCleanly(u)
     PROVE  EditsFollowTheRow'
  BY <1>13 DEF StoreFailsCleanly, Goto, Committed, EditsFollowTheRow
<1>14. ASSUME NEW u \in Uploads, StoreFailsTwice(u)
     PROVE  EditsFollowTheRow'
  BY <1>14 DEF StoreFailsTwice, Goto, Committed, EditsFollowTheRow
<1>15. ASSUME NEW u \in Uploads, InsertRow(u)
     PROVE  EditsFollowTheRow'
  BY <1>15 DEF InsertRow, Goto, Committed, EditsFollowTheRow
<1>16. ASSUME NEW u \in Uploads, InsertFails(u)
     PROVE  EditsFollowTheRow'
  BY <1>16 DEF InsertFails, Goto, Committed, EditsFollowTheRow
<1>17. ASSUME NEW u \in Uploads, FinishUpload(u)
     PROVE  EditsFollowTheRow'
  BY <1>17 DEF FinishUpload, Goto, Committed, EditsFollowTheRow
<1>18. ASSUME NEW u \in Uploads, TamperRow(u)
     PROVE  EditsFollowTheRow'
  BY <1>18, TamperedRow DEF TamperRow, EditsFollowTheRow
<1>19. ASSUME NEW e \in Edits, NEW u \in Uploads, StartDelete(e, u)
     PROVE  EditsFollowTheRow'
  BY <1>19 DEF StartDelete, EditGoto, EditInFlight, EditsFollowTheRow,
     AnswersHaveOneWriter
<1>20. ASSUME NEW e \in Edits, NEW u \in Uploads, StartUpdate(e, u)
     PROVE  EditsFollowTheRow'
  BY <1>20 DEF StartUpdate, EditGoto, EditInFlight, EditsFollowTheRow,
     AnswersHaveOneWriter
<1>21. ASSUME NEW e \in Edits, EraseCacheEntry(e)
     PROVE  EditsFollowTheRow'
  BY <1>21, ClearStores DEF EraseCacheEntry, EditGoto, EditInFlight,
     EditsFollowTheRow, AnswersHaveOneWriter
<1>22. ASSUME NEW e \in Edits, DropRow(e)
     PROVE  EditsFollowTheRow'
  BY <1>22 DEF DropRow, EditGoto, EditInFlight, EditsFollowTheRow
<1>23. ASSUME NEW e \in Edits, DeleteFails(e)
     PROVE  EditsFollowTheRow'
  BY <1>23 DEF DeleteFails, EditGoto, EditInFlight, EditsFollowTheRow
<1>24. ASSUME NEW e \in Edits, AmendRow(e)
     PROVE  EditsFollowTheRow'
  BY <1>24 DEF AmendRow, EditGoto, EditInFlight, EditsFollowTheRow
<1>25. ASSUME NEW e \in Edits, UpdateFails(e)
     PROVE  EditsFollowTheRow'
  BY <1>25 DEF UpdateFails, EditGoto, EditInFlight, EditsFollowTheRow
<1>26. ASSUME NEW d \in Docs, TamperEntry(d)
     PROVE  EditsFollowTheRow'
  BY <1>26 DEF TamperEntry, EditsFollowTheRow
<1>27. CASE PurgeRecords
  BY <1>27, ClearStores DEF PurgeRecords, EditInFlight, EditsFollowTheRow,
     AnswersHaveOneWriter
<1>28. CASE PurgeRecordsFails
  BY <1>28, ClearStores DEF PurgeRecordsFails, EditInFlight,
     EditsFollowTheRow, AnswersHaveOneWriter
<1>29. CASE PurgeCache
  BY <1>29, ClearStores DEF PurgeCache, EditInFlight, EditsFollowTheRow,
     AnswersHaveOneWriter
<1>30. CASE PurgeUploads
  BY <1>30 DEF PurgeUploads, EditsFollowTheRow
<1>31. CASE Tick
  BY <1>31 DEF Tick, EditsFollowTheRow
<1>32. CASE Crash
  BY <1>32 DEF Crash, Committed, InFlight, EditsFollowTheRow
<1>33. CASE UNCHANGED vars
  BY <1>33 DEF vars, EditsFollowTheRow
<1>34. ASSUME NEW e \in Edits, AnswerDelete(e)
     PROVE  EditsFollowTheRow'
  BY <1>34 DEF AnswerDelete, EditGoto, EditInFlight, EditsFollowTheRow
<1>35. CASE Start
  BY <1>35 DEF Start, EditsFollowTheRow
<1>36. CASE Stop
  BY <1>36 DEF Stop, EditsFollowTheRow
<1>37. QED
  BY <1>1, <1>2, <1>3, <1>4, <1>5, <1>6, <1>7, <1>8, <1>9, <1>10, <1>11,
     <1>12, <1>13, <1>14, <1>15, <1>16, <1>17, <1>18, <1>19, <1>20, <1>21,
     <1>22, <1>23, <1>24, <1>25, <1>26, <1>27, <1>28, <1>29, <1>30, <1>31,
     <1>32, <1>33, <1>34, <1>35, <1>36 DEF Next, UploadStep, EditStep

(* Every step keeps the cache free of the answers of erased records.       *)
LEMMA ErasureStep ==
    ASSUME IndInv, [Next]_vars
    PROVE  ErasureReachesTheCache'
<1> USE ParametersAssumption, NoneAssumption
<1> USE DEF IndInv, TypeOK, processVars, history, uploadVars, editVars
<1>1. ASSUME NEW u \in Uploads, NEW d \in Docs, StartUpload(u, d)
     PROVE  ErasureReachesTheCache'
  BY <1>1 DEF StartUpload, Goto, Committed, ErasureReachesTheCache
<1>2. ASSUME NEW u \in Uploads, RefuseUpload(u)
     PROVE  ErasureReachesTheCache'
  BY <1>2 DEF RefuseUpload, Goto, Committed, ErasureReachesTheCache
<1>3. ASSUME NEW u \in Uploads, SaveFails(u)
     PROVE  ErasureReachesTheCache'
  BY <1>3 DEF SaveFails, Goto, Committed, ErasureReachesTheCache
<1>4. ASSUME NEW u \in Uploads, SaveSucceeds(u)
     PROVE  ErasureReachesTheCache'
  BY <1>4 DEF SaveSucceeds, Goto, Committed, ErasureReachesTheCache
<1>5. ASSUME NEW u \in Uploads, LookupHits(u)
     PROVE  ErasureReachesTheCache'
  BY <1>5 DEF LookupHits, Goto, Committed, ErasureReachesTheCache
<1>6. ASSUME NEW u \in Uploads, LookupFindsNothing(u)
     PROVE  ErasureReachesTheCache'
  BY <1>6 DEF LookupFindsNothing, Goto, ErasureReachesTheCache
<1>7. ASSUME NEW u \in Uploads, LookupFindsStale(u)
     PROVE  ErasureReachesTheCache'
  BY <1>7 DEF LookupFindsStale, Goto, Committed, ErasureReachesTheCache
<1>8. ASSUME NEW u \in Uploads, UnlinkStale(u)
     PROVE  ErasureReachesTheCache'
  BY <1>8, ClearStores DEF UnlinkStale, Goto, AnswersHaveOneWriter,
     ErasureReachesTheCache
<1>9. ASSUME NEW u \in Uploads, Extract(u)
     PROVE  ErasureReachesTheCache'
  BY <1>9 DEF Extract, Goto, Finished, AnswersHaveOneWriter, Published,
     ErasureReachesTheCache
<1>10. ASSUME NEW u \in Uploads, ProcessingFails(u)
     PROVE  ErasureReachesTheCache'
  BY <1>10 DEF ProcessingFails, Goto, Committed, ErasureReachesTheCache
<1>11. ASSUME NEW u \in Uploads, WriteTmp(u)
     PROVE  ErasureReachesTheCache'
  BY <1>11 DEF WriteTmp, Goto, Finished, AnswersHaveOneWriter, Published,
     ErasureReachesTheCache
<1>12. ASSUME NEW u \in Uploads, ReplaceEntry(u)
     PROVE  ErasureReachesTheCache'
  BY <1>12 DEF ReplaceEntry, Goto, Committed, Finished,
     AnswersHaveOneWriter, Published, ErasureReachesTheCache
<1>13. ASSUME NEW u \in Uploads, StoreFailsCleanly(u)
     PROVE  ErasureReachesTheCache'
  BY <1>13 DEF StoreFailsCleanly, Goto, Finished, AnswersHaveOneWriter,
     Published, ErasureReachesTheCache
<1>14. ASSUME NEW u \in Uploads, StoreFailsTwice(u)
     PROVE  ErasureReachesTheCache'
  BY <1>14 DEF StoreFailsTwice, Goto, Finished, AnswersHaveOneWriter,
     Published, ErasureReachesTheCache
<1>15. ASSUME NEW u \in Uploads, InsertRow(u)
     PROVE  ErasureReachesTheCache'
  <2>1. db'[u] \in Row
    BY <1>15 DEF InsertRow, Goto, AnswersHaveOneWriter, Row, Hash
  <2>2. \A v \in Uploads: v # u => db'[v] = db[v] /\ pc'[v] = pc[v]
    BY <1>15 DEF InsertRow, Goto
  <2>3. UNCHANGED <<cache, doc, answer, altered>>
    BY <1>15 DEF InsertRow
  <2>4. QED
    BY <2>1, <2>2, <2>3 DEF ErasureReachesTheCache
<1>16. ASSUME NEW u \in Uploads, InsertFails(u)
     PROVE  ErasureReachesTheCache'
  BY <1>16 DEF InsertFails, Goto, Committed, ErasureReachesTheCache
<1>17. ASSUME NEW u \in Uploads, FinishUpload(u)
     PROVE  ErasureReachesTheCache'
  BY <1>17 DEF FinishUpload, Goto, Committed, ErasureReachesTheCache
<1>18. ASSUME NEW u \in Uploads, TamperRow(u)
     PROVE  ErasureReachesTheCache'
  BY <1>18, TamperedRow DEF TamperRow, ErasureReachesTheCache
<1>19. ASSUME NEW e \in Edits, NEW u \in Uploads, StartDelete(e, u)
     PROVE  ErasureReachesTheCache'
  BY <1>19 DEF StartDelete, ErasureReachesTheCache
<1>20. ASSUME NEW e \in Edits, NEW u \in Uploads, StartUpdate(e, u)
     PROVE  ErasureReachesTheCache'
  BY <1>20 DEF StartUpdate, ErasureReachesTheCache
<1>21. ASSUME NEW e \in Edits, EraseCacheEntry(e)
     PROVE  ErasureReachesTheCache'
  BY <1>21, ClearStores DEF EraseCacheEntry, AnswersHaveOneWriter,
     ErasureReachesTheCache
<1>22. ASSUME NEW e \in Edits, DropRow(e)
     PROVE  ErasureReachesTheCache'
  BY <1>22, ClearStores DEF DropRow, EditGoto, EditsFollowTheRow,
     ErasureReachesTheCache
<1>23. ASSUME NEW e \in Edits, DeleteFails(e)
     PROVE  ErasureReachesTheCache'
  BY <1>23 DEF DeleteFails, ErasureReachesTheCache
<1>24. ASSUME NEW e \in Edits, AmendRow(e)
     PROVE  ErasureReachesTheCache'
  <2>1. \A v \in Uploads: db'[v] = None => db[v] = None
    BY <1>24, AmendedRow
  <2>2. QED
    BY <1>24, <2>1 DEF AmendRow, ErasureReachesTheCache
<1>25. ASSUME NEW e \in Edits, UpdateFails(e)
     PROVE  ErasureReachesTheCache'
  BY <1>25 DEF UpdateFails, ErasureReachesTheCache
<1>26. ASSUME NEW d \in Docs, TamperEntry(d)
     PROVE  ErasureReachesTheCache'
  BY <1>26 DEF TamperEntry, ErasureReachesTheCache
<1>27. CASE PurgeRecords
  <2>1. \A u \in Uploads \ altered:
            u \in ExpiredRows => doc[u] \in DocsOf(ExpiredRows)
    <3>1. \A u \in ExpiredRows: db[u].hash \in DocsOf(ExpiredRows) /\ db[u] # None
      BY DEF ExpiredRows, Expired, DocsOf
    <3>2. \A u \in Uploads \ altered: db[u] # None => db[u].hash = doc[u]
      BY DEF AnswersHaveOneWriter
    <3>3. QED
      BY <3>1, <3>2
  <2>2. \A u \in Uploads \ altered:
            db'[u] = None => db[u] = None \/ doc[u] \in DocsOf(ExpiredRows)
    BY <1>27, <2>1, ClearStores DEF PurgeRecords
  <2>3. \A d \in Docs:
            cache'[d] = IF d \in DocsOf(ExpiredRows) THEN None ELSE cache[d]
    BY <1>27, ClearStores DEF PurgeRecords
  <2>4. \A u \in Uploads: pc[u] \in Committed => doc[u] \in Docs
    BY DEF AnswersHaveOneWriter
  <2>5. QED
    BY <1>27, <2>2, <2>3, <2>4 DEF PurgeRecords, ErasureReachesTheCache
<1>28. CASE PurgeRecordsFails
  BY <1>28, ClearStores DEF PurgeRecordsFails, AnswersHaveOneWriter,
     ErasureReachesTheCache
<1>29. CASE PurgeCache
  BY <1>29, ClearStores DEF PurgeCache, AnswersHaveOneWriter,
     ErasureReachesTheCache
<1>30. CASE PurgeUploads
  BY <1>30 DEF PurgeUploads, ErasureReachesTheCache
<1>31. CASE Tick
  BY <1>31 DEF Tick, ErasureReachesTheCache
<1>32. CASE Crash
  BY <1>32 DEF Crash, Committed, ErasureReachesTheCache
<1>33. CASE UNCHANGED vars
  BY <1>33 DEF vars, ErasureReachesTheCache
<1>34. ASSUME NEW e \in Edits, AnswerDelete(e)
     PROVE  ErasureReachesTheCache'
  BY <1>34 DEF AnswerDelete, ErasureReachesTheCache
<1>35. CASE Start
  BY <1>35 DEF Start, ErasureReachesTheCache
<1>36. CASE Stop
  BY <1>36 DEF Stop, ErasureReachesTheCache
<1>37. QED
  BY <1>1, <1>2, <1>3, <1>4, <1>5, <1>6, <1>7, <1>8, <1>9, <1>10, <1>11,
     <1>12, <1>13, <1>14, <1>15, <1>16, <1>17, <1>18, <1>19, <1>20, <1>21,
     <1>22, <1>23, <1>24, <1>25, <1>26, <1>27, <1>28, <1>29, <1>30, <1>31,
     <1>32, <1>33, <1>34, <1>35, <1>36 DEF Next, UploadStep, EditStep

(* Every step leaves a record that a DELETE has removed absent: InsertRow  *)
(* is for an upload that was never committed, AmendRow needs the row.      *)
LEMMA ErasedStep ==
    ASSUME IndInv, [Next]_vars
    PROVE  ErasedStaysErased'
<1> USE ParametersAssumption, NoneAssumption
<1> USE DEF IndInv, TypeOK, processVars, history, uploadVars, editVars, RowRemoved
<1>1. ASSUME NEW u \in Uploads, NEW d \in Docs, StartUpload(u, d)
     PROVE  ErasedStaysErased'
  BY <1>1 DEF StartUpload, ErasedStaysErased
<1>2. ASSUME NEW u \in Uploads, RefuseUpload(u)
     PROVE  ErasedStaysErased'
  BY <1>2 DEF RefuseUpload, ErasedStaysErased
<1>3. ASSUME NEW u \in Uploads, SaveFails(u)
     PROVE  ErasedStaysErased'
  BY <1>3 DEF SaveFails, ErasedStaysErased
<1>4. ASSUME NEW u \in Uploads, SaveSucceeds(u)
     PROVE  ErasedStaysErased'
  BY <1>4 DEF SaveSucceeds, ErasedStaysErased
<1>5. ASSUME NEW u \in Uploads, LookupHits(u)
     PROVE  ErasedStaysErased'
  BY <1>5 DEF LookupHits, ErasedStaysErased
<1>6. ASSUME NEW u \in Uploads, LookupFindsNothing(u)
     PROVE  ErasedStaysErased'
  BY <1>6 DEF LookupFindsNothing, ErasedStaysErased
<1>7. ASSUME NEW u \in Uploads, LookupFindsStale(u)
     PROVE  ErasedStaysErased'
  BY <1>7 DEF LookupFindsStale, ErasedStaysErased
<1>8. ASSUME NEW u \in Uploads, UnlinkStale(u)
     PROVE  ErasedStaysErased'
  BY <1>8 DEF UnlinkStale, ErasedStaysErased
<1>9. ASSUME NEW u \in Uploads, Extract(u)
     PROVE  ErasedStaysErased'
  BY <1>9 DEF Extract, ErasedStaysErased
<1>10. ASSUME NEW u \in Uploads, ProcessingFails(u)
     PROVE  ErasedStaysErased'
  BY <1>10 DEF ProcessingFails, ErasedStaysErased
<1>11. ASSUME NEW u \in Uploads, WriteTmp(u)
     PROVE  ErasedStaysErased'
  BY <1>11 DEF WriteTmp, ErasedStaysErased
<1>12. ASSUME NEW u \in Uploads, ReplaceEntry(u)
     PROVE  ErasedStaysErased'
  BY <1>12 DEF ReplaceEntry, ErasedStaysErased
<1>13. ASSUME NEW u \in Uploads, StoreFailsCleanly(u)
     PROVE  ErasedStaysErased'
  BY <1>13 DEF StoreFailsCleanly, ErasedStaysErased
<1>14. ASSUME NEW u \in Uploads, StoreFailsTwice(u)
     PROVE  ErasedStaysErased'
  BY <1>14 DEF StoreFailsTwice, ErasedStaysErased
<1>15. ASSUME NEW u \in Uploads, InsertRow(u)
     PROVE  ErasedStaysErased'
  BY <1>15 DEF InsertRow, Goto, Committed, EditsFollowTheRow,
     ErasedStaysErased
<1>16. ASSUME NEW u \in Uploads, InsertFails(u)
     PROVE  ErasedStaysErased'
  BY <1>16 DEF InsertFails, ErasedStaysErased
<1>17. ASSUME NEW u \in Uploads, FinishUpload(u)
     PROVE  ErasedStaysErased'
  BY <1>17 DEF FinishUpload, ErasedStaysErased
<1>18. ASSUME NEW u \in Uploads, TamperRow(u)
     PROVE  ErasedStaysErased'
  BY <1>18, TamperedRow DEF TamperRow, EditsFollowTheRow, ErasedStaysErased
<1>19. ASSUME NEW e \in Edits, NEW u \in Uploads, StartDelete(e, u)
     PROVE  ErasedStaysErased'
  BY <1>19 DEF StartDelete, EditGoto, ErasedStaysErased
<1>20. ASSUME NEW e \in Edits, NEW u \in Uploads, StartUpdate(e, u)
     PROVE  ErasedStaysErased'
  BY <1>20 DEF StartUpdate, EditGoto, ErasedStaysErased
<1>21. ASSUME NEW e \in Edits, EraseCacheEntry(e)
     PROVE  ErasedStaysErased'
  BY <1>21 DEF EraseCacheEntry, EditGoto, ErasedStaysErased
<1>22. ASSUME NEW e \in Edits, DropRow(e)
     PROVE  ErasedStaysErased'
  BY <1>22, ClearStores DEF DropRow, EditGoto, EditInFlight,
     EditsFollowTheRow, ErasedStaysErased
<1>23. ASSUME NEW e \in Edits, DeleteFails(e)
     PROVE  ErasedStaysErased'
  BY <1>23 DEF DeleteFails, EditGoto, ErasedStaysErased
<1>24. ASSUME NEW e \in Edits, AmendRow(e)
     PROVE  ErasedStaysErased'
  BY <1>24, AmendedRow DEF AmendRow, EditGoto, EditsFollowTheRow, ErasedStaysErased
<1>25. ASSUME NEW e \in Edits, UpdateFails(e)
     PROVE  ErasedStaysErased'
  BY <1>25 DEF UpdateFails, EditGoto, ErasedStaysErased
<1>26. ASSUME NEW d \in Docs, TamperEntry(d)
     PROVE  ErasedStaysErased'
  BY <1>26 DEF TamperEntry, ErasedStaysErased
<1>27. CASE PurgeRecords
  BY <1>27, ClearStores DEF PurgeRecords, EditsFollowTheRow, ErasedStaysErased
<1>28. CASE PurgeRecordsFails
  BY <1>28 DEF PurgeRecordsFails, ErasedStaysErased
<1>29. CASE PurgeCache
  BY <1>29 DEF PurgeCache, ErasedStaysErased
<1>30. CASE PurgeUploads
  BY <1>30 DEF PurgeUploads, ErasedStaysErased
<1>31. CASE Tick
  BY <1>31 DEF Tick, ErasedStaysErased
<1>32. CASE Crash
  BY <1>32 DEF Crash, ErasedStaysErased
<1>33. CASE UNCHANGED vars
  BY <1>33 DEF vars, ErasedStaysErased
<1>34. ASSUME NEW e \in Edits, AnswerDelete(e)
     PROVE  ErasedStaysErased'
  BY <1>34 DEF AnswerDelete, EditGoto, ErasedStaysErased
<1>35. CASE Start
  BY <1>35 DEF Start, ErasedStaysErased
<1>36. CASE Stop
  BY <1>36 DEF Stop, ErasedStaysErased
<1>37. QED
  BY <1>1, <1>2, <1>3, <1>4, <1>5, <1>6, <1>7, <1>8, <1>9, <1>10, <1>11,
     <1>12, <1>13, <1>14, <1>15, <1>16, <1>17, <1>18, <1>19, <1>20, <1>21,
     <1>22, <1>23, <1>24, <1>25, <1>26, <1>27, <1>28, <1>29, <1>30, <1>31,
     <1>32, <1>33, <1>34, <1>35, <1>36 DEF Next, UploadStep, EditStep

(* Every step moves the count with the uploads that hold a slot.           *)
LEMMA SlotsStep ==
    ASSUME IndInv, [Next]_vars
    PROVE  SlotsAccounted'
<1>0. ASSUME NEW u \in Uploads, pc[u] \in InFlight
      PROVE  active - 1 \in Nat /\ Cardinality(Taken \ {u}) = active - 1
  <2>1. TypeOK /\ SlotsAccounted
    BY DEF IndInv
  <2>2. QED
    BY <1>0, <2>1, SlotReturned
<1> USE ParametersAssumption
<1> USE DEF IndInv, TypeOK, processVars, history, uploadVars, editVars, SlotsAccounted
<1>1. IsFiniteSet(Taken) /\ active = Cardinality(Taken) /\ active <= MaxSlots
  BY FS_Subset DEF Taken
<1>2. MaxSlots \in Nat \ {0} /\ active \in Nat
  OBVIOUS
<1>3. SUFFICES \/ Taken' = Taken /\ active' = active
               \/ \E u \in Uploads: /\ u \notin Taken /\ Taken' = Taken \cup {u}
                                   /\ active < MaxSlots /\ active' = active + 1
               \/ \E u \in Uploads: /\ pc[u] \in InFlight /\ Taken' = Taken \ {u}
                                   /\ active' = active - 1
               \/ Taken' = {} /\ active' = 0
  <2> SUFFICES active' = Cardinality(Taken') /\ active' <= MaxSlots
    BY DEF Taken
  <2>1. CASE Taken' = Taken /\ active' = active
    BY <1>1, <2>1
  <2>2. ASSUME NEW u \in Uploads, u \notin Taken, Taken' = Taken \cup {u},
               active < MaxSlots, active' = active + 1
        PROVE  active' = Cardinality(Taken') /\ active' <= MaxSlots
    <3>1. Cardinality(Taken \cup {u}) = Cardinality(Taken) + 1
      BY <1>1, <2>2, FS_AddElement
    <3>2. QED
      BY <1>1, <1>2, <2>2, <3>1
  <2>3. ASSUME NEW u \in Uploads, pc[u] \in InFlight, Taken' = Taken \ {u},
               active' = active - 1
        PROVE  active' = Cardinality(Taken') /\ active' <= MaxSlots
    <3>1. active - 1 \in Nat /\ Cardinality(Taken \ {u}) = active - 1
      BY <1>0, <2>3
    <3>2. active' = Cardinality(Taken')
      BY <2>3, <3>1, Zenon
    <3>3. active <= MaxSlots /\ active \in Nat /\ MaxSlots \in Nat
      BY <1>1, <1>2
    <3>4. active - 1 <= MaxSlots
      BY <3>3
    <3>5. QED
      BY <2>3, <3>2, <3>4, Zenon
  <2>4. CASE Taken' = {} /\ active' = 0
    <3>1. Cardinality({}) = 0
      BY FS_EmptySet
    <3>2. QED
      BY <1>2, <2>4, <3>1
  <2>5. QED
    BY <1>3, <2>1, <2>2, <2>3, <2>4
<1>4. ASSUME NEW u \in Uploads, NEW d \in Docs, StartUpload(u, d)
      PROVE  /\ u \notin Taken /\ Taken' = Taken \cup {u}
             /\ active < MaxSlots /\ active' = active + 1
  BY <1>4 DEF StartUpload, Goto, Taken, InFlight
<1>5. ASSUME NEW u \in Uploads, SaveFails(u) \/ FinishUpload(u)
      PROVE  pc[u] \in InFlight /\ Taken' = Taken \ {u} /\ active' = active - 1
  BY <1>5 DEF SaveFails, FinishUpload, Goto, Taken, InFlight
<1>6. CASE Crash
  <2>1. Taken' = {} /\ active' = 0
    BY <1>6 DEF Crash, Taken, InFlight
  <2>2. QED
    BY <2>1
<1>7. ASSUME NEW u \in Uploads,
             \/ RefuseUpload(u) \/ SaveSucceeds(u) \/ LookupHits(u)
             \/ LookupFindsNothing(u) \/ LookupFindsStale(u) \/ UnlinkStale(u)
             \/ Extract(u) \/ ProcessingFails(u) \/ WriteTmp(u) \/ ReplaceEntry(u)
             \/ StoreFailsCleanly(u) \/ StoreFailsTwice(u)
             \/ InsertRow(u) \/ InsertFails(u) \/ TamperRow(u)
      PROVE  Taken' = Taken /\ active' = active
  BY <1>7 DEF RefuseUpload, SaveSucceeds, LookupHits, LookupFindsNothing,
     LookupFindsStale, UnlinkStale, Extract, ProcessingFails, WriteTmp,
     ReplaceEntry, StoreFailsCleanly, StoreFailsTwice, InsertRow, InsertFails,
     TamperRow, Goto, Taken, InFlight
<1>8. ASSUME \/ \E e \in Edits, u \in Uploads: StartDelete(e, u) \/ StartUpdate(e, u)
             \/ \E e \in Edits: EditStep(e)
             \/ \E d \in Docs: TamperEntry(d)
             \/ Start \/ PurgeRecords \/ PurgeRecordsFails \/ PurgeCache \/ PurgeUploads
             \/ Tick \/ Stop \/ UNCHANGED vars
      PROVE  Taken' = Taken /\ active' = active
  BY <1>8 DEF StartDelete, StartUpdate, EditStep, EraseCacheEntry, DropRow,
     AnswerDelete, DeleteFails, AmendRow, UpdateFails, TamperEntry, Start,
     PurgeRecords, PurgeRecordsFails, PurgeCache, PurgeUploads, Tick, Stop, vars, Taken
<1>9. QED
  BY <1>4, <1>5, <1>6, <1>7, <1>8 DEF Next, UploadStep

-----------------------------------------------------------------------------
(* The theorems.                                                           *)

(* The invariant holds of an empty store.                                  *)
THEOREM InitIndInv == Init => IndInv
<1> SUFFICES ASSUME Init PROVE IndInv
  OBVIOUS
<1> USE ParametersAssumption, NoneAssumption DEF Init
<1>1. TypeOK
  BY DEF TypeOK, Hash
<1>2. AnswersHaveOneWriter /\ EditsFollowTheRow
  BY DEF AnswersHaveOneWriter, EditsFollowTheRow, InFlight, EditInFlight,
     RowRemoved, Committed
<1>3. ErasureReachesTheCache /\ ErasedStaysErased
  BY DEF ErasureReachesTheCache, ErasedStaysErased, RowRemoved, Committed
<1>4. SlotsAccounted
  <2>1. {u \in Uploads: pc[u] \in InFlight} = {}
    BY DEF InFlight
  <2>2. QED
    BY <2>1, FS_EmptySet DEF SlotsAccounted
<1>5. QED
  BY <1>1, <1>2, <1>3, <1>4 DEF IndInv

(* Every reachable state of the store, whatever the number of requests     *)
(* and the limits, satisfies the inductive invariant.                      *)
THEOREM IndInvHolds == Spec => []IndInv
<1>1. IndInv /\ [Next]_vars => IndInv'
  BY TypeStep, WritersStep, EditsStep, ErasureStep, ErasedStep, SlotsStep
     DEF IndInv
<1>2. QED
  BY InitIndInv, <1>1, PTL DEF Spec

(* The state of the stores and of every request keeps its type; the count  *)
(* of slots is never negative.                                             *)
THEOREM TypeCorrect == Spec => []TypeOK
<1>1. IndInv => TypeOK
  BY DEF IndInv
<1>2. QED
  BY IndInvHolds, <1>1, PTL

(* The slots counted as taken are those of the uploads in progress, and    *)
(* never more than MAX_CONCURRENT_EXTRACTIONS.                             *)
THEOREM SlotsCorrect == Spec => []SlotsAccounted
<1>1. IndInv => SlotsAccounted
  BY DEF IndInv
<1>2. QED
  BY IndInvHolds, <1>1, PTL

(* GDPR erasure reaches the cache: no cached copy of the answer of a       *)
(* record that a DELETE or a purge has removed, unless the record's hash   *)
(* column was altered.                                                     *)
THEOREM ErasureCorrect == Spec => []ErasureReachesTheCache
<1>1. IndInv => ErasureReachesTheCache
  BY DEF IndInv
<1>2. QED
  BY IndInvHolds, <1>1, PTL

(* A record whose DELETE was committed never comes back, answered 204 or   *)
(* not.                                                                    *)
THEOREM ErasureFinal == Spec => []ErasedStaysErased
<1>1. IndInv => ErasedStaysErased
  BY DEF IndInv
<1>2. QED
  BY IndInvHolds, <1>1, PTL

-----------------------------------------------------------------------------
(* Records and files.                                                      *)

(* A row expires when it was said to at its creation, a record that was    *)
(* created was given such a date, and the last start is not in the future. *)
DatesInOrder ==
    /\ started <= clock
    /\ \A u \in Uploads: /\ db[u] # None => db[u].expires = due[u]
                         /\ pc[u] \in Committed => due[u] \in Nat

(* ServingMeansPurged as it becomes true: as soon as the rows are purged.  *)
AfterPurge == {"purge_cache", "purge_uploads", "up"}
Purged ==
    mode \in AfterPurge => \A u \in Uploads: db[u] # None => db[u].expires > started

RecordsInv ==
    DatesInOrder /\ Purged /\ CommittedRecordsKept /\ UploadFileAvailable

-----------------------------------------------------------------------------
(* A step that neither inserts nor removes a row.                          *)
RecordsStay ==
    /\ \A u \in Uploads:
        /\ db'[u] = None <=> db[u] = None
        /\ db[u] # None => db'[u].expires = db[u].expires
        /\ pc'[u] \in Committed <=> pc[u] \in Committed
    /\ \A e \in Edits:
        epc[e] \in RowRemoved => epc'[e] \in RowRemoved /\ target'[e] = target[e]
    /\ due' = due /\ clock <= clock'
    /\ \/ started' = started /\ (mode' \in AfterPurge => mode \in AfterPurge)
       \/ started' = clock /\ clock' = clock /\ mode' \notin AfterPurge

(* Only three actions insert or remove a row.                              *)
LEMMA StepsOnRecords ==
    ASSUME IndInv, [Next]_vars
    PROVE  \/ \E u \in Uploads: InsertRow(u)
           \/ \E e \in Edits: DropRow(e)
           \/ PurgeRecords
           \/ RecordsStay
<1> USE ParametersAssumption, NoneAssumption
<1> USE DEF IndInv, TypeOK, processVars, history, uploadVars, editVars, RecordsStay, RowRemoved,
        AfterPurge
<1>1. ASSUME NEW u \in Uploads, NEW d \in Docs, StartUpload(u, d)
     PROVE  RecordsStay
  BY <1>1 DEF StartUpload, Goto, Committed
<1>2. ASSUME NEW u \in Uploads, RefuseUpload(u)
     PROVE  RecordsStay
  BY <1>2 DEF RefuseUpload, Goto, Committed
<1>3. ASSUME NEW u \in Uploads, SaveFails(u)
     PROVE  RecordsStay
  BY <1>3 DEF SaveFails, Goto, Committed
<1>4. ASSUME NEW u \in Uploads, SaveSucceeds(u)
     PROVE  RecordsStay
  BY <1>4 DEF SaveSucceeds, Goto, Committed
<1>5. ASSUME NEW u \in Uploads, LookupHits(u)
     PROVE  RecordsStay
  BY <1>5 DEF LookupHits, Goto, Committed
<1>6. ASSUME NEW u \in Uploads, LookupFindsNothing(u)
     PROVE  RecordsStay
  BY <1>6 DEF LookupFindsNothing, Goto, Committed
<1>7. ASSUME NEW u \in Uploads, LookupFindsStale(u)
     PROVE  RecordsStay
  BY <1>7 DEF LookupFindsStale, Goto, Committed
<1>8. ASSUME NEW u \in Uploads, UnlinkStale(u)
     PROVE  RecordsStay
  BY <1>8 DEF UnlinkStale, Goto, Committed
<1>9. ASSUME NEW u \in Uploads, Extract(u)
     PROVE  RecordsStay
  BY <1>9 DEF Extract, Goto, Committed
<1>10. ASSUME NEW u \in Uploads, ProcessingFails(u)
     PROVE  RecordsStay
  BY <1>10 DEF ProcessingFails, Goto, Committed
<1>11. ASSUME NEW u \in Uploads, WriteTmp(u)
     PROVE  RecordsStay
  BY <1>11 DEF WriteTmp, Goto, Committed
<1>12. ASSUME NEW u \in Uploads, ReplaceEntry(u)
     PROVE  RecordsStay
  BY <1>12 DEF ReplaceEntry, Goto, Committed
<1>13. ASSUME NEW u \in Uploads, StoreFailsCleanly(u)
     PROVE  RecordsStay
  BY <1>13 DEF StoreFailsCleanly, Goto, Committed
<1>14. ASSUME NEW u \in Uploads, StoreFailsTwice(u)
     PROVE  RecordsStay
  BY <1>14 DEF StoreFailsTwice, Goto, Committed
<1>15. ASSUME NEW u \in Uploads, InsertFails(u)
     PROVE  RecordsStay
  BY <1>15 DEF InsertFails, Goto, Committed
<1>16. ASSUME NEW u \in Uploads, FinishUpload(u)
     PROVE  RecordsStay
  BY <1>16 DEF FinishUpload, Goto, Committed
<1>17. ASSUME NEW u \in Uploads, TamperRow(u)
     PROVE  RecordsStay
  <2>1. \A v \in Uploads: /\ db'[v] = None <=> db[v] = None
                          /\ db[v] # None => db'[v].expires = db[v].expires
    BY <1>17, TamperedRow
  <2>2. QED
    BY <1>17, <2>1 DEF TamperRow
<1>18. ASSUME NEW e \in Edits, NEW u \in Uploads, StartDelete(e, u)
     PROVE  RecordsStay
  BY <1>18 DEF StartDelete, EditGoto
<1>19. ASSUME NEW e \in Edits, NEW u \in Uploads, StartUpdate(e, u)
     PROVE  RecordsStay
  BY <1>19 DEF StartUpdate, EditGoto
<1>20. ASSUME NEW e \in Edits, EraseCacheEntry(e)
     PROVE  RecordsStay
  BY <1>20 DEF EraseCacheEntry, EditGoto
<1>21. ASSUME NEW e \in Edits, DeleteFails(e)
     PROVE  RecordsStay
  BY <1>21 DEF DeleteFails, EditGoto
<1>22. ASSUME NEW e \in Edits, UpdateFails(e)
     PROVE  RecordsStay
  BY <1>22 DEF UpdateFails, EditGoto
<1>23. ASSUME NEW e \in Edits, AmendRow(e)
     PROVE  RecordsStay
  <2>1. \A v \in Uploads: /\ db'[v] = None <=> db[v] = None
                          /\ db[v] # None => db'[v].expires = db[v].expires
    BY <1>23, AmendedRow
  <2>2. QED
    BY <1>23, <2>1 DEF AmendRow, EditGoto
<1>24. ASSUME NEW d \in Docs, TamperEntry(d)
     PROVE  RecordsStay
  BY <1>24 DEF TamperEntry
<1>25. CASE PurgeRecordsFails
  BY <1>25 DEF PurgeRecordsFails
<1>26. CASE PurgeCache
  BY <1>26 DEF PurgeCache
<1>27. CASE PurgeUploads
  BY <1>27 DEF PurgeUploads
<1>28. CASE Tick
  BY <1>28 DEF Tick
<1>29. CASE Crash
  BY <1>29 DEF Crash, Committed, EditInFlight, InFlight
<1>30. CASE UNCHANGED vars
  BY <1>30 DEF vars
<1>31. ASSUME NEW e \in Edits, AnswerDelete(e)
     PROVE  RecordsStay
  BY <1>31 DEF AnswerDelete, EditGoto
<1>32. CASE Start
  BY <1>32 DEF Start
<1>33. CASE Stop
  BY <1>33 DEF Stop
<1>34. QED
  BY <1>1, <1>2, <1>3, <1>4, <1>5, <1>6, <1>7, <1>8, <1>9, <1>10, <1>11,
     <1>12, <1>13, <1>14, <1>15, <1>16, <1>17, <1>18, <1>19, <1>20, <1>21,
     <1>22, <1>23, <1>24, <1>25, <1>26, <1>27, <1>28, <1>29, <1>30, <1>31,
     <1>32, <1>33 DEF Next,
     UploadStep, EditStep

-----------------------------------------------------------------------------
(* Every step keeps the dates in order.                                    *)
LEMMA DatesStep ==
    ASSUME IndInv, RecordsInv, [Next]_vars
    PROVE  DatesInOrder' /\ Purged'
<1> USE ParametersAssumption, NoneAssumption
<1> USE DEF RecordsInv, DatesInOrder, Purged
<1>0. TypeOK /\ TypeOK' /\ AnswersHaveOneWriter
  BY TypeStep DEF IndInv
<1>1. ASSUME NEW u \in Uploads, InsertRow(u)
      PROVE  DatesInOrder' /\ Purged'
  <2>1. /\ clock' = clock /\ started' = started /\ mode' = mode
        /\ db'[u].expires = clock + Retention /\ due'[u] = clock + Retention
        /\ \A v \in Uploads: v # u => db'[v] = db[v] /\ due'[v] = due[v] /\ pc'[v] = pc[v]
    BY <1>0, <1>1 DEF InsertRow, Goto, processVars, TypeOK
  <2>2. clock \in Nat /\ started \in Nat /\ Retention \in Nat \ {0}
    BY <1>0 DEF TypeOK
  <2>3. QED
    BY <2>1, <2>2
<1>2. ASSUME NEW e \in Edits, DropRow(e)
      PROVE  DatesInOrder' /\ Purged'
  BY <1>0, <1>2, ClearStores DEF DropRow, processVars, history, uploadVars
<1>3. CASE PurgeRecords
  <2>1. \A u \in Uploads: db'[u] # None => db'[u] = db[u] /\ ~Expired(u)
    BY <1>0, <1>3, ClearStores DEF PurgeRecords, ExpiredRows
  <2>2. \A u \in Uploads: db[u] # None => db[u].expires \in Nat
    BY <1>0 DEF TypeOK, Row
  <2>3. /\ started' = started /\ clock' = clock /\ {clock, started} \subseteq Nat
        /\ due' = due /\ pc' = pc
    BY <1>0, <1>3 DEF PurgeRecords, TypeOK, history, uploadVars
  <2>4. QED
    BY <2>1, <2>2, <2>3 DEF Expired
<1>4. CASE RecordsStay
  <2>1. {started, clock, clock'} \subseteq Nat
    BY <1>0 DEF TypeOK
  <2>2. DatesInOrder'
    BY <1>4, <2>1 DEF RecordsStay
  <2>3. Purged'
    BY <1>4, <2>1 DEF RecordsStay
  <2>4. QED
    BY <2>2, <2>3
<1>5. QED
  BY <1>1, <1>2, <1>3, <1>4, StepsOnRecords

(* Every step keeps the records: what removes one is on record itself.     *)
LEMMA KeptStep ==
    ASSUME IndInv, RecordsInv, [Next]_vars
    PROVE  CommittedRecordsKept'
<1> USE ParametersAssumption, NoneAssumption
<1> USE DEF RecordsInv, CommittedRecordsKept
<1>0. TypeOK /\ TypeOK' /\ EditsFollowTheRow
  BY TypeStep DEF IndInv
<1>1. ASSUME NEW u \in Uploads, InsertRow(u)
      PROVE  CommittedRecordsKept'
  <2>1. db'[u] # None
    <3>1. db'[u] = [hash |-> doc[u], expires |-> clock + Retention, readable |-> TRUE]
      BY <1>0, <1>1 DEF InsertRow, TypeOK
    <3>2. db'[u] \in Row
      BY <1>0, <1>1, <3>1 DEF InsertRow, Goto, Hash, Row, IndInv, AnswersHaveOneWriter,
         TypeOK
    <3>3. QED
      BY <3>2
  <2>2. \A v \in Uploads: v # u => db'[v] = db[v] /\ pc'[v] = pc[v] /\ due'[v] = due[v]
    BY <1>0, <1>1 DEF InsertRow, Goto, TypeOK
  <2>3. QED
    BY <1>1, <2>1, <2>2 DEF InsertRow, processVars, editVars
<1>2. ASSUME NEW e \in Edits, DropRow(e)
      PROVE  CommittedRecordsKept'
  <2>1. target[e] \in Uploads /\ target' = target /\ epc'[e] \in RowRemoved
    BY <1>0, <1>2 DEF DropRow, EditGoto, EditsFollowTheRow, EditInFlight, RowRemoved,
       TypeOK
  <2>2. \A u \in Uploads: db'[u] = None => db[u] = None \/ u = target[e]
    BY <1>0, <1>2, ClearStores DEF DropRow
  <2>3. \A f \in Edits: epc[f] \in RowRemoved => epc'[f] \in RowRemoved
    BY <1>0, <1>2 DEF DropRow, EditGoto, RowRemoved, TypeOK
  <2>4. pc' = pc /\ clock' = clock /\ due' = due
    BY <1>2 DEF DropRow, processVars, history, uploadVars
  <2>5. QED
    BY <2>1, <2>2, <2>3, <2>4
<1>3. CASE PurgeRecords
  <2>1. \A u \in Uploads: db'[u] = None => db[u] = None \/ Expired(u)
    BY <1>0, <1>3, ClearStores DEF PurgeRecords, ExpiredRows
  <2>2. /\ clock' = clock /\ due' = due
        /\ \A u \in Uploads: Expired(u) => due[u] <= clock
    BY <1>3 DEF PurgeRecords, history, Expired, DatesInOrder
  <2>3. pc' = pc /\ epc' = epc /\ target' = target
    BY <1>3 DEF PurgeRecords, uploadVars, editVars
  <2>4. QED
    BY <2>1, <2>2, <2>3
<1>4. CASE RecordsStay
  <2>1. {clock, clock'} \subseteq Nat
    BY <1>0 DEF TypeOK
  <2>2. \A u \in Uploads: pc[u] \in Committed /\ due[u] <= clock => due[u] <= clock'
    BY <1>4, <2>1 DEF RecordsStay, DatesInOrder
  <2>3. QED
    BY <1>4, <2>2 DEF RecordsStay
<1>5. QED
  BY <1>1, <1>2, <1>3, <1>4, StepsOnRecords

(* The purge of the upload directory runs while no upload does.            *)
LEMMA FilesStep ==
    ASSUME IndInv, RecordsInv, [Next]_vars
    PROVE  UploadFileAvailable'
<1> USE ParametersAssumption, NoneAssumption
<1> USE DEF RecordsInv, UploadFileAvailable, IndInv, TypeOK, processVars, history,
        uploadVars, editVars
<1>1. ASSUME NEW u \in Uploads, NEW d \in Docs, StartUpload(u, d)
     PROVE  UploadFileAvailable'
  BY <1>1 DEF StartUpload, Goto
<1>2. ASSUME NEW u \in Uploads, RefuseUpload(u)
     PROVE  UploadFileAvailable'
  BY <1>2 DEF RefuseUpload, Goto
<1>3. ASSUME NEW u \in Uploads, SaveFails(u)
     PROVE  UploadFileAvailable'
  <2>1. \A v \in Uploads: v # u => file'[v] = file[v] /\ pc'[v] = pc[v]
    BY <1>3 DEF SaveFails, Goto, Clear
  <2>2. pc'[u] \in {"failed", "created"}
    BY <1>3 DEF SaveFails, Goto
  <2>3. QED
    BY <2>1, <2>2
<1>4. ASSUME NEW u \in Uploads, SaveSucceeds(u)
     PROVE  UploadFileAvailable'
  BY <1>4 DEF SaveSucceeds, Goto
<1>5. ASSUME NEW u \in Uploads, LookupHits(u)
     PROVE  UploadFileAvailable'
  BY <1>5 DEF LookupHits, Goto
<1>6. ASSUME NEW u \in Uploads, LookupFindsNothing(u)
     PROVE  UploadFileAvailable'
  BY <1>6 DEF LookupFindsNothing, Goto
<1>7. ASSUME NEW u \in Uploads, LookupFindsStale(u)
     PROVE  UploadFileAvailable'
  BY <1>7 DEF LookupFindsStale, Goto
<1>8. ASSUME NEW u \in Uploads, UnlinkStale(u)
     PROVE  UploadFileAvailable'
  BY <1>8 DEF UnlinkStale, Goto
<1>9. ASSUME NEW u \in Uploads, Extract(u)
     PROVE  UploadFileAvailable'
  BY <1>9 DEF Extract, Goto
<1>10. ASSUME NEW u \in Uploads, ProcessingFails(u)
     PROVE  UploadFileAvailable'
  BY <1>10 DEF ProcessingFails, Goto
<1>11. ASSUME NEW u \in Uploads, WriteTmp(u)
     PROVE  UploadFileAvailable'
  BY <1>11 DEF WriteTmp, Goto
<1>12. ASSUME NEW u \in Uploads, ReplaceEntry(u)
     PROVE  UploadFileAvailable'
  BY <1>12 DEF ReplaceEntry, Goto
<1>13. ASSUME NEW u \in Uploads, StoreFailsCleanly(u)
     PROVE  UploadFileAvailable'
  BY <1>13 DEF StoreFailsCleanly, Goto
<1>14. ASSUME NEW u \in Uploads, StoreFailsTwice(u)
     PROVE  UploadFileAvailable'
  BY <1>14 DEF StoreFailsTwice, Goto
<1>15. ASSUME NEW u \in Uploads, InsertFails(u)
     PROVE  UploadFileAvailable'
  BY <1>15 DEF InsertFails, Goto
<1>16. ASSUME NEW u \in Uploads, FinishUpload(u)
     PROVE  UploadFileAvailable'
  <2>1. \A v \in Uploads: v # u => file'[v] = file[v] /\ pc'[v] = pc[v]
    BY <1>16 DEF FinishUpload, Goto, Clear
  <2>2. pc'[u] \in {"failed", "created"}
    BY <1>16 DEF FinishUpload, Goto
  <2>3. QED
    BY <2>1, <2>2
<1>17. ASSUME NEW u \in Uploads, InsertRow(u)
     PROVE  UploadFileAvailable'
  BY <1>17 DEF InsertRow, Goto
<1>18. CASE PurgeUploads
  BY <1>18 DEF PurgeUploads, AnswersHaveOneWriter, InFlight
<1>19. CASE Crash
  BY <1>19 DEF Crash, InFlight
<1>20. ASSUME NEW u \in Uploads, TamperRow(u)
     PROVE  UploadFileAvailable'
  BY <1>20 DEF TamperRow
<1>21. ASSUME NEW e \in Edits,
             EditStep(e) \/ \E u \in Uploads: StartDelete(e, u) \/ StartUpdate(e, u)
     PROVE  UploadFileAvailable'
  BY <1>21 DEF StartDelete, StartUpdate, EditStep, EraseCacheEntry, DropRow,
     AnswerDelete, DeleteFails, AmendRow, UpdateFails
<1>22. ASSUME NEW d \in Docs, TamperEntry(d)
     PROVE  UploadFileAvailable'
  BY <1>22 DEF TamperEntry
<1>23. CASE \/ Start \/ PurgeRecords \/ PurgeRecordsFails \/ PurgeCache
           \/ Tick \/ Stop \/ UNCHANGED vars
  BY <1>23 DEF Start, PurgeRecords, PurgeRecordsFails, PurgeCache, Tick, Stop, vars
<1> HIDE DEF UploadFileAvailable, TypeOK, IndInv, RecordsInv, processVars,
        history, uploadVars, editVars
<1>24. QED
  BY <1>1, <1>2, <1>3, <1>4, <1>5, <1>6, <1>7, <1>8, <1>9, <1>10, <1>11,
     <1>12, <1>13, <1>14, <1>15, <1>16, <1>17, <1>18, <1>19, <1>20, <1>21,
     <1>22, <1>23 DEF Next, UploadStep

-----------------------------------------------------------------------------
(* The theorems.                                                           *)

(* The dates, the records and the files are in order in every state.       *)
THEOREM RecordsInvHolds == Spec => []RecordsInv
<1>1. Init => RecordsInv
  BY ParametersAssumption DEF Init, RecordsInv, DatesInOrder, Purged, AfterPurge,
     CommittedRecordsKept, UploadFileAvailable, Committed
<1>2. IndInv /\ RecordsInv /\ [Next]_vars => RecordsInv'
  BY DatesStep, KeptStep, FilesStep DEF RecordsInv
<1>3. QED
  BY IndInvHolds, <1>1, <1>2, PTL DEF Spec

(* No purge and no other request takes away a file an upload still reads.  *)
THEOREM FilesAvailable == Spec => []UploadFileAvailable
<1>1. RecordsInv => UploadFileAvailable
  BY DEF RecordsInv
<1>2. QED
  BY RecordsInvHolds, <1>1, PTL

(* While requests are served no row is left that had expired when this     *)
(* start began: the purge of the records has succeeded since.              *)
THEOREM PurgedBeforeServing == Spec => []ServingMeansPurged
<1>1. RecordsInv => ServingMeansPurged
  BY DEF RecordsInv, Purged, AfterPurge, ServingMeansPurged
<1>2. QED
  BY RecordsInvHolds, <1>1, PTL

(* Until its own expiry date only a DELETE takes a record away.            *)
THEOREM RecordsKept == Spec => []CommittedRecordsKept
<1>1. RecordsInv => CommittedRecordsKept
  BY DEF RecordsInv
<1>2. QED
  BY RecordsInvHolds, <1>1, PTL

-----------------------------------------------------------------------------
(* The refinement: what a step of the store does to the record it maps to. *)
Record == [u \in Uploads |->
    IF db[u] # None THEN [state |-> "live", expires |-> db[u].expires]
    ELSE IF pc[u] \in Committed THEN [state |-> "erased"]
    ELSE [state |-> "absent"]]

(* The four kinds of steps are a creation, an erasure of one record, one   *)
(* of all those that have expired, and no step.                            *)
LEMMA StepRefines ==
    ASSUME IndInv, [Next]_vars
    PROVE  [Lifecycle!Next]_Record
<1> USE ParametersAssumption, NoneAssumption
<1>0. TypeOK /\ TypeOK' /\ AnswersHaveOneWriter /\ EditsFollowTheRow
  BY TypeStep DEF IndInv
<1>1. ASSUME NEW u \in Uploads, InsertRow(u)
      PROVE  Lifecycle!Create(u)
  <2>1. db[u] = None /\ pc[u] \notin Committed
    BY <1>0, <1>1 DEF InsertRow, Goto, AnswersHaveOneWriter, Committed
  <2>2. /\ db'[u] # None /\ db'[u].expires = clock + Retention
        /\ clock + Retention \in 0..(MaxClock + Retention)
    <3>1. db'[u] = [hash |-> doc[u], expires |-> clock + Retention, readable |-> TRUE]
      BY <1>0, <1>1 DEF InsertRow, TypeOK
    <3>2. db'[u] \in Row
      BY <1>0, <1>1, <3>1 DEF InsertRow, Goto, Hash, Row, AnswersHaveOneWriter, TypeOK
    <3>3. db'[u].expires = clock + Retention
      BY <3>1
    <3>4. QED
      BY <3>2, <3>3 DEF Row
  <2>3. \A v \in Uploads: v # u => db'[v] = db[v] /\ pc'[v] = pc[v]
    BY <1>0, <1>1 DEF InsertRow, Goto, TypeOK
  <2>4. Record[u] = Lifecycle!Absent
    BY <2>1 DEF Record, Lifecycle!Absent
  <2>5. Record' = [Record EXCEPT ![u] = Lifecycle!LiveUntil(clock + Retention)]
    BY <2>2, <2>3 DEF Record, Lifecycle!LiveUntil
  <2>6. QED
    BY <2>2, <2>4, <2>5 DEF Lifecycle!Create, Record
<1>2. ASSUME NEW e \in Edits, DropRow(e)
      PROVE  [Lifecycle!Next]_Record
  <2>1. /\ target[e] \in Uploads /\ pc[target[e]] \in Committed /\ pc' = pc
        /\ \A u \in Uploads: db'[u] = IF u = target[e] THEN None ELSE db[u]
    BY <1>0, <1>2, ClearStores DEF DropRow, EditGoto, EditsFollowTheRow, EditInFlight,
       uploadVars
  <2>2. CASE db[target[e]] = None
    BY <2>1, <2>2 DEF Record
  <2>3. CASE db[target[e]] # None
    <3>1. \A u \in {target[e]}: Record[u].state = "live"
      BY <2>1, <2>3 DEF Record
    <3>2. Record' = [u \in Uploads |->
              IF u \in {target[e]} THEN Lifecycle!Erased ELSE Record[u]]
      BY <2>1 DEF Record, Lifecycle!Erased
    <3>3. {target[e]} \in SUBSET Uploads
      BY <2>1
    <3>4. QED
      BY <3>1, <3>2, <3>3 DEF Lifecycle!Next, Lifecycle!Erase, Record
  <2>4. QED
    BY <2>2, <2>3
<1>3. CASE PurgeRecords
  <2>1. /\ pc' = pc
        /\ \A u \in Uploads: db'[u] = IF u \in ExpiredRows THEN None ELSE db[u]
    BY <1>0, <1>3, ClearStores DEF PurgeRecords, uploadVars
  <2>2. \A u \in ExpiredRows: u \in Uploads /\ db[u] # None /\ pc[u] \in Committed
    BY <1>0 DEF ExpiredRows, Expired, AnswersHaveOneWriter
  <2>3. \A u \in ExpiredRows: Record[u].state = "live"
    BY <2>2 DEF Record
  <2>4. Record' = [u \in Uploads |->
            IF u \in ExpiredRows THEN Lifecycle!Erased ELSE Record[u]]
    BY <2>1, <2>2 DEF Record, Lifecycle!Erased
  <2>5. ExpiredRows \in SUBSET Uploads
    BY DEF ExpiredRows
  <2>6. QED
    BY <2>3, <2>4, <2>5 DEF Lifecycle!Next, Lifecycle!Erase, Record
<1>4. CASE RecordsStay
  BY <1>4 DEF RecordsStay, Record
<1>5. QED
  BY <1>1, <1>2, <1>3, <1>4, StepsOnRecords DEF Lifecycle!Next

(* The store implements the life of a record: created once, with its final *)
(* expiry date, and erased for good.                                       *)
THEOREM StoreImplementsLifecycle == Spec => RecordsLiveOnce
<1>1. Init => Lifecycle!Init
  BY DEF Init, Lifecycle!Init, Lifecycle!Absent, Committed
<1>2. IndInv /\ [Next]_vars => [Lifecycle!Next]_Record
  BY StepRefines
<1>3. QED
  BY IndInvHolds, <1>1, <1>2, PTL DEF Spec, RecordsLiveOnce, Lifecycle!Spec, Record

-----------------------------------------------------------------------------
(* Requests move forward.                                                  *)

(* The measure depends on where the request is, and on nothing else.       *)
LEMMA SameSteps ==
    ASSUME TRUE
    PROVE  /\ \A u \in Uploads: pc'[u] = pc[u] => StepsLeft(u)' = StepsLeft(u)
           /\ \A e \in Edits: epc'[e] = epc[e] => EditStepsLeft(e)' = EditStepsLeft(e)
  BY DEF StepsLeft, EditStepsLeft

(* A move of upload u and of nobody else, that takes it forward.           *)
Forward(u) ==
    /\ StepsLeft(u)' < StepsLeft(u)
    /\ \A v \in Uploads: v # u => pc'[v] = pc[v]
    /\ epc' = epc

LEMMA UploadMovesForward ==
    ASSUME TypeOK, NEW u \in Uploads,
           UploadStep(u) \/ RefuseUpload(u) \/ \E d \in Docs: StartUpload(u, d)
    PROVE  Forward(u)
<1> USE DEF TypeOK, Goto, Forward, StepsLeft, editVars
<1>1. CASE \E d \in Docs: StartUpload(u, d)
  BY <1>1 DEF StartUpload
<1>2. CASE RefuseUpload(u)
  BY <1>2 DEF RefuseUpload
<1>3. CASE SaveFails(u)
  BY <1>3 DEF SaveFails
<1>4. CASE SaveSucceeds(u)
  BY <1>4 DEF SaveSucceeds
<1>5. CASE LookupHits(u)
  BY <1>5 DEF LookupHits
<1>6. CASE LookupFindsNothing(u)
  BY <1>6 DEF LookupFindsNothing
<1>7. CASE LookupFindsStale(u)
  BY <1>7 DEF LookupFindsStale
<1>8. CASE UnlinkStale(u)
  BY <1>8 DEF UnlinkStale
<1>9. CASE Extract(u)
  BY <1>9 DEF Extract
<1>10. CASE ProcessingFails(u)
  BY <1>10 DEF ProcessingFails
<1>11. CASE WriteTmp(u)
  BY <1>11 DEF WriteTmp
<1>12. CASE ReplaceEntry(u)
  BY <1>12 DEF ReplaceEntry
<1>13. CASE StoreFailsCleanly(u)
  BY <1>13 DEF StoreFailsCleanly
<1>14. CASE StoreFailsTwice(u)
  BY <1>14 DEF StoreFailsTwice
<1>15. CASE InsertRow(u)
  BY <1>15 DEF InsertRow
<1>16. CASE InsertFails(u)
  BY <1>16 DEF InsertFails
<1>17. CASE FinishUpload(u)
  BY <1>17 DEF FinishUpload
<1> HIDE DEF TypeOK, Goto, Forward, StepsLeft, editVars
<1>18. QED
  BY <1>1, <1>2, <1>3, <1>4, <1>5, <1>6, <1>7, <1>8, <1>9, <1>10, <1>11, <1>12,
     <1>13, <1>14, <1>15, <1>16, <1>17 DEF UploadStep

EditForward(e) ==
    /\ EditStepsLeft(e)' < EditStepsLeft(e)
    /\ \A f \in Edits: f # e => epc'[f] = epc[f]
    /\ pc' = pc

LEMMA EditMovesForward ==
    ASSUME TypeOK, NEW e \in Edits,
           EditStep(e) \/ \E u \in Uploads: StartDelete(e, u) \/ StartUpdate(e, u)
    PROVE  EditForward(e)
<1> USE DEF TypeOK, EditGoto, EditForward, EditStepsLeft, uploadVars
<1>1. CASE \E u \in Uploads: StartDelete(e, u)
  BY <1>1 DEF StartDelete
<1>2. CASE \E u \in Uploads: StartUpdate(e, u)
  BY <1>2 DEF StartUpdate
<1>3. CASE EraseCacheEntry(e)
  BY <1>3 DEF EraseCacheEntry
<1>4. CASE DropRow(e)
  BY <1>4 DEF DropRow
<1>5. CASE DeleteFails(e)
  BY <1>5 DEF DeleteFails
<1>6. CASE AmendRow(e)
  BY <1>6 DEF AmendRow
<1>7. CASE UpdateFails(e)
  BY <1>7 DEF UpdateFails
<1>8. CASE AnswerDelete(e)
  BY <1>8 DEF AnswerDelete
<1> HIDE DEF TypeOK, EditGoto, EditForward, EditStepsLeft, uploadVars
<1>9. QED
  BY <1>1, <1>2, <1>3, <1>4, <1>5, <1>6, <1>7, <1>8 DEF EditStep

(* What anybody else does leaves the requests where they are, or ends them.*)
LEMMA OthersSetNothingBack ==
    ASSUME TypeOK,
           \/ \E u \in Uploads: TamperRow(u)
           \/ \E d \in Docs: TamperEntry(d)
           \/ Start \/ PurgeRecords \/ PurgeRecordsFails \/ PurgeCache \/ PurgeUploads
           \/ Tick \/ Stop \/ Crash \/ UNCHANGED vars
    PROVE  /\ \A u \in Uploads: pc'[u] = pc[u] \/ StepsLeft(u)' < StepsLeft(u)
           /\ \A e \in Edits: epc'[e] = epc[e] \/ EditStepsLeft(e)' < EditStepsLeft(e)
<1>1. CASE Crash
  <2>1. \A u \in Uploads: pc'[u] = pc[u] \/ StepsLeft(u)' < StepsLeft(u)
    BY <1>1 DEF Crash, TypeOK, StepsLeft, InFlight
  <2>2. \A e \in Edits: epc'[e] = epc[e] \/ EditStepsLeft(e)' < EditStepsLeft(e)
    BY <1>1 DEF Crash, TypeOK, EditStepsLeft, EditInFlight
  <2>3. QED
    BY <2>1, <2>2
<1>2. CASE ~Crash
  <2>1. pc' = pc /\ epc' = epc
    BY <1>2 DEF TamperRow, TamperEntry, Start, PurgeRecords, PurgeRecordsFails, PurgeCache,
       PurgeUploads, Tick, Stop, vars, uploadVars, editVars
  <2>2. QED
    BY <2>1
<1>3. QED
  BY <1>1, <1>2

(* No step takes a request back, and every step of its own takes it        *)
(* forward: from any state it ends within StepsLeft steps of its own.      *)
THEOREM RequestsAdvance == Spec => RequestsNeverGoBack
<1> DEFINE UploadsMove ==
              \A u \in Uploads: /\ StepsLeft(u)' <= StepsLeft(u)
                                /\ UploadStep(u) => StepsLeft(u)' < StepsLeft(u)
           EditsMove ==
              \A e \in Edits: /\ EditStepsLeft(e)' <= EditStepsLeft(e)
                              /\ EditStep(e) => EditStepsLeft(e)' < EditStepsLeft(e)
<1>1. ASSUME IndInv, [Next]_vars
      PROVE  UploadsMove /\ EditsMove
  <2>1. TypeOK /\ TypeOK'
    BY <1>1, TypeStep DEF IndInv
  <2>2. \A u \in Uploads: UploadStep(u) => StepsLeft(u)' < StepsLeft(u)
    BY <2>1, UploadMovesForward DEF Forward
  <2>3. \A e \in Edits: EditStep(e) => EditStepsLeft(e)' < EditStepsLeft(e)
    BY <2>1, EditMovesForward DEF EditForward
  <2>4. /\ \A u \in Uploads: pc'[u] = pc[u] \/ StepsLeft(u)' < StepsLeft(u)
        /\ \A e \in Edits: epc'[e] = epc[e] \/ EditStepsLeft(e)' < EditStepsLeft(e)
    <3>1. ASSUME NEW u \in Uploads,
                 UploadStep(u) \/ RefuseUpload(u) \/ \E d \in Docs: StartUpload(u, d)
          PROVE  <2>4!:
      BY <2>1, <3>1, UploadMovesForward DEF Forward
    <3>2. ASSUME NEW e \in Edits,
                 EditStep(e) \/ \E u \in Uploads: StartDelete(e, u) \/ StartUpdate(e, u)
          PROVE  <2>4!:
      BY <2>1, <3>2, EditMovesForward DEF EditForward
    <3>3. ASSUME \/ \E u \in Uploads: TamperRow(u)
                 \/ \E d \in Docs: TamperEntry(d)
                 \/ Start \/ PurgeRecords \/ PurgeRecordsFails \/ PurgeCache \/ PurgeUploads
                 \/ Tick \/ Stop \/ Crash \/ UNCHANGED vars
          PROVE  <2>4!:
      BY <2>1, <3>3, OthersSetNothingBack
    <3>4. QED
      BY <1>1, <3>1, <3>2, <3>3 DEF Next
  <2>5. /\ \A u \in Uploads: StepsLeft(u) \in Nat /\ StepsLeft(u)' \in Nat
        /\ \A e \in Edits: EditStepsLeft(e) \in Nat /\ EditStepsLeft(e)' \in Nat
    BY <2>1 DEF TypeOK, StepsLeft, EditStepsLeft, InFlight, Finished, EditInFlight,
       EditFinished
  <2>6. QED
    BY <2>2, <2>3, <2>4, <2>5, SameSteps
<1>2. QED
  BY <1>1, IndInvHolds, PTL DEF Spec, RequestsNeverGoBack
=============================================================================
