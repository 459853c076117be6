-------------------------- MODULE RecordLifecycle --------------------------
(***************************************************************************)
(* What the invoice store promises its users about one record, whatever    *)
(* the cache, the files and the concurrent requests do: a record appears   *)
(* once, under an id nobody else gets, with an expiry date that is fixed   *)
(* at that moment; and once it is erased, by a request or by the retention *)
(* purge, it never comes back.  InvoiceStore implements this module, and   *)
(* the records that Interface assumes behind the API take its steps.       *)
(***************************************************************************)
CONSTANTS
    Ids,            \* the record ids (fresh UUIDs in the code)
    Instants        \* the instants a record may expire at

VARIABLE record     \* record[i]: its state and, while it is live, its expiry

Absent == [state |-> "absent"]
Erased == [state |-> "erased"]
LiveUntil(t) == [state |-> "live", expires |-> t]

Init == record = [i \in Ids |-> Absent]

Create(i) ==
    /\ record[i] = Absent
    /\ \E t \in Instants: record' = [record EXCEPT ![i] = LiveUntil(t)]

(* A request erases one record, the retention purge several at once.       *)
Erase(S) ==
    /\ \A i \in S: record[i].state = "live"
    /\ record' = [i \in Ids |-> IF i \in S THEN Erased ELSE record[i]]

Next == (\E i \in Ids: Create(i)) \/ (\E S \in SUBSET Ids: Erase(S))

Spec == Init /\ [][Next]_record
=============================================================================
