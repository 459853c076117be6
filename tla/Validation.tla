----------------------------- MODULE Validation -----------------------------
(***************************************************************************)
(* What becomes of the numbers of one invoice: the schema bounds what      *)
(* Gemini answers, validate_invoice checks the amounts and adds its        *)
(* warnings to a copy that is not bounded again, and that copy is read     *)
(* back through the schema from the cache and from the database.  A user   *)
(* may correct the record, in the form of the Result page or by a PUT of   *)
(* another client, and it is validated again.                              *)
(*                                                                         *)
(* An amount is an integer in units of 1/Cent of a cent, and Cent is odd:  *)
(* a gap is rounded to whole cents without ties.  A line is what           *)
(* quantity * unit_price gives and what the invoice says; the number of    *)
(* warnings stands for the warnings.  A rate is an integer in units of     *)
(* 1/Percent of a percent, a fraction on the wire and in the store and a   *)
(* percentage in the form.  Texts are left out: the form refuses some that *)
(* the schema accepts, which is a form that is not saved.  InvoiceStore's  *)
(* flag "fits" is Accepted(Validated(i)) of this module.                   *)
(***************************************************************************)
EXTENDS Integers, Sequences, FiniteSets, Sums

CONSTANTS
    Extracted,      \* the invoices Gemini may answer
    Corrections,    \* the invoices a user may send with PUT
    Typed,          \* the percentages a user may type in the form
    None,           \* null
    Cent,           \* units per cent
    Percent,        \* units per percent
    Step,           \* units of the last decimal of a percentage the form keeps
    Tolerance,      \* AMOUNT_TOLERANCE, in cents
    MaxLines,       \* MAX_LINES
    MaxWarnings     \* max_length of ExtractedInvoice.warnings

ASSUME ValidationAssumption ==
    /\ Cent \in Nat /\ Cent % 2 = 1
    /\ {Tolerance, MaxLines, MaxWarnings} \subseteq Nat
    /\ {Percent, Step} \subseteq Nat \ {0} /\ Step % 2 = 1
    /\ None \notin Int

VARIABLES
    stage,          \* "idle", "store" (validated, not cached yet) or "insert"
    invoice,        \* the invoice the upload in progress has in hand
    cache,          \* the cached invoice, or None
    row             \* the record: its clear status column and its payload

vars == <<stage, invoice, cache, row>>

Line == [computed: Int, total: Int]
Invoice == [lines: Seq(Line), subtotal: Int \cup {None}, rate: Nat \cup {None},
            ttc: Int \cup {None}, warnings: Nat, confidence: {"high", "low"}]

(* A rate is not negative: the schema's ge=0, for Gemini and for a PUT.    *)
ASSUME InputAssumption ==
    /\ Extracted \subseteq Invoice /\ Corrections \subseteq Invoice
    /\ Typed \subseteq Int \cup {None}
    /\ None \notin Invoice

TypeOK ==
    /\ stage \in {"idle", "store", "insert"}
    /\ invoice \in Invoice \cup {None} /\ cache \in Invoice \cup {None}
    /\ row \in [status: {"high", "low"}, invoice: Invoice] \cup {None}
    /\ (stage = "idle") = (invoice = None)

Init == stage = "idle" /\ invoice = None /\ cache = None /\ row = None

-----------------------------------------------------------------------------
(* The rules.                                                              *)

Gap(a, b) == IF a > b THEN a - b ELSE b - a
(* Plausible bug: a gap is truncated to the cent instead of rounded.       *)
CentsTruncated(gap) == gap \div Cent

Cents(gap) == (gap + Cent \div 2) \div Cent

(* round(abs(a - b), 2) <= AMOUNT_TOLERANCE.                               *)
Close(a, b) == Cents(Gap(a, b)) <= Tolerance

(* sum(line.total for line in invoice.lines).                              *)
LinesTotal(lines) == SumOf([n \in DOMAIN lines |-> lines[n].total])

(* subtotal_ht * (1 + tva_rate).                                           *)
One == 100 * Percent
WithTax(subtotal, rate) == (subtotal * (One + rate)) \div One

-----------------------------------------------------------------------------
(* A rule is skipped when one of its inputs is null.                       *)

BrokenLines(i) ==
    {n \in DOMAIN i.lines: ~Close(i.lines[n].computed, i.lines[n].total)}

SubtotalBroken(i) ==
    /\ i.lines # <<>> /\ i.subtotal # None
    /\ ~Close(LinesTotal(i.lines), i.subtotal)

TtcBroken(i) ==
    /\ None \notin {i.subtotal, i.rate, i.ttc}
    /\ ~Close(WithTax(i.subtotal, i.rate), i.ttc)

NewWarnings(i) ==
    Cardinality(BrokenLines(i)) + (IF SubtotalBroken(i) THEN 1 ELSE 0)
        + (IF TtcBroken(i) THEN 1 ELSE 0)

(* validate_invoice: nothing bounds the copy's warnings again.             *)
Validated(i) ==
    IF NewWarnings(i) = 0 THEN i
    ELSE [i EXCEPT !.confidence = "low", !.warnings = @ + NewWarnings(i)]

(* model_validate: what the schema accepts, from Gemini or from a store.   *)
Accepted(i) == Len(i.lines) <= MaxLines /\ i.warnings <= MaxWarnings

Readable == cache # None /\ Accepted(cache)

-----------------------------------------------------------------------------
(* The form.                                                               *)

(* Plausible bug: the limit itself is taken for a percentage.              *)
MeantBelowOne(rate) == IF rate < One THEN rate ELSE rate \div 100

(* _percent: a rate above 1 is a percentage, 0.2 and 20 both mean 20 %.    *)
Meant(rate) == IF rate <= One THEN rate ELSE rate \div 100

(* to_percent rounds it, export.py does not.                               *)
ToPercent(rate) ==
    IF rate = None THEN None ELSE ((Meant(rate) + Step \div 2) \div Step) * Step

(* form_from_view.                                                         *)
Form(i) == [lines |-> i.lines, subtotal |-> i.subtotal,
            percent |-> ToPercent(i.rate), ttc |-> i.ttc]

(* The rows of the table: the lines, a row added and abandoned, a row half *)
(* filled.                                                                 *)
Abandoned == [computed |-> None, total |-> None]
HalfFilled == [computed |-> None, total |-> 0]

LinesFromEditor(rows) ==
    LET kept[n \in 0..Len(rows)] ==
            IF n = 0 THEN <<>>
            ELSE IF rows[n] = Abandoned THEN kept[n - 1]
            ELSE Append(kept[n - 1], rows[n])
    IN kept[Len(rows)]

(* What the user may make of the form.                                     *)
Edited(values) ==
    {values}
    \cup {[values EXCEPT !.percent = p]: p \in Typed}
    \cup {[values EXCEPT !.ttc = None]}
    \cup {[values EXCEPT !.lines = Append(@, new)]: new \in {Abandoned, HalfFilled}}
    \cup {[values EXCEPT !.lines = Tail(@)]: n \in {1} \cap DOMAIN values.lines}

(* validate_and_build: the checks and the body of the PUT.                 *)
FormAccepts(values) ==
    /\ Len(values.lines) <= MaxLines
    /\ \A n \in DOMAIN values.lines:
           None \notin {values.lines[n].computed, values.lines[n].total}
    /\ values.percent # None => values.percent \in 0..One

Payload(values) ==
    [lines |-> values.lines, subtotal |-> values.subtotal, rate |-> values.percent,
     ttc |-> values.ttc, warnings |-> 0, confidence |-> "high"]

-----------------------------------------------------------------------------
(* Plausible bugs.  No action uses these definitions.                      *)

(* The row keeps the status the upload gave it.                            *)
PutKeepsStatus(i) ==
    /\ row # None
    /\ row' = [row EXCEPT !.invoice = Validated(i)]

(* What Gemini answered is cached before it is validated.                  *)
ExtractCachesFirst(i) ==
    /\ stage = "idle" /\ row = None
    /\ ~Readable
    /\ Accepted(i)
    /\ stage' = "insert" /\ invoice' = Validated(i)
    /\ cache' = i
    /\ UNCHANGED row

(* The upload goes on after its record was refused.                        *)
InsertFailsAndRetries ==
    /\ stage = "insert"
    /\ stage' = "idle"
    /\ UNCHANGED <<invoice, cache, row>>

-----------------------------------------------------------------------------
(* Uploads of the document, one after the other.                           *)

(* A miss, an entry that is gone or that cannot be read back: Gemini is    *)
(* asked again.                                                            *)
Extract(i) ==
    /\ stage = "idle" /\ row = None
    /\ ~Readable
    /\ Accepted(i)
    /\ stage' = "store" /\ invoice' = Validated(i)
    /\ cache' = None
    /\ UNCHANGED row

(* A hit skips validation.                                                 *)
Hit ==
    /\ stage = "idle" /\ row = None
    /\ Readable
    /\ stage' = "insert" /\ invoice' = cache
    /\ UNCHANGED <<cache, row>>

(* store_cache, whose failure is ignored.                                  *)
StoreCache ==
    /\ stage = "store"
    /\ stage' = "insert"
    /\ cache' \in {cache, invoice}
    /\ UNCHANGED <<invoice, row>>

(* create: the clear column and the payload, read back with _open.         *)
Insert ==
    /\ stage = "insert" /\ Accepted(invoice)
    /\ row' = [status |-> invoice.confidence, invoice |-> invoice]
    /\ stage' = "idle" /\ invoice' = None
    /\ UNCHANGED cache

(* _open refuses it, or the database fails: rolled back.                   *)
InsertFails ==
    /\ stage = "insert"
    /\ stage' = "idle" /\ invoice' = None
    /\ UNCHANGED <<cache, row>>

(* PUT: InvoiceUpdate has no warnings and no confidence, the server        *)
(* computes them; a result that _open refuses is rolled back.              *)
Put(i) ==
    /\ row # None
    /\ LET corrected == Validated([i EXCEPT !.warnings = 0, !.confidence = "high"])
       IN /\ Accepted(corrected)
          /\ row' = [status |-> corrected.confidence, invoice |-> corrected]

(* Another session, or another client of the API.                          *)
Update(i) == Put(i) /\ UNCHANGED <<stage, invoice, cache>>

(* The form of the record as it is, edited.  A form drawn before another   *)
(* session's save sends what any other client may send: the last one wins. *)
SaveForm(edited) ==
    /\ LET values == [edited EXCEPT !.lines = LinesFromEditor(@)]
       IN FormAccepts(values) /\ Put(Payload(values))
    /\ UNCHANGED <<stage, invoice, cache>>

(* DELETE erases both copies; the entry alone also ends with its TTL.      *)
Delete ==
    /\ row # None
    /\ row' = None /\ cache' = None
    /\ UNCHANGED <<stage, invoice>>

ExpireEntry ==
    /\ cache # None
    /\ cache' = None
    /\ UNCHANGED <<stage, invoice, row>>

Next ==
    \/ \E i \in Extracted: Extract(i)
    \/ Hit \/ StoreCache \/ Insert \/ InsertFails
    \/ \E i \in Corrections: Update(i)
    \/ row # None /\ \E values \in Edited(Form(row.invoice)): SaveForm(values)
    \/ Delete \/ ExpireEntry

Spec == Init /\ [][Next]_vars

-----------------------------------------------------------------------------
(* What a reader of a record relies on.                                    *)

Kept == ({cache} \cup (IF row = None THEN {} ELSE {row.invoice})) \ {None}

(* The tolerances add up, but only so far: in an invoice marked "high",    *)
(* from Gemini, from the cache or from a user, the amount computed from    *)
(* quantities and prices is within one tolerance per rule applied (and     *)
(* half a cent of rounding) of the subtotal and of the total to pay.       *)
Slack == Cent * Tolerance + Cent \div 2
ComputedTotal(i) == SumOf([n \in DOMAIN i.lines |-> i.lines[n].computed])

HighMeansConsistent ==
    \A i \in Kept: (i.confidence = "high" /\ i.lines # <<>> /\ i.subtotal # None) =>
        LET drift == (Len(i.lines) + 1) * Slack
        IN /\ Gap(ComputedTotal(i), i.subtotal) <= drift
           /\ (None \notin {i.rate, i.ttc}) =>
                  One * Gap(WithTax(ComputedTotal(i), i.rate), i.ttc)
                      <= drift * (One + i.rate) + One * (Slack + 1)

(* Every rule an invoice breaks is reported with it, also when the invoice *)
(* came from the cache, where validation is skipped, or from a correction. *)
EveryBrokenRuleIsReported ==
    \A i \in Kept: NewWarnings(i) > 0 =>
        i.confidence = "low" /\ i.warnings >= NewWarnings(i)

(* The list filters on the clear column and shows the sealed invoice: they *)
(* agree after every create and every correction.                          *)
StatusColumnAgrees == row # None => row.status = row.invoice.confidence

(* What a user saves is what the page shows next: the amounts and the rows *)
(* that were filled as they were, and the rate to the last decimal the     *)
(* form keeps, although it is divided by 100 on the way out and read back  *)
(* by a rule that guesses its unit.  So saving again changes nothing.      *)
Shows(form, values) ==
    /\ form.lines = LinesFromEditor(values.lines)
    /\ form.subtotal = values.subtotal /\ form.ttc = values.ttc
    /\ IF values.percent = None THEN form.percent = None
       ELSE Gap(form.percent, values.percent) <= Step \div 2

SavedIsShown ==
    [][\A values \in IF row = None THEN {} ELSE Edited(Form(row.invoice)):
           SaveForm(values) => Shows(Form(row'.invoice), values)]_vars

(* schemas.py:64: warnings are "Non-blocking messages about the            *)
(* extraction".  So an answer the schema has accepted is still accepted    *)
(* when the record that holds it, warnings included, is created.           *)
WarningsNeverBlock == stage = "insert" => Accepted(invoice)
=============================================================================
