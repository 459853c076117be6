---------------------------- MODULE MCValidation ----------------------------
(* Validation with invoices of up to three lines.  Each gap is nothing,    *)
(* within the tolerance, or just beyond it.                                *)
EXTENDS Validation

Good == [computed |-> 600, total |-> 600]
Near == [computed |-> 612, total |-> 600]
Bad == [computed |-> 613, total |-> 600]

SomeLines == {<<>>, <<Good>>, <<Near, Near>>, <<Near, Near, Near>>,
              <<Bad, Good>>, <<Bad, Bad, Bad>>}

(* An invoice with a gap before the subtotal and one before the total.     *)
WithGaps(lines, subtotalGap, ttcGap) ==
    LET subtotal == LinesTotal(lines) + subtotalGap
    IN [lines |-> lines, subtotal |-> subtotal, rate |-> 20 * Percent,
        ttc |-> WithTax(subtotal, 20 * Percent) + ttcGap, warnings |-> 0, confidence |-> "high"]

Amounts == {WithGaps(lines, s, t): lines \in SomeLines, s \in {0, -10, 15}, t \in {0, -10, 15}}

(* The same with nulls, with Gemini's own warnings, with its doubts, or    *)
(* with a rate written as a percentage.                                    *)
MCExtracted ==
    Amounts
    \cup {[i EXCEPT !.subtotal = None]: i \in Amounts}
    \cup {[i EXCEPT !.warnings = MaxWarnings]: i \in Amounts}
    \cup {[i EXCEPT !.confidence = "low", !.ttc = None]: i \in Amounts}
    \cup {[i EXCEPT !.rate = 100 * @]: i \in Amounts}

MCCorrections == {WithGaps(lines, s, 0): lines \in SomeLines, s \in {0, -10, 15}}
(* The bounds of the form, a percentage with more decimals than the form   *)
(* keeps, and one that is refused.                                         *)
MCTyped == {None, 0, 20 * Percent - 1, One, One + 1}
=============================================================================
