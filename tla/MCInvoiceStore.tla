--------------------------- MODULE MCInvoiceStore ---------------------------
(* Instances of InvoiceStore for TLC: requests are symmetric model values.  *)
EXTENDS InvoiceStore, TLC

RequestSymmetry == Permutations(Uploads) \cup Permutations(Edits)
=============================================================================
