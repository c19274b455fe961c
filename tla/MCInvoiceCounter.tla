-------------------------- MODULE MCInvoiceCounter --------------------------
(* Small instances of InvoiceCounter for TLC. *)
EXTENDS InvoiceCounter, TLC

\* Requests are interchangeable: no property names one.
RequestSymmetry == Permutations(Requests)
=============================================================================
