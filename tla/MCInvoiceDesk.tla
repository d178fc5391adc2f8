---------------------------- MODULE MCInvoiceDesk ----------------------------
(* InvoiceDesk on two invoices that nothing tells apart.                   *)
EXTENDS InvoiceDesk, TLC

Alike == Permutations(Invoices)
=============================================================================
