----------------------------- MODULE MCReceipts -----------------------------
(***************************************************************************)
(* Plugin files for Receipts: a printer of its own name, a printer that    *)
(* takes the built-in one's name, a storage implementation.                *)
(***************************************************************************)
EXTENDS Receipts

CustomPrinter == [name |-> "custom", kind |-> "printer"]
EscposPrinter == [name |-> "escpos", kind |-> "printer"]
SqlStorage    == [name |-> "sql", kind |-> "storage"]

Files == {CustomPrinter, EscposPrinter, SqlStorage}
StorageOnly == {SqlStorage}
=============================================================================
