----------------------------- MODULE MCAccountingLog -----------------------------
(* AccountingLog with four files kept, all but the newest compressed.            *)
EXTENDS AccountingLog
=============================================================================
