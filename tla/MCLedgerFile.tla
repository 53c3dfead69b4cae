---------------------------- MODULE MCLedgerFile ----------------------------
(* Small instances of LedgerFile for TLC. *)
EXTENDS LedgerFile

CONSTANTS w1, w2, r1
=============================================================================
