---------------------------- MODULE MCLedgerFile -----------------------------
(***************************************************************************)
(* A small instance of LedgerFile for TLC.  Processes and records are      *)
(* interchangeable.                                                        *)
(***************************************************************************)
EXTENDS LedgerFile

Interchangeable == Permutations(Processes) \cup Permutations(Payloads)
=============================================================================
