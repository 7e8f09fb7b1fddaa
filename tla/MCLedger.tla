------------------------------ MODULE MCLedger ------------------------------
(***************************************************************************)
(* An instance of Ledger: two sales of three pieces for ten paise, a part  *)
(* of it on credit, and one bill.                                          *)
(***************************************************************************)
EXTENDS Ledger, TLC

CONSTANTS piece

MCQty == (piece :> 3)
MCPaise == (piece :> 10)
\* Bound: no more than a write after the first race.
Unraced == raced = {}
Renaming == Permutations(Workers) \cup Permutations(Sales)
=============================================================================
