----------------------------- MODULE MCSession -----------------------------
(***************************************************************************)
(* An instance of Session: two refresh calls and one authenticated request *)
(* at once.                                                                *)
(***************************************************************************)
EXTENDS Session

=============================================================================
