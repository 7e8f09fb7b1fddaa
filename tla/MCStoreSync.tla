----------------------------- MODULE MCStoreSync -----------------------------
(***************************************************************************)
(* Two stores, one of them new to the phone, entered, left or retried      *)
(* twice in all, with two faults: a slow open of one may end after the     *)
(* other, or the same one, was entered.                                    *)
(***************************************************************************)
EXTENDS StoreSync
=============================================================================
