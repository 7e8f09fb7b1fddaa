---------------------------- MODULE MCDeltaPull ----------------------------
(***************************************************************************)
(* An instance of DeltaPull: entity 1 without rows, entity 2 with two rows *)
(* (two pages).  Row 1 is there from the start, and whatever comes of it   *)
(* may fail to apply; row 2 is made by this phone or by another device.    *)
(***************************************************************************)
EXTENDS DeltaPull, TLC

MCEntityOf == (1 :> 2) @@ (2 :> 2)
MCFaulty == {1} \X (0 .. 2)

\* Bound: a change of the permissions meets one row; two rows, a lost call, a
\* logout and a create of the phone are for the permissions of the start.
Focus == granted.version = 1 \/ row[2].version = 0
=============================================================================
