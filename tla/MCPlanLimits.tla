--------------------------- MODULE MCPlanLimits ---------------------------
(***************************************************************************)
(* An instance of PlanLimits: two stores, two devices, a plan of one store *)
(* with one device and a plan of two stores with two devices.              *)
(***************************************************************************)
EXTENDS PlanLimits, TLC

Limit == [p \in Plans |-> IF p = "small" THEN 1 ELSE 2]
Renaming == Permutations(Stores)
=============================================================================
