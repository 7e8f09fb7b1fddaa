------------------------ MODULE MCSubscriptionGate ------------------------
(***************************************************************************)
(* An instance of SubscriptionGate: two payments and one request.          *)
(***************************************************************************)
EXTENDS SubscriptionGate, TLC

Renaming == Permutations(Payments) \cup Permutations(Requests)
=============================================================================
