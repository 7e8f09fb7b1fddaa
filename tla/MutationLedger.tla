--------------------------- MODULE MutationLedger ---------------------------
(***************************************************************************)
(* What /sync/delta promises about one (mutation_id, user, store): a       *)
(* verdict is reached once, "applied" is final and carries exactly one     *)
(* business effect; any other verdict carries none.  A refused verdict may *)
(* be forgotten (a conflict row lives five minutes), an applied one never. *)
(* DeltaPush, the pipeline of delta.service.ts, implements this.           *)
(***************************************************************************)
EXTENDS Naturals

CONSTANT Mutations

VARIABLES
    verdict,  \* verdict[m]: the decision the server holds for m, or "none"
    effects   \* effects[m]: how often m's business write has committed

ledgerVars == <<verdict, effects>>

Verdicts == {"none", "applied", "rejected", "conflict"}

Init ==
    /\ verdict = [m \in Mutations |-> "none"]
    /\ effects = [m \in Mutations |-> 0]

\* The business write and its idempotency row, in one transaction.
Apply(m) ==
    /\ verdict[m] = "none"
    /\ verdict' = [verdict EXCEPT ![m] = "applied"]
    /\ effects' = [effects EXCEPT ![m] = @ + 1]

Refuse(m) ==
    /\ verdict[m] = "none"
    /\ \E v \in {"rejected", "conflict"} : verdict' = [verdict EXCEPT ![m] = v]
    /\ UNCHANGED effects

Forget(m) ==
    /\ verdict[m] \in {"rejected", "conflict"}
    /\ verdict' = [verdict EXCEPT ![m] = "none"]
    /\ UNCHANGED effects

Next == \E m \in Mutations : Apply(m) \/ Refuse(m) \/ Forget(m)

Spec == Init /\ [][Next]_ledgerVars
=============================================================================
