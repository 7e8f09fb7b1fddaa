-------------------------- MODULE MCOutboundQueue --------------------------
(***************************************************************************)
(* Small instances of OutboundQueue: one device with one or two queued     *)
(* creates; `bad' is a payload the server's body validation refuses.       *)
(***************************************************************************)
EXTENDS OutboundQueue

CONSTANTS sale, bad, cycle, flush

\* Bound: a logout meets one sale, one fault and no expiry; two mutations, two
\* faults and the replay window are for the time before it.
Focus == alone \/ (queue[bad].status = "unborn" /\ faults <= 1 /\ old = {})
=============================================================================
