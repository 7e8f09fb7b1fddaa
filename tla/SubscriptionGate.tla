-------------------------- MODULE SubscriptionGate --------------------------
(***************************************************************************)
(* The subscription row of one account: payments activate it, the owner    *)
(* cancels and reactivates, the lifecycle cron moves it on as windows of   *)
(* access end, a resolution clears a downgrade; and the write gate, which  *)
(* decides on a snapshot cached in Redis under the version of the row.     *)
(*                                                                         *)
(* Windows of access are numbered and end in order: window w is over when  *)
(* w <= ended.  GateTick is the unit in which cache entries age; requests  *)
(* are shorter.                                                            *)
(***************************************************************************)
EXTENDS Integers, FiniteSets

CONSTANTS
    Payments,    \* captured payments, by providerRef
    Requests,    \* bound: requests at the gate at once
    CacheTtl,    \* SUB_CACHE_TTL_SECONDS
    MaxChanges,  \* bound: changes of the row
    MaxWindow,   \* bound: windows of access
    Crashes      \* whether an invalidation can be lost

ASSUME GateAssumption ==
    CacheTtl \in Nat /\ MaxChanges \in Nat \ {0} /\ MaxWindow \in Nat \ {0} /\ Crashes \in BOOLEAN

VARIABLES
    row,      \* account_subscriptions: [status, cancel, until, recon, ver]
    ended,    \* windows of access that are over
    claimed,  \* processed_payment_events
    picked,   \* cron: the transition whose SELECT has matched the row
    dels,     \* invalidations committed and not sent yet
    pointer,  \* sub:ver: [ver, ttl]
    snaps,    \* sub:v: per version [snap, ttl]
    gate,     \* requests: [pc, ver, snap]
    closedFor,\* history: how long the row has refused writes
    wish,     \* history: the owner has cancelled and neither undone it nor paid since
    paidUntil \* history: the window the last payment opened

gateVars == <<row, ended, claimed, picked, dels, pointer, snaps, gate, closedFor, wish, paidUntil>>

Versions == 1 .. MaxChanges
Windows == 0 .. MaxWindow
Statuses == {"trialing", "active", "past_due", "cancelled", "expired"} \* no code sets "paused"
Rows == [status : Statuses, cancel : BOOLEAN, until : Windows, recon : {"none", "pending", "applied"}, ver : Versions]
Transitions == {"cancelled", "trial_ended", "past_due", "grace_ended"}

GateTypeOK ==
    /\ row \in Rows /\ ended \in Windows /\ claimed \subseteq Payments
    /\ picked \in Transitions \cup {"none"} /\ dels \in Nat
    /\ pointer \in [ver : Versions \cup {0}, ttl : 0 .. CacheTtl]
    /\ \A v \in Versions : snaps[v].ttl \in 0 .. CacheTtl /\ (snaps[v].ttl > 0 => snaps[v].snap.ver = v)
    /\ \A r \in Requests : gate[r].ver <= row.ver /\ gate[r].snap \in Rows
    /\ closedFor \in 0 .. CacheTtl + 1 /\ wish \in BOOLEAN /\ paidUntil \in Windows

\* A trial that has just been opened.
GateInit ==
    /\ row = [status |-> "trialing", cancel |-> FALSE, until |-> 1, recon |-> "none", ver |-> 1]
    /\ ended = 0 /\ claimed = {} /\ picked = "none" /\ dels = 0
    /\ pointer = [ver |-> 0, ttl |-> 0] /\ snaps = [v \in Versions |-> [snap |-> row, ttl |-> 0]]
    /\ gate = [r \in Requests |-> [pc |-> "idle", ver |-> 0, snap |-> row]]
    /\ closedFor = 0 /\ wish = FALSE /\ paidUntil = 0

Over(r) == r.until <= ended
Refuses(r) == r.status = "expired" \/ Over(r) \/ r.recon = "pending"

cache == <<pointer, snaps>>
-----------------------------------------------------------------------------
\* The row.  Every change bumps its version and is followed by an invalidation.
Changes(new, bumps) ==
    /\ row.ver + bumps <= MaxChanges
    /\ row' = [new EXCEPT !.ver = row.ver + bumps]
    /\ dels' = dels + 1
    /\ closedFor' = IF Refuses(new) THEN closedFor ELSE 0

EndWindow ==
    /\ ended < row.until /\ ended' = ended + 1
    /\ UNCHANGED <<row, claimed, picked, dels, cache, gate, closedFor, wish, paidUntil>>

\* What activateFromPayment writes first: a fresh period.
Paid(w) == [row EXCEPT !.status = "active", !.cancel = FALSE, !.until = w]

\* activateFromPayment for a payment not claimed yet; the new plan fits, or not.
Activate(p, w, over) ==
    /\ p \notin claimed /\ w > ended /\ claimed' = claimed \cup {p}
    /\ IF over THEN Changes([Paid(w) EXCEPT !.recon = "pending"], 2)
       ELSE IF row.recon = "none" THEN Changes(Paid(w), 1)
       ELSE Changes([Paid(w) EXCEPT !.recon = "none"], 2)
    /\ wish' = FALSE /\ paidUntil' = w
    /\ UNCHANGED <<ended, picked, cache, gate>>

\* The same payment again, from verify, the webhook or its redelivery.
ActivateAgain(p) ==
    /\ p \in claimed /\ dels = 0 /\ dels' = 1
    /\ UNCHANGED <<row, ended, claimed, picked, cache, gate, closedFor, wish, paidUntil>>

\* cancel and reactivate: compare-and-set on status and flag.
Cancel ==
    /\ row.status = "active" /\ ~row.cancel
    /\ Changes([row EXCEPT !.cancel = TRUE], 1) /\ wish' = TRUE
    /\ UNCHANGED <<ended, claimed, picked, cache, gate, paidUntil>>

Reactivate ==
    /\ row.status = "active" /\ row.cancel
    /\ Changes([row EXCEPT !.cancel = FALSE], 1) /\ wish' = FALSE
    /\ UNCHANGED <<ended, claimed, picked, cache, gate, paidUntil>>

\* ReconciliationService.apply.
Resolve ==
    /\ Changes([row EXCEPT !.recon = "applied"], 1)
    /\ UNCHANGED <<ended, claimed, picked, cache, gate, wish, paidUntil>>
-----------------------------------------------------------------------------
\* The lifecycle cron: a transition selects the rows it matches, and its UPDATE
\* matches them again.
Matches(t) ==
    /\ Over(row)
    /\ CASE t = "cancelled" -> row.status = "active" /\ row.cancel
         [] t = "trial_ended" -> row.status = "trialing"
         [] t = "past_due" -> row.status = "active" /\ ~row.cancel
         [] t = "grace_ended" -> row.status = "past_due"

\* Mutant: the UPDATE trusts the ids it has selected.
StillMatchesAnyway(t) == TRUE
StillMatches(t) == Matches(t)

\* The grace after a period that nobody renewed is a window of its own.
Moved(t) ==
    CASE t = "cancelled" -> [row EXCEPT !.status = "cancelled"]
      [] t = "past_due" -> [row EXCEPT !.status = "past_due", !.until = ended + 1]
      [] OTHER -> [row EXCEPT !.status = "expired"]

CronSelects(t) ==
    /\ picked = "none" /\ Matches(t) /\ picked' = t
    /\ UNCHANGED <<row, ended, claimed, dels, cache, gate, closedFor, wish, paidUntil>>

CronUpdates ==
    /\ picked # "none" /\ StillMatches(picked) /\ Moved(picked).until <= MaxWindow
    /\ Changes(Moved(picked), 1) /\ picked' = "none"
    /\ UNCHANGED <<ended, claimed, cache, gate, wish, paidUntil>>

CronSkips ==
    /\ picked # "none" /\ ~StillMatches(picked) /\ picked' = "none"
    /\ UNCHANGED <<row, ended, claimed, dels, cache, gate, closedFor, wish, paidUntil>>

\* invalidateCache, after the commit: the pointer only.
Invalidate ==
    /\ dels > 0 /\ dels' = dels - 1 /\ pointer' = [ver |-> 0, ttl |-> 0]
    /\ UNCHANGED <<row, ended, claimed, picked, snaps, gate, closedFor, wish, paidUntil>>

\* Redis is away, or the process ends first.
GateInvalidationLost ==
    /\ Crashes /\ dels > 0 /\ dels' = dels - 1
    /\ UNCHANGED <<row, ended, claimed, picked, cache, gate, closedFor, wish, paidUntil>>
-----------------------------------------------------------------------------
\* SubscriptionStatusGuard.
GateAt(r, pc) == gate[r].pc = pc
GateGoes(r, pc, v, snap) ==
    /\ gate' = [gate EXCEPT ![r] = [pc |-> pc, ver |-> v, snap |-> snap]]
    /\ UNCHANGED <<row, ended, claimed, picked, dels, closedFor, wish, paidUntil>>

GatePointer(r) ==
    /\ GateAt(r, "idle") /\ UNCHANGED cache
    /\ IF pointer.ttl > 0 THEN GateGoes(r, "snap", pointer.ver, row) ELSE GateGoes(r, "load", 0, row)

GateSnapshot(r) ==
    /\ GateAt(r, "snap") /\ UNCHANGED cache
    /\ LET e == snaps[gate[r].ver]
       IN  IF e.ttl > 0 THEN GateGoes(r, "decide", gate[r].ver, e.snap) ELSE GateGoes(r, "load", 0, row)

GateLoad(r) == GateAt(r, "load") /\ GateGoes(r, "fill", row.ver, row) /\ UNCHANGED cache

\* sub:v: key of the snapshot that was loaded.
Key(r) == gate[r].ver

\* MULTI: the snapshot under its version, and the pointer.
GateFill(r) ==
    /\ GateAt(r, "fill") /\ GateGoes(r, "decide", gate[r].ver, gate[r].snap)
    /\ snaps' = [snaps EXCEPT ![Key(r)] = [snap |-> gate[r].snap, ttl |-> CacheTtl]]
    /\ pointer' = [ver |-> Key(r), ttl |-> CacheTtl]

\* A write is let through unless the snapshot, its window at this time,
\* refuses it.
GateDecide(r) ==
    /\ GateAt(r, "decide") /\ UNCHANGED cache
    /\ GateGoes(r, IF Refuses(gate[r].snap) THEN "refused" ELSE "accepted", 0, row)

GateEnd(r) ==
    /\ gate[r].pc \in {"refused", "accepted"} /\ GateGoes(r, "idle", 0, row) /\ UNCHANGED cache

\* Mutant: the entries are set without EX.
AgedNever(ttl) == ttl
Aged(ttl) == IF ttl = 0 THEN 0 ELSE ttl - 1

GateTick ==
    /\ \A r \in Requests : GateAt(r, "idle")
    /\ pointer' = [pointer EXCEPT !.ttl = Aged(@)]
    /\ snaps' = [v \in Versions |-> [snaps[v] EXCEPT !.ttl = Aged(@)]]
    /\ closedFor' = IF ~Refuses(row) THEN 0 ELSE IF closedFor > CacheTtl THEN closedFor ELSE closedFor + 1
    /\ UNCHANGED <<row, ended, claimed, picked, dels, gate, wish, paidUntil>>

GateStep(r) == GatePointer(r) \/ GateSnapshot(r) \/ GateLoad(r) \/ GateFill(r) \/ GateDecide(r) \/ GateEnd(r)
CronStep == (\E t \in Transitions : CronSelects(t)) \/ CronUpdates \/ CronSkips

GateNext ==
    \/ EndWindow \/ Cancel \/ Reactivate \/ Resolve \/ CronStep \/ Invalidate \/ GateInvalidationLost \/ GateTick
    \/ \E p \in Payments : ActivateAgain(p) \/ \E w \in Windows, over \in BOOLEAN : Activate(p, w, over)
    \/ \E r \in Requests : GateStep(r)

GateSpec == GateInit /\ [][GateNext]_gateVars
-----------------------------------------------------------------------------
\* A write is let through only if the row allowed it within the life of a cache
\* entry: lost invalidations and fills that overtake them heal by then.
GateCatchesUp == \A r \in Requests : GateAt(r, "accepted") => closedFor <= CacheTtl

\* A window that was paid for stays open to its end: no transition of the cron
\* that was under way when the payment came takes it away.
PaidStaysOpen == paidUntil > ended => row.status = "active" /\ row.until = paidUntil

\* An account ends as cancelled only when its owner asked for it, and neither
\* took it back nor paid again.
CancelledByWish == row.status = "cancelled" => wish

\* The types, and no subscription ended against a payment or the owner's
\* wish: every step of crons, payments and gates has to keep them.
GateInv == GateTypeOK /\ PaidStaysOpen /\ CancelledByWish
=============================================================================
