----------------------------- MODULE PlanLimits -----------------------------
(***************************************************************************)
(* What a plan limits: the stores of an account and the device slots of a  *)
(* store.  Slots are claimed, stores created, a payment switches the plan, *)
(* detects that the account is over its new limits or gives back what an   *)
(* earlier downgrade took, and the owner chooses what to keep or swaps the *)
(* active store.  Transactions that read before they write are two steps;  *)
(* the row locks they hold in between are guards of the others.            *)
(***************************************************************************)
EXTENDS Integers, Sequences, FiniteSets, SequencesExt

CONSTANTS
    Stores, Devices, Plans,
    Owners,      \* the devices the owner of the account uses
    MaxStores,   \* per plan: max_stores
    MaxDevices,  \* per plan: max_devices_per_store
    MaxPayments, \* bound: payments captured
    MaxRows,     \* bound: revoked rows of a store and device before a new claim
    MaxExpired   \* bound: store and device pairs with an expired row

ASSUME LimitsAssumption ==
    /\ Owners \subseteq Devices
    /\ MaxStores \in [Plans -> Nat] /\ MaxDevices \in [Plans -> Nat]
    /\ IsFiniteSet(Stores) /\ IsFiniteSet(Devices)
    /\ MaxPayments \in Nat /\ MaxRows \in Nat /\ MaxExpired \in Nat

VARIABLES
    plan,      \* account_subscriptions.plan_fk
    recon,     \* account_subscriptions.reconciliation_status
    store,     \* per store: none, active or locked
    slots,     \* per store: devices with an active store_device_access row
    old,       \* per store and device: reasons of its revoked rows, oldest first
    expired,   \* store and device pairs with an expired row
    claim,     \* per device: the store it is opening, past the guards
    create,    \* createStore: [pc, store]
    resolver,  \* apply or swap, holding the account row: [pc, on, off, kept, seen, in]
    payments

limitsVars == <<plan, recon, store, slots, old, expired, claim, create, resolver, payments>>

Reasons == {"plan_downgrade", "other"}
Nowhere == [pc |-> "idle", store |-> "none"]
NoChoice == [pc |-> "idle", on |-> {}, off |-> {}, kept |-> {}, seen |-> {}, in |-> {}]
Pairs == Stores \X Devices
Held == {p \in Pairs : p[2] \in slots[p[1]]}

Active == {s \in Stores : store[s] = "active"}
Locked == {s \in Stores : store[s] = "locked"}

LimitsTypeOK ==
    /\ plan \in Plans /\ recon \in {"none", "pending", "applied"}
    /\ store \in [Stores -> {"none", "active", "locked"}]
    /\ slots \in [Stores -> SUBSET Devices]
    /\ \A p \in Pairs : Len(old[p]) <= MaxRows /\ Range(old[p]) \subseteq Reasons
    /\ \A s \in Stores : store[s] = "none" => slots[s] = {} /\ \A d \in Devices : old[<<s, d>>] = << >>
    /\ \A d \in Devices : claim[d] = "none" \/ store[claim[d]] # "none"
    /\ resolver.kept \cup resolver.seen \cup expired \subseteq Pairs /\ payments \in 0 .. MaxPayments

\* The account has one store, its plan can be any.
LimitsInit ==
    /\ plan \in Plans /\ recon = "none"
    /\ \E s \in Stores : store = [t \in Stores |-> IF t = s THEN "active" ELSE "none"]
    /\ slots = [s \in Stores |-> {}] /\ old = [p \in Pairs |-> << >>] /\ expired = {}
    /\ claim = [d \in Devices |-> "none"] /\ create = Nowhere /\ resolver = NoChoice /\ payments = 0

\* isOverLimit counts what is active; what is locked or revoked does not count.
Fits(active, held, p) ==
    Cardinality(active) <= MaxStores[p] /\ \A s \in active : Cardinality(held[s]) <= MaxDevices[p]

\* Mutant: nobody waits for the account row.
AccountFreeOrNot == TRUE

\* accounts row not locked by apply or swap (createStore takes no such lock).
AccountFree == resolver.pc = "idle"
-----------------------------------------------------------------------------
\* Slots.

\* POST /stores/:id/access past SubscriptionStatusGuard.
ClaimStarts(d, s) ==
    /\ claim[d] = "none" /\ store[s] = "active" /\ recon # "pending"
    /\ claim' = [claim EXCEPT ![d] = s]
    /\ UNCHANGED <<plan, recon, store, slots, old, expired, create, resolver, payments>>

\* Its own slot is only touched; else limit and count are read under lockStore.
MayClaim(d, s) == d \in slots[s] \/ Cardinality(slots[s]) < MaxDevices[plan]

ClaimSlot(d) ==
    /\ claim[d] # "none" /\ Len(old[<<claim[d], d>>]) < MaxRows
    /\ slots' = [slots EXCEPT ![claim[d]] = IF MayClaim(d, claim[d]) THEN @ \cup {d} ELSE @]
    /\ claim' = [claim EXCEPT ![d] = "none"]
    /\ UNCHANGED <<plan, recon, store, old, expired, create, resolver, payments>>

\* Slots end: the rows a resolution has read are no longer active.
Release(ps) ==
    /\ ps # {} /\ ps \subseteq Held
    /\ slots' = [s \in Stores |-> {d \in slots[s] : <<s, d>> \notin ps}]
    /\ resolver' = [resolver EXCEPT !.seen = @ \ ps, !.in = @ \ {p[2] : p \in ps}]
    /\ UNCHANGED <<plan, recon, store, claim, create, payments>>

RevokedRows(ps, why) == [p \in Pairs |-> IF p \in ps THEN Append(old[p], why) ELSE old[p]]

\* removeDevice: the owner removes a device other than the one in use.
RemoveDevice(d, s) ==
    /\ Devices # {d} /\ Release({<<s, d>>}) /\ old' = RevokedRows({<<s, d>>}, "other")
    /\ UNCHANGED expired

\* blockDevice, logout, revokeSession: every slot of the device.
RevokeAllSlots(d) ==
    LET ps == {p \in Held : p[2] = d}
    IN  Release(ps) /\ old' = RevokedRows(ps, "other") /\ UNCHANGED expired

\* expireStaleSlots: an idle slot; an expired row is never restored.
ExpireSlot(d, s) ==
    /\ Cardinality(expired) < MaxExpired /\ Release({<<s, d>>})
    /\ expired' = expired \cup {<<s, d>>} /\ UNCHANGED old
-----------------------------------------------------------------------------
\* createStore: the gate before the transaction, limit and count in it under an
\* advisory lock of creations only, the insert (whose foreign key waits for the
\* account row).
CreateGate ==
    /\ create.pc = "idle" /\ recon # "pending" /\ \E s \in Stores : store[s] = "none"
    /\ create' = [create EXCEPT !.pc = "gate"]
    /\ UNCHANGED <<plan, recon, store, slots, old, expired, claim, resolver, payments>>

CreateReads(s) ==
    /\ create.pc = "gate" /\ store[s] = "none"
    /\ create' = IF Cardinality(Active) < MaxStores[plan] THEN [pc |-> "insert", store |-> s] ELSE Nowhere
    /\ UNCHANGED <<plan, recon, store, slots, old, expired, claim, resolver, payments>>

CreateInserts ==
    /\ create.pc = "insert" /\ AccountFree
    /\ store' = [store EXCEPT ![create.store] = "active"] /\ create' = Nowhere
    /\ UNCHANGED <<plan, recon, slots, old, expired, claim, resolver, payments>>
-----------------------------------------------------------------------------
\* activateFromPayment: one transaction under the account row; the store rows
\* it locks keep claims out while it counts.

LastDowngrade(rows) == SelectLastInSeq(rows, LAMBDA r : r = "plan_downgrade")

\* restoreDowngradedSlots: devices without a fresh slot, their latest row.
Restorable(s) == {d \in Devices \ slots[s] : "plan_downgrade" \in Range(old[<<s, d>>])}

\* Mutant: only as many stores come back as fit the plan in force before.
UnlockedAsBefore == IF Cardinality(Active \cup Locked) <= MaxStores[plan] THEN Locked ELSE {}

\* unlockDowngraded: every store locked for a downgrade.
Unlocked == Locked

\* autoRestore: unlock, then the slots of every active store.
AutoRestore ==
    /\ store' = [s \in Stores |-> IF s \in Unlocked THEN "active" ELSE store[s]]
    /\ slots' = [s \in Stores |-> slots[s] \cup Restorable(s)]
    /\ old' = [p \in Pairs |-> IF p[2] \in Restorable(p[1]) THEN RemoveAt(old[p], LastDowngrade(old[p])) ELSE old[p]]
    /\ recon' = "none"

ActivatePlan(p) ==
    /\ AccountFree /\ payments < MaxPayments /\ payments' = payments + 1 /\ plan' = p
    /\ UNCHANGED <<expired, claim, create, resolver>>

ActivateOverLimit(p) ==
    /\ ActivatePlan(p) /\ ~Fits(Active, slots, p)
    /\ recon' = "pending" /\ UNCHANGED <<store, slots, old>>

ActivateRestores(p) ==
    /\ ActivatePlan(p) /\ Fits(Active, slots, p) /\ recon # "none" /\ AutoRestore

ActivateFits(p) ==
    /\ ActivatePlan(p) /\ Fits(Active, slots, p) /\ recon = "none"
    /\ UNCHANGED <<recon, store, slots, old>>
-----------------------------------------------------------------------------
Inside == {d \in Devices : \E s \in Active : d \in slots[s]}

\* Mutant: the current device can be dropped.
StaysReachableNot(d, kept) == TRUE

\* The device in use holds a kept slot if it holds one at all.
StaysReachable(d, kept) == d \in Inside => \E p \in kept : p[2] = d

\* ReconciliationService.apply: reads under the account row and validates what
\* the owner on device d keeps; a store not kept takes its slots out of reach.
ValidSelection(d, keep, kept) ==
    /\ keep \subseteq Active /\ kept \subseteq Held /\ \A p \in kept : p[1] \in keep
    /\ Cardinality(keep) <= MaxStores[plan]
    /\ \A s \in keep : Cardinality({p \in kept : p[1] = s}) <= MaxDevices[plan]
    /\ StaysReachable(d, kept)

ApplyReads(d, keep, kept) ==
    /\ AccountFree /\ ValidSelection(d, keep, kept)
    /\ resolver' = [pc |-> "apply", on |-> keep, off |-> Active \ keep, kept |-> kept,
                    seen |-> {p \in Held : p[1] \in keep} \ kept, in |-> {d} \cap Inside]
    /\ UNCHANGED <<plan, recon, store, slots, old, expired, claim, create, payments>>

\* lockMany, revokeSlotById for every slot read and not kept, 'applied'.
ApplyCommits ==
    /\ resolver.pc = "apply"
    /\ store' = [s \in Stores |-> IF s \in resolver.off THEN "locked" ELSE store[s]]
    /\ slots' = [s \in Stores |-> {d \in slots[s] : <<s, d>> \notin resolver.seen}]
    /\ old' = RevokedRows(resolver.seen, "plan_downgrade")
    /\ recon' = "applied" /\ resolver' = NoChoice
    /\ UNCHANGED <<plan, expired, claim, create, payments>>

\* swapActiveStoreForUser: one active store is exchanged for a locked one; the
\* devices to keep there are named by identity, whatever their rows say.
KnownDevices(s) == {d \in Devices : d \in slots[s] \/ old[<<s, d>>] # << >> \/ <<s, d>> \in expired}

SwapReads(d, on, off, keep) ==
    /\ AccountFree /\ store[on] = "locked" /\ store[off] = "active"
    /\ Cardinality(Active) <= MaxStores[plan]
    /\ keep \subseteq KnownDevices(on) /\ Cardinality(keep) <= MaxDevices[plan]
    /\ d \in slots[off] => d \in keep
    /\ resolver' = [pc |-> "swap", on |-> {on}, off |-> {off}, kept |-> {on} \X keep,
                    seen |-> {on} \X (slots[on] \ keep), in |-> {d} \cap Inside]
    /\ UNCHANGED <<plan, recon, store, slots, old, expired, claim, create, payments>>

\* lockMany, unlockOne, then restoreSlot (the latest revoked row, whatever its
\* reason; none when the slot is active) or revokeSlot.
SwapCommits ==
    LET back == {p \in resolver.kept \ Held : old[p] # << >>}
        gone == resolver.seen \cap Held
    IN  /\ resolver.pc = "swap"
        /\ store' = [s \in Stores |-> IF s \in resolver.off THEN "locked"
                                      ELSE IF s \in resolver.on THEN "active" ELSE store[s]]
        /\ slots' = [s \in Stores |-> {d \in Devices : <<s, d>> \in (Held \ gone) \cup back}]
        /\ old' = [p \in Pairs |-> IF p \in back THEN Front(old[p])
                                   ELSE IF p \in gone THEN Append(old[p], "plan_downgrade") ELSE old[p]]
        /\ resolver' = NoChoice
        /\ UNCHANGED <<plan, recon, expired, claim, create, payments>>

LimitsNext ==
    \/ \E d \in Devices : ClaimSlot(d) \/ RevokeAllSlots(d)
    \/ \E d \in Devices, s \in Stores : ClaimStarts(d, s) \/ RemoveDevice(d, s) \/ ExpireSlot(d, s)
    \/ CreateGate \/ CreateInserts \/ \E s \in Stores : CreateReads(s)
    \/ \E p \in Plans : ActivateOverLimit(p) \/ ActivateRestores(p) \/ ActivateFits(p)
    \/ \E d \in Owners :
           \/ \E keep \in SUBSET Active, kept \in SUBSET Held : ApplyReads(d, keep, kept)
           \/ \E on, off \in Stores, keep \in SUBSET Devices : SwapReads(d, on, off, keep)
    \/ ApplyCommits \/ SwapCommits

LimitsSpec == LimitsInit /\ [][LimitsNext]_limitsVars
-----------------------------------------------------------------------------
\* What is active fits the plan now and what was chosen fits it too.
Within == Fits(Active, slots, plan)

\* A resolution ends within the limits, whatever claims, creations, removals
\* and payments came while the owner was choosing; and a claim never takes a
\* store over the limit in force when it commits.
LimitsHold ==
    [][/\ ApplyCommits => Within'
       /\ \A d \in Devices : ClaimSlot(d) =>
              \A s \in Stores : slots'[s] # slots[s] => Cardinality(slots'[s]) <= MaxDevices[plan]]_limitsVars

\* Nothing stays locked for a downgrade that is over.
NothingForgotten == recon = "none" => Locked = {}

\* The types, and nothing is left locked: every claim, job, payment and answer
\* of the owner has to keep both.
LimitsInv == LimitsTypeOK /\ NothingForgotten

\* An owner who resolves or swaps stays inside with the device in use, unless
\* its slots ended meanwhile or its row in the store swapped in has expired
\* (validateSwap counts that row, restoreSlot does not bring it back).
OwnerStaysIn == [][ApplyCommits \/ SwapCommits =>
                      \A d \in resolver.in : d \in Inside' \/ \E s \in resolver.on : <<s, d>> \in expired]_limitsVars
=============================================================================
