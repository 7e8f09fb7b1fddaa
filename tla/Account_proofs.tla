--------------------------- MODULE Account_proofs ---------------------------
(***************************************************************************)
(* Proofs about the three models of an account on the server, each for     *)
(* every value of its constants:                                           *)
(*                                                                         *)
(*   SubscriptionGate  no cron takes away what was paid for or ends a      *)
(*                     subscription its owner kept, and the write gate is  *)
(*                     never further behind the row than a cache entry     *)
(*                     lives, even when every invalidation is lost;        *)
(*   PlanLimits        a resolution ends within the limits, claims never   *)
(*                     exceed the limit in force, nothing stays locked     *)
(*                     once a downgrade is over, and the owner who         *)
(*                     resolves or swaps stays inside;                     *)
(*   Membership        a deleted role leaves nobody behind, a snapshot of  *)
(*                     the live version tells the truth, a grant that was  *)
(*                     taken away is used no longer than the window of the *)
(*                     operation, and an invitation is decided once.       *)
(*                                                                         *)
(* The three share no variable; their names begin with Gate, Limits and    *)
(* Members where they would be the same.                                   *)
(***************************************************************************)
EXTENDS SubscriptionGate, PlanLimits, Membership, FiniteSetTheorems, TLAPS

(***************************************************************************)
(* SubscriptionGate                                                        *)
(***************************************************************************)

Requesting ==
  [pc : {"idle", "snap", "load", "fill", "decide", "refused", "accepted"},
   ver : Versions \cup {0}, snap : Rows]
Entries == [snap : Rows, ttl : 0 .. CacheTtl]

\* What the pointer names has been a version of the row, and a cached snapshot
\* that still lets writes through is at most as old as it has aged.
GateCacheOK ==
  /\ snaps \in [Versions -> Entries]
  /\ pointer.ver <= row.ver /\ (pointer.ttl > 0 => pointer.ver \in Versions)
  /\ \A v \in Versions : snaps[v].ttl > 0 /\ ~Refuses(snaps[v].snap) => closedFor + snaps[v].ttl <= CacheTtl

\* A request that has loaded a snapshot that lets it through has loaded it
\* since the row began to refuse, at most a life of an entry ago.
RequestOK(r) ==
  /\ gate[r].pc \in {"snap", "fill"} => gate[r].ver \in Versions
  /\ gate[r].pc = "fill" => gate[r].snap.ver = gate[r].ver /\ (~Refuses(gate[r].snap) => closedFor = 0)
  /\ gate[r].pc = "decide" => (~Refuses(gate[r].snap) => closedFor <= CacheTtl)
  /\ gate[r].pc = "accepted" => closedFor <= CacheTtl

RowOK ==
  /\ ~Refuses(row) => closedFor = 0
  /\ row.status = "active" /\ row.cancel => wish

GateIInv ==
  /\ GateTypeOK /\ gate \in [Requests -> Requesting]
  /\ GateCacheOK /\ (\A r \in Requests : RequestOK(r)) /\ RowOK
  /\ PaidStaysOpen /\ CancelledByWish
-----------------------------------------------------------------------------
\* The types the invariant gives.
LEMMA GateTypes ==
  ASSUME GateIInv
  PROVE  /\ row \in Rows /\ row.ver \in Versions /\ row.ver \in Nat /\ row.until \in Windows
         /\ ended \in Windows /\ ended \in Nat /\ claimed \subseteq Payments
         /\ picked \in Transitions \cup {"none"} /\ dels \in Nat
         /\ pointer \in [ver : Versions \cup {0}, ttl : 0 .. CacheTtl]
         /\ snaps \in [Versions -> Entries] /\ gate \in [Requests -> Requesting]
         /\ closedFor \in 0 .. CacheTtl + 1 /\ closedFor \in Nat /\ CacheTtl \in Nat
         /\ wish \in BOOLEAN /\ paidUntil \in Windows
BY GateAssumption DEF GateIInv, GateTypeOK, GateCacheOK, Rows, Versions, Windows

\* Before anybody has paid the invariant holds.
LEMMA GateInitInv == GateInit => GateIInv
<1> SUFFICES ASSUME GateInit PROVE GateIInv
  OBVIOUS
<1>1. row \in Rows /\ row.ver = 1 /\ row.status = "trialing" /\ row.cancel = FALSE
  BY GateAssumption DEF GateInit, Rows, Versions, Windows, Statuses
<1>2. /\ gate = [r \in Requests |-> [pc |-> "idle", ver |-> 0, snap |-> row]]
      /\ snaps = [v \in Versions |-> [snap |-> row, ttl |-> 0]]
      /\ pointer = [ver |-> 0, ttl |-> 0] /\ closedFor = 0 /\ ended = 0 /\ paidUntil = 0
      /\ claimed = {} /\ picked = "none" /\ dels = 0 /\ wish = FALSE
  BY DEF GateInit
<1>3. gate \in [Requests -> Requesting] /\ snaps \in [Versions -> Entries]
  BY <1>1, <1>2, GateAssumption DEF Requesting, Entries
<1>4. GateTypeOK
  <2>1. 0 \in Windows /\ closedFor \in 0 .. CacheTtl + 1 /\ pointer \in [ver : Versions \cup {0}, ttl : 0 .. CacheTtl]
    BY <1>2, GateAssumption DEF Windows, Versions
  <2>2. \A v \in Versions : snaps[v].ttl \in 0 .. CacheTtl /\ (snaps[v].ttl > 0 => snaps[v].snap.ver = v)
    BY <1>2, GateAssumption
  <2>3. \A r \in Requests : gate[r].ver <= row.ver /\ gate[r].snap \in Rows
    BY <1>1, <1>2
  <2> QED BY <1>1, <1>2, <2>1, <2>2, <2>3 DEF GateTypeOK
<1>5. GateCacheOK
  BY <1>1, <1>2, <1>3 DEF GateCacheOK
<1>6. \A r \in Requests : RequestOK(r)
  BY <1>2 DEF RequestOK
<1>7. RowOK /\ PaidStaysOpen /\ CancelledByWish
  BY <1>1, <1>2 DEF RowOK, PaidStaysOpen, CancelledByWish
<1> QED BY <1>3, <1>4, <1>5, <1>6, <1>7 DEF GateIInv

\* Every change of the row.  Requests and the cache know older versions, and
\* the time it has refused goes on or ends.
LEMMA ChangesInv ==
  ASSUME GateIInv, NEW new \in Rows, NEW bumps \in Nat \ {0}, Changes(new, bumps),
         UNCHANGED <<ended, pointer, snaps, gate>>,
         claimed' \subseteq Payments, picked' \in Transitions \cup {"none"},
         wish' \in BOOLEAN, paidUntil' \in Windows,
         new.status = "active" /\ new.cancel => wish',
         new.status = "cancelled" => wish',
         paidUntil' > ended => new.status = "active" /\ new.until = paidUntil'
  PROVE  GateIInv'
<1>1. /\ row' = [new EXCEPT !.ver = row.ver + bumps] /\ dels' = dels + 1
      /\ closedFor' = IF Refuses(new) THEN closedFor ELSE 0
      /\ row.ver + bumps <= MaxChanges
  BY DEF Changes
<1>2. row.ver + bumps \in Versions /\ row.ver + bumps > row.ver
  BY <1>1, GateTypes, GateAssumption DEF Versions
<1>3. /\ row' \in Rows /\ row'.ver = row.ver + bumps /\ row'.status = new.status
      /\ row'.cancel = new.cancel /\ row'.until = new.until /\ row'.recon = new.recon
  BY <1>1, <1>2 DEF Rows
<1>4. Refuses(row)' <=> Refuses(new)
  BY <1>3 DEF Refuses, Over
<1>5. closedFor' \in 0 .. CacheTtl + 1 /\ closedFor' <= closedFor
  BY <1>1, GateTypes
<1>6. GateTypeOK'
  <2>1. \A r \in Requests : gate[r].ver <= row'.ver /\ gate[r].snap \in Rows
    <3> TAKE r \in Requests
    <3>1. gate[r] \in Requesting /\ gate[r].ver <= row.ver
      BY GateTypes DEF GateIInv, GateTypeOK
    <3>2. gate[r].ver \in Nat /\ gate[r].snap \in Rows
      BY <3>1 DEF Requesting, Versions
    <3>3. row.ver \in Nat /\ row'.ver \in Nat /\ row.ver <= row'.ver
      BY <1>2, <1>3, GateTypes
    <3> QED BY <3>1, <3>2, <3>3
  <2>2. \A v \in Versions : snaps[v].ttl \in 0 .. CacheTtl /\ (snaps[v].ttl > 0 => snaps[v].snap.ver = v)
    BY DEF GateIInv, GateTypeOK
  <2>3. /\ row' \in Rows /\ ended' \in Windows /\ claimed' \subseteq Payments
        /\ picked' \in Transitions \cup {"none"} /\ dels' \in Nat
        /\ pointer' \in [ver : Versions \cup {0}, ttl : 0 .. CacheTtl]
    BY <1>1, <1>3, GateTypes
  <2>4. snaps' = snaps /\ gate' = gate
    OBVIOUS
  <2>5. \A r \in Requests : gate'[r].ver <= row'.ver /\ gate'[r].snap \in Rows
    BY <2>1, <2>4
  <2>6. \A v \in Versions : snaps'[v].ttl \in 0 .. CacheTtl /\ (snaps'[v].ttl > 0 => snaps'[v].snap.ver = v)
    BY <2>2, <2>4
  <2> QED BY <1>5, <2>3, <2>5, <2>6 DEF GateTypeOK
<1>7. GateCacheOK'
  <2>1. pointer.ver \in Nat /\ pointer.ver <= row'.ver
    BY <1>2, <1>3, GateTypes DEF GateIInv, GateCacheOK, Versions
  <2>2. ASSUME NEW v \in Versions, snaps[v].ttl > 0, ~Refuses(snaps[v].snap)'
        PROVE  closedFor' + snaps[v].ttl <= CacheTtl
    <3>1. ~Refuses(snaps[v].snap)
      BY <2>2 DEF Refuses, Over
    <3>2. closedFor + snaps[v].ttl <= CacheTtl /\ snaps[v].ttl \in Nat /\ closedFor' \in Nat
      BY <1>5, <2>2, <3>1, GateTypes DEF GateIInv, GateCacheOK, Entries
    <3> QED BY <1>5, <3>2, GateTypes
  <2> QED BY <2>1, <2>2, GateTypes DEF GateIInv, GateCacheOK, Versions, Entries, Rows
<1>8. (\A r \in Requests : RequestOK(r))'
  <2> SUFFICES ASSUME NEW r \in Requests PROVE RequestOK(r)'
    OBVIOUS
  <2>1. RequestOK(r)
    BY DEF GateIInv
  <2>2. Refuses(gate[r].snap)' <=> Refuses(gate[r].snap)
    BY DEF Refuses, Over
  <2> QED BY <1>5, <2>1, <2>2, GateTypes DEF RequestOK, Versions
<1>9. RowOK' /\ PaidStaysOpen' /\ CancelledByWish'
  BY <1>1, <1>3, <1>4 DEF RowOK, PaidStaysOpen, CancelledByWish
<1> QED BY <1>6, <1>7, <1>8, <1>9, GateTypes DEF GateIInv, Requesting, Versions, Rows, Windows

\* A payment is captured.
LEMMA GateActivateInv ==
  ASSUME GateIInv, NEW p \in Payments, NEW w \in Windows, NEW over \in BOOLEAN, Activate(p, w, over)
  PROVE  GateIInv'
<1>1. /\ w > ended /\ claimed' \subseteq Payments /\ wish' = FALSE /\ paidUntil' = w
      /\ UNCHANGED <<ended, picked, pointer, snaps, gate>>
  BY GateTypes DEF Activate, cache
<1>2. PICK new, bumps : /\ Changes(new, bumps) /\ bumps \in {1, 2}
                        /\ \E x \in {"none", "pending"} : new = [Paid(w) EXCEPT !.recon = x] \/ (row.recon = "none" /\ new = Paid(w))
  BY DEF Activate
<1>3. Paid(w) \in Rows /\ Paid(w).status = "active" /\ Paid(w).cancel = FALSE /\ Paid(w).until = w
  BY GateTypes DEF Paid, Rows, Statuses
<1>4. new \in Rows /\ new.status = "active" /\ new.cancel = FALSE /\ new.until = w
  BY <1>2, <1>3 DEF Rows
<1>5. /\ new.status = "active" /\ new.cancel => wish'
      /\ new.status = "cancelled" => wish'
      /\ paidUntil' > ended => new.status = "active" /\ new.until = paidUntil'
  BY <1>1, <1>4
<1>6. paidUntil' \in Windows /\ picked' \in Transitions \cup {"none"} /\ bumps \in Nat \ {0}
  <2>1. bumps \in {1, 2}
    BY <1>2
  <2> QED BY <1>1, <2>1, GateTypes
<1>7. wish' \in BOOLEAN
  BY <1>1
<1> QED BY <1>1, <1>2, <1>4, <1>5, <1>6, <1>7, ChangesInv

\* The owner cancels, or takes it back.
LEMMA OwnerInv == ASSUME GateIInv, Cancel \/ Reactivate PROVE GateIInv'
<1>1. CASE Cancel
  <2>1. PICK new : new = [row EXCEPT !.cancel = TRUE]
    OBVIOUS
  <2>2. new \in Rows /\ new.status = "active" /\ new.until = row.until
    BY <1>1, <2>1, GateTypes DEF Rows, Cancel
  <2>3. Changes(new, 1) /\ wish' = TRUE /\ UNCHANGED <<ended, claimed, picked, pointer, snaps, gate, paidUntil>> /\ row.status = "active"
    BY <1>1, <2>1 DEF Cancel, cache
  <2>4. paidUntil > ended => row.until = paidUntil
    BY DEF GateIInv, PaidStaysOpen
  <2>5. /\ new.status = "active" /\ new.cancel => wish'
        /\ new.status = "cancelled" => wish'
        /\ paidUntil' > ended => new.status = "active" /\ new.until = paidUntil'
    BY <2>2, <2>3, <2>4
  <2>6. paidUntil' \in Windows /\ picked' \in Transitions \cup {"none"} /\ claimed' \subseteq Payments
    BY <2>3, GateTypes
  <2>7. wish' \in BOOLEAN
    BY <2>3
  <2> QED BY <2>2, <2>3, <2>5, <2>6, <2>7, ChangesInv
<1>2. CASE Reactivate
  <2>1. PICK new : new = [row EXCEPT !.cancel = FALSE]
    OBVIOUS
  <2>2. new \in Rows /\ new.status = "active" /\ new.until = row.until /\ new.cancel = FALSE
    BY <1>2, <2>1, GateTypes DEF Rows, Reactivate
  <2>3. Changes(new, 1) /\ wish' = FALSE /\ UNCHANGED <<ended, claimed, picked, pointer, snaps, gate, paidUntil>>
    BY <1>2, <2>1 DEF Reactivate, cache
  <2>4. paidUntil > ended => row.until = paidUntil
    BY DEF GateIInv, PaidStaysOpen
  <2>5. /\ new.status = "active" /\ new.cancel => wish'
        /\ new.status = "cancelled" => wish'
        /\ paidUntil' > ended => new.status = "active" /\ new.until = paidUntil'
    BY <1>2, <2>1, <2>2, <2>3, <2>4
  <2>6. paidUntil' \in Windows /\ picked' \in Transitions \cup {"none"} /\ claimed' \subseteq Payments
    BY <2>3, GateTypes
  <2>7. wish' \in BOOLEAN
    BY <2>3
  <2> QED BY <2>2, <2>3, <2>5, <2>6, <2>7, ChangesInv
<1> QED BY <1>1, <1>2

\* A resolution is applied.
LEMMA ResolveInv == ASSUME GateIInv, Resolve PROVE GateIInv'
<1>1. PICK new : new = [row EXCEPT !.recon = "applied"]
  OBVIOUS
<1>2. new \in Rows /\ new.status = row.status /\ new.cancel = row.cancel /\ new.until = row.until
  BY <1>1, GateTypes DEF Rows
<1>3. Changes(new, 1) /\ UNCHANGED <<ended, claimed, picked, pointer, snaps, gate, wish, paidUntil>>
  BY <1>1 DEF Resolve, cache
<1>4. /\ paidUntil > ended => row.status = "active" /\ row.until = paidUntil
      /\ row.status = "cancelled" => wish
      /\ row.status = "active" /\ row.cancel => wish
  BY DEF GateIInv, PaidStaysOpen, CancelledByWish, RowOK
<1> QED BY <1>2, <1>3, <1>4, GateTypes, ChangesInv

\* The cron moves the row on: its UPDATE matches again, so the window is over
\* and no payment has opened another one.
LEMMA CronUpdatesInv == ASSUME GateIInv, CronUpdates PROVE GateIInv'
<1>1. PICK new : new = Moved(picked)
  OBVIOUS
<1>2. /\ picked \in Transitions /\ Over(row) /\ new.until <= MaxWindow
      /\ Changes(new, 1) /\ picked' = "none"
      /\ UNCHANGED <<ended, claimed, pointer, snaps, gate, wish, paidUntil>>
      /\ picked = "cancelled" => row.status = "active" /\ row.cancel
      /\ picked = "trial_ended" => row.status = "trialing"
      /\ picked = "past_due" => row.status = "active" /\ ~row.cancel
      /\ picked = "grace_ended" => row.status = "past_due"
  BY <1>1, GateTypes DEF CronUpdates, StillMatches, Matches, cache, Transitions
<1>3. ~(paidUntil > ended)
  BY <1>2, GateTypes DEF GateIInv, PaidStaysOpen, Over, Windows
<1>4. row.status = "active" /\ row.cancel => wish
  BY DEF GateIInv, RowOK
<1>5. new \in Rows /\ new.status # "active" /\ (new.status = "cancelled" => wish')
  <2>1. CASE picked = "cancelled"
    BY <1>1, <1>2, <1>4, <2>1, GateTypes DEF Moved, Rows, Statuses
  <2>2. CASE picked = "past_due"
    <3>1. new = [row EXCEPT !.status = "past_due", !.until = ended + 1]
      BY <1>1, <2>2 DEF Moved
    <3>2. new.until = ended + 1 /\ ended + 1 \in Windows
      BY <1>2, <3>1, GateTypes DEF Rows, Windows
    <3> QED BY <3>1, <3>2, GateTypes DEF Rows, Statuses
  <2>3. CASE picked \in {"trial_ended", "grace_ended"}
    <3>1. new = [row EXCEPT !.status = "expired"]
      BY <1>1, <2>3 DEF Moved
    <3> QED BY <3>1, GateTypes DEF Rows, Statuses
  <2> QED BY <1>2, <2>1, <2>2, <2>3 DEF Transitions
<1> QED BY <1>2, <1>3, <1>5, GateTypes, ChangesInv
-----------------------------------------------------------------------------
\* Steps that leave the row and the cache alone: what the cron has selected,
\* invalidations, windows that end.
LEMMA GateQuietInv ==
  ASSUME GateIInv, UNCHANGED <<row, snaps, gate, closedFor, wish, paidUntil, claimed>>,
         ended' \in Windows, ended' >= ended, dels' \in Nat, picked' \in Transitions \cup {"none"},
         pointer' = pointer \/ pointer' = [ver |-> 0, ttl |-> 0]
  PROVE  GateIInv'
<1>1. Over(row) => Over(row)'
  BY GateTypes DEF Over, Windows
<1>2. \A x : Refuses(x) => (x.until \in Nat => (x.status = "expired" \/ x.until <= ended' \/ x.recon = "pending"))
  BY GateTypes DEF Refuses, Over, Windows
<1>3. /\ pointer' \in [ver : Versions \cup {0}, ttl : 0 .. CacheTtl] /\ pointer'.ver <= row.ver
      /\ pointer'.ttl > 0 => pointer'.ver \in Versions
  BY GateTypes, GateAssumption DEF GateIInv, GateCacheOK
<1>4. GateTypeOK'
  BY <1>3 DEF GateIInv, GateTypeOK
<1>5. GateCacheOK'
  <2>1. ASSUME NEW v \in Versions, snaps[v].ttl > 0, ~Refuses(snaps[v].snap)'
        PROVE  closedFor + snaps[v].ttl <= CacheTtl
    <3>1. snaps[v].snap.until \in Nat
      BY GateTypes DEF Entries, Rows, Windows
    <3>2. ~Refuses(snaps[v].snap)
      BY <1>2, <2>1, <3>1 DEF Refuses, Over
    <3> QED BY <2>1, <3>2 DEF GateIInv, GateCacheOK
  <2> QED BY <1>3, <2>1 DEF GateIInv, GateCacheOK
<1>6. (\A r \in Requests : RequestOK(r))'
  <2> SUFFICES ASSUME NEW r \in Requests PROVE RequestOK(r)'
    OBVIOUS
  <2>1. RequestOK(r) /\ gate[r].snap.until \in Nat
    BY GateTypes DEF GateIInv, Requesting, Rows, Windows
  <2>2. ~Refuses(gate[r].snap)' => ~Refuses(gate[r].snap)
    BY <1>2, <2>1 DEF Refuses, Over
  <2> QED BY <2>1, <2>2 DEF RequestOK
<1>7. RowOK'
  <2>1. row.until \in Nat
    BY GateTypes DEF Windows
  <2>2. ~Refuses(row)' => ~Refuses(row)
    BY <1>2, <2>1 DEF Refuses, Over
  <2> QED BY <2>2 DEF GateIInv, RowOK
<1>8. PaidStaysOpen' /\ CancelledByWish'
  BY GateTypes DEF GateIInv, PaidStaysOpen, CancelledByWish, Windows
<1> QED BY <1>4, <1>5, <1>6, <1>7, <1>8, GateTypes DEF GateIInv, Requesting, Versions, Rows, Windows

\* A window of access ends: what was refused stays refused.
LEMMA EndWindowInv == ASSUME GateIInv, EndWindow PROVE GateIInv'
<1>1. ended' = ended + 1 /\ ended < row.until
  BY DEF EndWindow
<1>2. ended' \in Windows /\ ended' >= ended
  BY <1>1, GateTypes, GateAssumption DEF Windows
<1> QED BY <1>2, GateTypes, GateQuietInv DEF EndWindow, cache

\* The same payment again, the cron's selection, and invalidations that are
\* sent or lost.
LEMMA QuietSteps ==
  ASSUME GateIInv,
         (\E p \in Payments : ActivateAgain(p)) \/ (\E t \in Transitions : CronSelects(t)) \/ CronSkips
            \/ Invalidate \/ GateInvalidationLost
  PROVE  GateIInv'
<1>1. UNCHANGED <<row, snaps, gate, closedFor, wish, paidUntil, claimed, ended>>
  BY DEF ActivateAgain, CronSelects, CronSkips, Invalidate, GateInvalidationLost, cache
<1>2. dels' \in Nat /\ picked' \in Transitions \cup {"none"}
  BY GateTypes DEF ActivateAgain, CronSelects, CronSkips, Invalidate, GateInvalidationLost
<1>3. pointer' = pointer \/ pointer' = [ver |-> 0, ttl |-> 0]
  BY DEF ActivateAgain, CronSelects, CronSkips, Invalidate, GateInvalidationLost, cache
<1>4. ended' \in Windows /\ ended' >= ended
  BY <1>1, GateTypes
<1> QED BY <1>1, <1>2, <1>3, <1>4, GateQuietInv

\* A step of one request.  What it knows comes from the row, or from an entry.
LEMMA GateRequestInv ==
  ASSUME GateIInv, NEW r \in Requests, NEW q \in Requesting, gate' = [gate EXCEPT ![r] = q],
         UNCHANGED <<row, ended, claimed, picked, dels, closedFor, wish, paidUntil>>,
         pointer' \in [ver : Versions \cup {0}, ttl : 0 .. CacheTtl], q.ver <= row.ver,
         \A v \in Versions : snaps'[v].ttl > 0 => snaps'[v].snap.ver = v,
         GateCacheOK', RequestOK(r)'
  PROVE  GateIInv'
<1>1. gate' \in [Requests -> Requesting] /\ gate'[r] = q /\ \A s \in Requests \ {r} : gate'[s] = gate[s]
  BY GateTypes
<1>2. GateTypeOK'
  <2>1. \A v \in Versions : snaps'[v].ttl \in 0 .. CacheTtl
    BY DEF GateCacheOK, Entries, Versions
  <2>2. \A s \in Requests : gate'[s].ver <= row.ver /\ gate'[s].snap \in Rows
    BY <1>1 DEF GateIInv, GateTypeOK, Requesting
  <2> QED BY <2>1, <2>2, GateTypes DEF GateTypeOK, Versions, Windows, Rows
<1>3. ASSUME NEW s \in Requests PROVE RequestOK(s)'
  <2>1. CASE s = r
    BY <2>1
  <2>2. CASE s # r
    <3>1. RequestOK(s) /\ gate'[s] = gate[s]
      BY <1>1, <2>2 DEF GateIInv
    <3> QED BY <3>1 DEF RequestOK, Refuses, Over, Versions
  <2> QED BY <2>1, <2>2
<1>4. RowOK' /\ PaidStaysOpen' /\ CancelledByWish'
  BY DEF GateIInv, RowOK, PaidStaysOpen, CancelledByWish, Refuses, Over
<1> QED BY <1>1, <1>2, <1>3, <1>4 DEF GateIInv, Requesting, Versions, Rows, Windows

\* A step of a request that reads: the cache stays as it is.
LEMMA GateReadInv ==
  ASSUME GateIInv, NEW r \in Requests, NEW pc, NEW v, NEW kept, GateGoes(r, pc, v, kept), UNCHANGED cache,
         pc \in {"idle", "snap", "load", "fill", "decide", "refused", "accepted"},
         v \in Versions \cup {0}, v <= row.ver, kept \in Rows,
         pc \in {"snap", "fill"} => v \in Versions,
         pc = "fill" => kept.ver = v /\ (~Refuses(kept) => closedFor = 0),
         pc = "decide" => (~Refuses(kept) => closedFor <= CacheTtl),
         pc = "accepted" => closedFor <= CacheTtl
  PROVE  GateIInv'
<1>1. PICK q : q = [pc |-> pc, ver |-> v, snap |-> kept]
  OBVIOUS
<1>2. q \in Requesting /\ q.pc = pc /\ q.ver = v /\ q.snap = kept
  BY <1>1 DEF Requesting
<1>3. /\ gate' = [gate EXCEPT ![r] = q] /\ UNCHANGED <<pointer, snaps>>
      /\ UNCHANGED <<row, ended, claimed, picked, dels, closedFor, wish, paidUntil>>
  BY <1>1 DEF GateGoes, cache
<1>4. gate'[r] = q
  BY <1>3, GateTypes
<1>5. RequestOK(r)'
  BY <1>2, <1>3, <1>4 DEF RequestOK, Refuses, Over, Versions
<1>6. GateCacheOK'
  BY <1>3 DEF GateIInv, GateCacheOK, Refuses, Over, Versions, Entries, Rows, Windows
<1>7. \A x \in Versions : snaps'[x].ttl > 0 => snaps'[x].snap.ver = x
  BY <1>3 DEF GateIInv, GateTypeOK
<1>8. pointer' \in [ver : Versions \cup {0}, ttl : 0 .. CacheTtl]
  BY <1>3, GateTypes
<1> QED BY <1>2, <1>3, <1>5, <1>6, <1>7, <1>8, GateRequestInv

\* The gate asks for the version: the pointer, or a load.
LEMMA GatePointerInv == ASSUME GateIInv, NEW r \in Requests, GatePointer(r) PROVE GateIInv'
<1>1. CASE pointer.ttl > 0
  <2>1. GateGoes(r, "snap", pointer.ver, row) /\ UNCHANGED cache
    BY <1>1 DEF GatePointer
  <2>2. pointer.ver \in Versions /\ pointer.ver <= row.ver
    BY <1>1 DEF GateIInv, GateCacheOK
  <2> QED BY <2>1, <2>2, GateTypes, GateReadInv
<1>2. CASE ~(pointer.ttl > 0)
  <2>1. GateGoes(r, "load", 0, row) /\ UNCHANGED cache
    BY <1>2 DEF GatePointer
  <2>2. 0 \in Versions \cup {0} /\ 0 <= row.ver
    BY GateTypes
  <2> QED BY <2>1, <2>2, GateTypes, GateReadInv
<1> QED BY <1>1, <1>2

\* The snapshot under the version the pointer named, if it is still there.
LEMMA GateSnapshotInv == ASSUME GateIInv, NEW r \in Requests, GateSnapshot(r) PROVE GateIInv'
<1>1. PICK v, e : v = gate[r].ver /\ e = snaps[gate[r].ver]
  OBVIOUS
<1>2. v \in Versions /\ v <= row.ver /\ e \in Entries /\ gate[r].pc = "snap"
  BY <1>1, GateTypes DEF GateIInv, GateTypeOK, RequestOK, GateSnapshot, GateAt
<1>3. UNCHANGED cache
  BY DEF GateSnapshot
<1>4. CASE e.ttl > 0
  <2>1. GateGoes(r, "decide", v, e.snap)
    BY <1>1, <1>4 DEF GateSnapshot
  <2>2. ~Refuses(e.snap) => closedFor + e.ttl <= CacheTtl
    BY <1>1, <1>2, <1>4 DEF GateIInv, GateCacheOK
  <2>3. e.snap \in Rows /\ e.ttl \in Nat
    BY <1>2, GateTypes DEF Entries
  <2>4. ~Refuses(e.snap) => closedFor <= CacheTtl
    BY <2>2, <2>3, GateTypes
  <2> QED BY <1>2, <1>3, <2>1, <2>3, <2>4, GateReadInv
<1>5. CASE ~(e.ttl > 0)
  <2>1. GateGoes(r, "load", 0, row)
    BY <1>1, <1>5 DEF GateSnapshot
  <2>2. 0 \in Versions \cup {0} /\ 0 <= row.ver
    BY GateTypes
  <2> QED BY <1>3, <2>1, <2>2, GateTypes, GateReadInv
<1> QED BY <1>4, <1>5

\* The row itself: it has just been read.
LEMMA GateLoadInv == ASSUME GateIInv, NEW r \in Requests, GateLoad(r) PROVE GateIInv'
<1>1. GateGoes(r, "fill", row.ver, row) /\ UNCHANGED cache
  BY DEF GateLoad
<1>2. (~Refuses(row) => closedFor = 0) /\ row.ver <= row.ver
  BY GateTypes DEF GateIInv, RowOK
<1> QED BY <1>1, <1>2, GateTypes, GateReadInv

\* The decision: let through only on a snapshot that is young enough.
LEMMA GateDecideInv == ASSUME GateIInv, NEW r \in Requests, GateDecide(r) PROVE GateIInv'
<1>1. 0 \in Versions \cup {0} /\ 0 <= row.ver /\ UNCHANGED cache
  BY GateTypes DEF GateDecide
<1>2. CASE Refuses(gate[r].snap)
  <2>1. GateGoes(r, "refused", 0, row)
    BY <1>2 DEF GateDecide
  <2> QED BY <1>1, <2>1, GateTypes, GateReadInv
<1>3. CASE ~Refuses(gate[r].snap)
  <2>1. GateGoes(r, "accepted", 0, row)
    BY <1>3 DEF GateDecide
  <2>2. closedFor <= CacheTtl
    BY <1>3 DEF GateIInv, RequestOK, GateDecide, GateAt
  <2> QED BY <1>1, <2>1, <2>2, GateTypes, GateReadInv
<1> QED BY <1>2, <1>3

\* The request ends.
LEMMA GateEndInv == ASSUME GateIInv, NEW r \in Requests, GateEnd(r) PROVE GateIInv'
<1>1. 0 \in Versions \cup {0} /\ 0 <= row.ver /\ GateGoes(r, "idle", 0, row) /\ UNCHANGED cache
  BY GateTypes DEF GateEnd
<1> QED BY <1>1, GateTypes, GateReadInv

\* The gate fills the cache: an entry that lets writes through starts its life
\* while the row has not refused for a tick.
LEMMA GateFillInv == ASSUME GateIInv, NEW r \in Requests, GateFill(r) PROVE GateIInv'
<1>1. PICK v, kept, e, q : /\ v = gate[r].ver /\ kept = gate[r].snap /\ e = [snap |-> kept, ttl |-> CacheTtl]
                           /\ q = [pc |-> "decide", ver |-> v, snap |-> kept]
  OBVIOUS
<1>2. gate[r].pc = "fill" /\ gate[r] \in Requesting
  BY GateTypes DEF GateFill, GateAt
<1>3. v \in Versions /\ kept \in Rows /\ kept.ver = v /\ (~Refuses(kept) => closedFor = 0) /\ v <= row.ver
  BY <1>1, <1>2 DEF GateIInv, GateTypeOK, RequestOK, Requesting
<1>4. /\ gate' = [gate EXCEPT ![r] = q] /\ snaps' = [snaps EXCEPT ![v] = e] /\ pointer' = [ver |-> v, ttl |-> CacheTtl]
      /\ UNCHANGED <<row, ended, claimed, picked, dels, closedFor, wish, paidUntil>>
  BY <1>1 DEF GateFill, GateGoes, Key
<1>5. e \in Entries /\ e.snap = kept /\ e.ttl = CacheTtl
  BY <1>1, <1>3, GateTypes DEF Entries
<1>6. q \in Requesting /\ q.pc = "decide" /\ q.ver = v /\ q.snap = kept
  BY <1>1, <1>3 DEF Requesting
<1>7. gate'[r] = q /\ snaps'[v] = e /\ snaps' \in [Versions -> Entries] /\ \A x \in Versions \ {v} : snaps'[x] = snaps[x]
  BY <1>3, <1>4, <1>5, GateTypes
<1>8. GateCacheOK'
  <2>1. ASSUME NEW x \in Versions, snaps'[x].ttl > 0, ~Refuses(snaps'[x].snap)
        PROVE  closedFor + snaps'[x].ttl <= CacheTtl
    <3>1. CASE x = v
      BY <1>3, <1>5, <1>7, <2>1, <3>1, GateTypes
    <3>2. CASE x # v
      BY <1>7, <2>1, <3>2 DEF GateIInv, GateCacheOK
    <3> QED BY <3>1, <3>2
  <2>2. pointer'.ver = v /\ pointer'.ttl = CacheTtl
    BY <1>4
  <2>3. \A x : Refuses(x)' <=> Refuses(x)
    BY <1>4 DEF Refuses, Over
  <2>4. \A x \in Versions : snaps'[x].ttl > 0 /\ ~Refuses(snaps[x].snap)' => closedFor' + snaps'[x].ttl <= CacheTtl
    BY <1>4, <2>1 DEF Refuses, Over
  <2> QED BY <1>3, <1>4, <1>7, <2>2, <2>4 DEF GateCacheOK, Versions, Entries, Rows, Windows
<1>9. RequestOK(r)'
  BY <1>3, <1>4, <1>6, <1>7, GateTypes DEF RequestOK, Refuses, Over
<1>10. \A x \in Versions : snaps'[x].ttl > 0 => snaps'[x].snap.ver = x
  BY <1>3, <1>5, <1>7 DEF GateIInv, GateTypeOK
<1>11. pointer' \in [ver : Versions \cup {0}, ttl : 0 .. CacheTtl] /\ q.ver <= row.ver
  BY <1>3, <1>4, <1>6, GateTypes
<1> QED BY <1>4, <1>6, <1>8, <1>9, <1>10, <1>11, GateRequestInv

\* Time passes: entries age as fast as the row goes on refusing.
LEMMA GateTickInv == ASSUME GateIInv, GateTick PROVE GateIInv'
<1>1. /\ pointer' = [pointer EXCEPT !.ttl = Aged(@)]
      /\ snaps' = [v \in Versions |-> [snaps[v] EXCEPT !.ttl = Aged(@)]]
      /\ UNCHANGED <<row, ended, claimed, picked, dels, gate, wish, paidUntil>>
      /\ closedFor' = IF ~Refuses(row) THEN 0 ELSE IF closedFor > CacheTtl THEN closedFor ELSE closedFor + 1
      /\ \A r \in Requests : gate[r].pc = "idle"
  BY DEF GateTick, GateAt
<1>2. \A n \in 0 .. CacheTtl : Aged(n) \in 0 .. CacheTtl /\ (Aged(n) > 0 => Aged(n) = n - 1 /\ n > 0)
  BY GateTypes DEF Aged
<1>3. /\ pointer' \in [ver : Versions \cup {0}, ttl : 0 .. CacheTtl] /\ pointer'.ver = pointer.ver
      /\ pointer'.ttl > 0 => pointer.ttl > 0
  BY <1>1, <1>2, GateTypes
<1>4. ASSUME NEW v \in Versions
      PROVE  /\ snaps'[v] \in Entries /\ snaps'[v].snap = snaps[v].snap
             /\ snaps'[v].ttl > 0 => snaps[v].ttl > 0 /\ snaps'[v].ttl = snaps[v].ttl - 1
  <2>1. snaps[v] \in Entries
    BY GateTypes
  <2>2. snaps'[v] = [snaps[v] EXCEPT !.ttl = Aged(snaps[v].ttl)]
    BY <1>1
  <2> QED BY <1>2, <2>1, <2>2 DEF Entries
<1>5. snaps' \in [Versions -> Entries]
  BY <1>1, <1>4
<1>6. closedFor' \in 0 .. CacheTtl + 1 /\ closedFor' <= closedFor + 1
  BY <1>1, GateTypes
<1>7. GateTypeOK'
  <2>1. \A v \in Versions : snaps'[v].ttl \in 0 .. CacheTtl /\ (snaps'[v].ttl > 0 => snaps'[v].snap.ver = v)
    BY <1>4 DEF GateIInv, GateTypeOK, Entries
  <2> QED BY <1>1, <1>3, <1>6, <2>1 DEF GateIInv, GateTypeOK
<1>8. GateCacheOK'
  <2>1. ASSUME NEW v \in Versions, snaps'[v].ttl > 0, ~Refuses(snaps[v].snap)
        PROVE  closedFor' + snaps'[v].ttl <= CacheTtl
    <3>1. closedFor + snaps[v].ttl <= CacheTtl /\ snaps[v].ttl \in Nat
      BY <1>4, <2>1, GateTypes DEF GateIInv, GateCacheOK, Entries
    <3> QED BY <1>4, <1>6, <2>1, <3>1, GateTypes
  <2>2. \A v \in Versions : ~Refuses(snaps[v].snap)' => ~Refuses(snaps[v].snap)
    BY <1>1, <1>4 DEF Refuses, Over
  <2>3. \A v \in Versions : snaps'[v].ttl > 0 /\ ~Refuses(snaps[v].snap)' => closedFor' + snaps'[v].ttl <= CacheTtl
    BY <2>1, <2>2
  <2> QED BY <1>1, <1>3, <1>5, <2>3 DEF GateIInv, GateCacheOK, Versions, Entries, Rows, Windows
<1>9. (\A r \in Requests : RequestOK(r))'
  BY <1>1 DEF RequestOK
<1>10. RowOK' /\ PaidStaysOpen' /\ CancelledByWish'
  BY <1>1 DEF GateIInv, RowOK, PaidStaysOpen, CancelledByWish, Refuses, Over
<1> QED BY <1>1, <1>7, <1>8, <1>9, <1>10, GateTypes DEF GateIInv, Requesting, Versions, Rows, Windows
-----------------------------------------------------------------------------
\* Every step keeps the invariant.
LEMMA GateNextInv == GateIInv /\ [GateNext]_gateVars => GateIInv'
<1> SUFFICES ASSUME GateIInv, [GateNext]_gateVars PROVE GateIInv'
  OBVIOUS
<1>1. CASE CronStep
  BY <1>1, CronUpdatesInv, QuietSteps DEF CronStep
<1>2. CASE \E p \in Payments : ActivateAgain(p) \/ \E w \in Windows, over \in BOOLEAN : Activate(p, w, over)
  BY <1>2, GateActivateInv, QuietSteps
<1>3. ASSUME NEW r \in Requests, GateStep(r) PROVE GateIInv'
  BY <1>3, GatePointerInv, GateSnapshotInv, GateLoadInv, GateFillInv, GateDecideInv, GateEndInv DEF GateStep
<1>4. CASE EndWindow
  BY <1>4, EndWindowInv
<1>5. CASE Cancel \/ Reactivate
  BY <1>5, OwnerInv
<1>6. CASE Resolve
  BY <1>6, ResolveInv
<1>7. CASE Invalidate \/ GateInvalidationLost
  BY <1>7, QuietSteps
<1>8. CASE GateTick
  BY <1>8, GateTickInv
<1>9. CASE UNCHANGED gateVars
  <2>1. UNCHANGED <<row, ended, claimed, picked, dels, pointer, snaps, gate, closedFor, wish, paidUntil>>
    BY <1>9 DEF gateVars
  <2>2. ended' \in Windows /\ ended' >= ended /\ dels' \in Nat /\ picked' \in Transitions \cup {"none"} /\ pointer' = pointer
    BY <2>1, GateTypes
  <2> QED BY <2>1, <2>2, GateQuietInv
<1> QED BY <1>1, <1>2, <1>3, <1>4, <1>5, <1>6, <1>7, <1>8, <1>9 DEF GateNext

\* The invariant holds in every reachable state.
THEOREM GateInvariant == GateSpec => []GateIInv
BY GateInitInv, GateNextInv, PTL DEF GateSpec

\* A window that was paid for stays open to its end, whatever the cron had
\* selected when the payment came, and an account ends as cancelled only when
\* its owner asked for it.
THEOREM PaidAndWished == GateSpec => []GateInv
<1>1. GateIInv => GateInv
  BY DEF GateIInv, GateInv
<1> QED BY GateInvariant, <1>1, PTL

\* A write is let through only if the row allowed it within the life of a
\* cache entry, also when invalidations are lost or overtaken by fills.
THEOREM TheGateCatchesUp == GateSpec => []GateCatchesUp
<1>1. GateIInv => GateCatchesUp
  BY DEF GateIInv, RequestOK, GateCatchesUp, GateAt
<1> QED BY GateInvariant, <1>1, PTL

(***************************************************************************)
(* PlanLimits                                                              *)
(***************************************************************************)

Creates == [pc : {"idle", "gate", "insert"}, store : Stores \cup {"none"}]
Resolvers == [pc : {"idle", "apply", "swap"}, on : SUBSET Stores, off : SUBSET Stores,
              kept : SUBSET Pairs, seen : SUBSET Pairs, in : SUBSET Devices]

\* The bound on revoked rows leaves room for the row of an active slot.
RowsOK(p) == Len(old[p]) <= MaxRows /\ (p \in Held => Len(old[p]) < MaxRows)

CreateOK == create.pc = "insert" => create.store \in Stores /\ store[create.store] = "none"

\* The devices a store has once what apply has read is revoked.
SlotsLeft(s) == {d \in slots[s] : <<s, d>> \notin resolver.seen}

\* Between reading and writing: what apply keeps and locks is still what is
\* active, what is left in every store fits, and so does the owner's device.
ApplyOK == resolver.pc = "apply" =>
  /\ resolver.on \cap resolver.off = {} /\ resolver.on \cup resolver.off = Active
  /\ Cardinality(resolver.on) <= MaxStores[plan]
  /\ \A s \in resolver.on : Cardinality(SlotsLeft(s)) <= MaxDevices[plan]
  /\ \A d \in resolver.in : \E s \in resolver.on : d \in SlotsLeft(s)

\* A swap exchanges an active store for a locked one; the owner's device has a
\* slot elsewhere, or is kept and known in the store that comes back.
SwapOK == resolver.pc = "swap" =>
  /\ recon # "none" /\ resolver.off \subseteq Active /\ resolver.on \subseteq Locked
  /\ \A p \in resolver.kept \cup resolver.seen : p[1] \in resolver.on
  /\ resolver.kept \cap resolver.seen = {}
  /\ \A d \in resolver.in :
        \/ \E s \in Active \ resolver.off : d \in slots[s]
        \/ \E s \in resolver.on : <<s, d>> \in resolver.kept /\ d \in KnownDevices(s)

LimitsIInv ==
  /\ LimitsTypeOK /\ old \in [Pairs -> Seq(Reasons)] /\ create \in Creates /\ resolver \in Resolvers
  /\ claim \in [Devices -> Stores \cup {"none"}] /\ resolver.seen \subseteq Held
  /\ (\A p \in Pairs : RowsOK(p)) /\ CreateOK /\ ApplyOK /\ SwapOK /\ NothingForgotten
-----------------------------------------------------------------------------
StoreStates == {"none", "active", "locked"}

\* Where there is no store there is nothing in it.
Empty(s) == store[s] = "none" => slots[s] = {} /\ \A d \in Devices : old[<<s, d>>] = << >>

\* The constants.
LEMMA Constants ==
  /\ Owners \subseteq Devices /\ MaxStores \in [Plans -> Nat] /\ MaxDevices \in [Plans -> Nat]
  /\ MaxPayments \in Nat /\ MaxRows \in Nat /\ IsFiniteSet(Stores) /\ IsFiniteSet(Devices)
BY LimitsAssumption

\* The types the invariant gives.
LEMMA LimitsTypes ==
  ASSUME LimitsIInv
  PROVE  /\ plan \in Plans /\ recon \in {"none", "pending", "applied"}
         /\ store \in [Stores -> StoreStates] /\ slots \in [Stores -> SUBSET Devices]
         /\ old \in [Pairs -> Seq(Reasons)] /\ expired \subseteq Pairs
         /\ claim \in [Devices -> Stores \cup {"none"}] /\ create \in Creates /\ resolver \in Resolvers
         /\ payments \in 0 .. MaxPayments /\ (\A s \in Stores : Empty(s))
         /\ \A d \in Devices : claim[d] = "none" \/ store[claim[d]] # "none"
BY DEF LimitsIInv, LimitsTypeOK, StoreStates, Empty

\* What a list of reasons contains are reasons.
LEMMA RangeOf ==
  ASSUME NEW rows \in Seq(Reasons)
  PROVE  Range(rows) \subseteq Reasons
BY DEF Range

\* The type invariant, from the types of its parts.
LEMMA LimitsTypesGive ==
  ASSUME plan \in Plans, recon \in {"none", "pending", "applied"},
         store \in [Stores -> StoreStates], slots \in [Stores -> SUBSET Devices],
         old \in [Pairs -> Seq(Reasons)], \A p \in Pairs : Len(old[p]) <= MaxRows, expired \subseteq Pairs,
         \A s \in Stores : Empty(s), \A d \in Devices : claim[d] = "none" \/ store[claim[d]] # "none",
         resolver \in Resolvers, payments \in 0 .. MaxPayments
  PROVE  LimitsTypeOK
<1>1. \A p \in Pairs : Range(old[p]) \subseteq Reasons
  BY RangeOf
<1>2. resolver.kept \subseteq Pairs /\ resolver.seen \subseteq Pairs
  BY DEF Resolvers
<1> QED BY <1>1, <1>2 DEF LimitsTypeOK, StoreStates, Empty

\* The slots as pairs.
LEMMA HeldIs == ASSUME NEW s \in Stores, NEW d \in Devices PROVE <<s, d>> \in Held <=> d \in slots[s]
BY DEF Held, Pairs

\* The same of the next state.
LEMMA HeldIsNext == ASSUME NEW s \in Stores, NEW d \in Devices PROVE <<s, d>> \in Held' <=> d \in slots'[s]
BY DEF Held, Pairs

\* Sets of devices and of stores are finite, and smaller ones have fewer.
LEMMA Fewer ==
  ASSUME NEW A, NEW B, A \subseteq B, B \subseteq Stores \/ B \subseteq Devices
  PROVE  /\ IsFiniteSet(B) /\ Cardinality(A) <= Cardinality(B)
         /\ Cardinality(A) \in Nat /\ Cardinality(B) \in Nat
<1>1. IsFiniteSet(B)
  BY Constants, FS_Subset
<1> QED BY <1>1, FS_Subset, FS_CardinalityType

(* Rows. *)

\* A nonempty set of positions has a last one.
LEMMA LastPosition ==
  ASSUME NEW n \in Nat, NEW I, I \subseteq 1 .. n, I # {}
  PROVE  Max(I) \in I
<1> DEFINE Up(k) == {i \in I : i >= k}
           T == {Up(k) : k \in I}
<1>1. IsFiniteSet(I)
  BY FS_Interval, FS_Subset, 1 \in Int, n \in Int
<1>2. SUBSET I = FiniteSubsetsOf(I)
  BY <1>1, FS_FiniteSubsetsOfFinite
<1>3. IsWellFoundedOn(StrictSubsetOrdering(I), SUBSET I)
  BY <1>1, <1>2, FS_StrictSubsetOrderingWellFounded
<1>4. T \subseteq SUBSET I /\ T # {}
  OBVIOUS
<1>5. PICK J \in T : \A u \in T : ~(<<u, J>> \in StrictSubsetOrdering(I))
  <2> HIDE DEF T
  <2> QED BY <1>3, <1>4, WFMin
<1>6. PICK k \in I : J = Up(k)
  BY <1>5
<1>7. ASSUME NEW y \in I, ~(k >= y) PROVE FALSE
  <2>0. y \in Int /\ k \in Int /\ k < y /\ \A i \in I : i \in Int
    BY <1>7
  <2>1. Up(y) \in T /\ Up(y) \subseteq J /\ k \notin Up(y) /\ k \in J
    <3>1. Up(y) \in T
      OBVIOUS
    <3>2. Up(y) \subseteq Up(k) /\ k \notin Up(y) /\ k \in Up(k)
      <4>1. \A i \in I : i >= y => i >= k
        BY <2>0
      <4>2. ~(k >= y) /\ k >= k
        BY <2>0
      <4> QED BY <4>1, <4>2
    <3> QED BY <1>6, <3>1, <3>2
  <2>2. <<Up(y), J>> \in StrictSubsetOrdering(I)
    BY <2>1, <1>4, <1>5 DEF StrictSubsetOrdering
  <2> QED BY <1>5, <2>1, <2>2
<1>8. \E x \in I : \A y \in I : x >= y
  BY <1>7
<1> QED BY <1>8 DEF Max

\* The latest row revoked for a downgrade is one of the rows.
LEMMA LastDowngradeIn ==
  ASSUME NEW rows \in Seq(Reasons), "plan_downgrade" \in Range(rows)
  PROVE  LastDowngrade(rows) \in 1 .. Len(rows)
<1>1. PICK I : I = {i \in 1 .. Len(rows) : rows[i] = "plan_downgrade"}
  OBVIOUS
<1>2. I # {} /\ I \subseteq 1 .. Len(rows) /\ Len(rows) \in Nat
  BY <1>1 DEF Range
<1>3. LastDowngrade(rows) = Max(I)
  BY <1>1, <1>2 DEF LastDowngrade, SelectLastInSeq
<1> QED BY <1>2, <1>3, LastPosition

\* A row comes, a row goes.
LEMMA RowsMove ==
  ASSUME NEW rows \in Seq(Reasons)
  PROVE  /\ \A why \in Reasons : Append(rows, why) \in Seq(Reasons) /\ Len(Append(rows, why)) = Len(rows) + 1
         /\ \A i \in 1 .. Len(rows) : RemoveAt(rows, i) \in Seq(Reasons) /\ Len(RemoveAt(rows, i)) = Len(rows) - 1
         /\ rows # << >> => Front(rows) \in Seq(Reasons) /\ Len(Front(rows)) = Len(rows) - 1
         /\ Len(rows) \in Nat /\ \A why \in Reasons : Append(rows, why) # << >>
<1>1. ASSUME NEW i \in 1 .. Len(rows)
      PROVE  RemoveAt(rows, i) \in Seq(Reasons) /\ Len(RemoveAt(rows, i)) = Len(rows) - 1
  <2>1. SubSeq(rows, 1, i - 1) \in Seq(Reasons) /\ Len(SubSeq(rows, 1, i - 1)) = i - 1
    OBVIOUS
  <2>2. SubSeq(rows, i + 1, Len(rows)) \in Seq(Reasons) /\ Len(SubSeq(rows, i + 1, Len(rows))) = Len(rows) - i
    OBVIOUS
  <2>3. PICK a \in Seq(Reasons), b \in Seq(Reasons) :
           /\ a = SubSeq(rows, 1, i - 1) /\ b = SubSeq(rows, i + 1, Len(rows))
           /\ Len(a) = i - 1 /\ Len(b) = Len(rows) - i
    BY <2>1, <2>2
  <2>4. RemoveAt(rows, i) = a \o b
    BY <2>3 DEF RemoveAt
  <2>5. a \o b \in Seq(Reasons) /\ Len(a \o b) = Len(a) + Len(b)
    OBVIOUS
  <2>6. i \in Int /\ Len(rows) \in Int
    OBVIOUS
  <2>7. Len(a) + Len(b) = Len(rows) - 1
    <3>1. Len(a) = i - 1 /\ Len(b) = Len(rows) - i
      BY <2>3
    <3>2. PICK n : n = Len(rows)
      OBVIOUS
    <3>3. (i - 1) + (n - i) = n - 1
      BY <2>6, <3>2
    <3> QED BY <3>1, <3>2, <3>3
  <2> QED BY <2>4, <2>5, <2>7
<1>2. rows # << >> => Front(rows) \in Seq(Reasons) /\ Len(Front(rows)) = Len(rows) - 1
  BY DEF Front
<1>3. \A why \in Reasons : Append(rows, why) \in Seq(Reasons) /\ Len(Append(rows, why)) = Len(rows) + 1
  OBVIOUS
<1>4. Len(rows) \in Nat /\ \A why \in Reasons : Append(rows, why) # << >>
  BY <1>3
<1> QED BY <1>1, <1>2, <1>3, <1>4
-----------------------------------------------------------------------------
\* With one store, no slots and nothing under way the invariant holds.
LEMMA LimitsInitInv == LimitsInit => LimitsIInv
<1> SUFFICES ASSUME LimitsInit PROVE LimitsIInv
  OBVIOUS
<1>1. PICK s \in Stores : store = [t \in Stores |-> IF t = s THEN "active" ELSE "none"]
  BY DEF LimitsInit
<1>2. store \in [Stores -> StoreStates] /\ Locked = {}
  BY <1>1 DEF StoreStates, Locked
<1>3. slots \in [Stores -> SUBSET Devices] /\ \A t \in Stores : slots[t] = {}
  BY DEF LimitsInit
<1>4. old \in [Pairs -> Seq(Reasons)] /\ \A p \in Pairs : old[p] = << >>
  BY DEF LimitsInit
<1>5. Held = {}
  BY <1>3 DEF Held, Pairs
<1>6. create \in Creates /\ create.pc = "idle" /\ resolver \in Resolvers /\ resolver.pc = "idle" /\ resolver.seen = {}
  BY DEF LimitsInit, Creates, Resolvers, Nowhere, NoChoice
<1>7. claim \in [Devices -> Stores \cup {"none"}] /\ \A d \in Devices : claim[d] = "none"
  BY DEF LimitsInit
<1>8. \A t \in Stores : Empty(t)
  BY <1>3, <1>4 DEF Empty, Pairs
<1>9. \A p \in Pairs : RowsOK(p)
  BY <1>4, <1>5, Constants DEF RowsOK
<1>10. /\ plan \in Plans /\ recon = "none" /\ expired \subseteq Pairs /\ payments \in 0 .. MaxPayments
  BY Constants DEF LimitsInit
<1>11. LimitsTypeOK
  BY <1>2, <1>3, <1>4, <1>6, <1>7, <1>8, <1>9, <1>10, LimitsTypesGive DEF RowsOK
<1> QED BY <1>2, <1>4, <1>6, <1>7, <1>9, <1>11 DEF LimitsIInv, CreateOK, ApplyOK, SwapOK, NothingForgotten

\* Steps that leave the account, the stores and the slots alone.
LEMMA QuietInv ==
  ASSUME LimitsIInv, UNCHANGED <<plan, recon, store, slots, old, expired, resolver, payments>>,
         claim' \in [Devices -> Stores \cup {"none"}],
         \A d \in Devices : claim'[d] = "none" \/ store[claim'[d]] # "none",
         create' \in Creates, CreateOK'
  PROVE  LimitsIInv'
<1>1. LimitsTypeOK'
  BY DEF LimitsIInv, LimitsTypeOK
<1>2. (\A p \in Pairs : RowsOK(p))' /\ Held' = Held
  BY DEF LimitsIInv, RowsOK, Held
<1>3. Active' = Active /\ Locked' = Locked
  BY DEF Active, Locked
<1>4. ApplyOK'
  BY <1>3 DEF LimitsIInv, ApplyOK, SlotsLeft
<1>5. SwapOK'
  BY <1>3 DEF LimitsIInv, SwapOK, KnownDevices
<1>6. NothingForgotten'
  BY <1>3 DEF LimitsIInv, NothingForgotten
<1> QED BY <1>1, <1>2, <1>4, <1>5, <1>6 DEF LimitsIInv

\* A claim starts, or a store is to be created.
LEMMA RequestInv ==
  ASSUME LimitsIInv,
         \/ \E d \in Devices, s \in Stores : ClaimStarts(d, s)
         \/ CreateGate \/ \E s \in Stores : CreateReads(s)
  PROVE  LimitsIInv'
<1>1. CASE \E d \in Devices, s \in Stores : ClaimStarts(d, s)
  <2>1. PICK d \in Devices, s \in Stores : ClaimStarts(d, s)
    BY <1>1
  <2>2. CreateOK'
    BY <2>1 DEF ClaimStarts, LimitsIInv, CreateOK
  <2> QED BY <2>1, <2>2, LimitsTypes, QuietInv DEF ClaimStarts
<1>2. CASE CreateGate
  <2>1. create' \in Creates /\ create'.pc = "gate"
    BY <1>2, LimitsTypes DEF CreateGate, Creates
  <2>2. CreateOK'
    BY <2>1 DEF CreateOK
  <2> QED BY <1>2, <2>1, <2>2, LimitsTypes, QuietInv DEF CreateGate
<1>3. CASE \E s \in Stores : CreateReads(s)
  <2>1. PICK s \in Stores : CreateReads(s)
    BY <1>3
  <2>2. create' = [pc |-> "insert", store |-> s] \/ create' = Nowhere
    BY <2>1 DEF CreateReads
  <2>3. create' \in Creates /\ CreateOK'
    BY <2>1, <2>2 DEF CreateReads, CreateOK, Creates, Nowhere
  <2> QED BY <2>1, <2>3, LimitsTypes, QuietInv DEF CreateReads
<1> QED BY <1>1, <1>2, <1>3

\* A claim takes its slot, or does not.
LEMMA ClaimInv ==
  ASSUME LimitsIInv, NEW d \in Devices, ClaimSlot(d)
  PROVE  /\ LimitsIInv'
         /\ \A s \in Stores : slots'[s] # slots[s] => Cardinality(slots'[s]) <= MaxDevices[plan]
<1>1. PICK s \in Stores : s = claim[d]
  BY LimitsTypes DEF ClaimSlot
<1>2. /\ Len(old[<<s, d>>]) < MaxRows
      /\ slots' = [slots EXCEPT ![s] = IF MayClaim(d, s) THEN @ \cup {d} ELSE @]
      /\ claim' = [claim EXCEPT ![d] = "none"]
      /\ UNCHANGED <<plan, recon, store, old, expired, create, resolver, payments>> /\ store[s] # "none"
  BY <1>1, LimitsTypes DEF ClaimSlot
<1>3. slots' = slots \/ (slots' = [slots EXCEPT ![s] = @ \cup {d}] /\ Cardinality(slots[s]) < MaxDevices[plan])
  <2>1. slots[s] \cup {d} = slots[s] \/ Cardinality(slots[s]) < MaxDevices[plan] \/ ~MayClaim(d, s)
    BY DEF MayClaim
  <2> QED BY <1>2, <2>1, LimitsTypes
<1>4. /\ slots' \in [Stores -> SUBSET Devices] /\ \A t \in Stores : slots[t] \subseteq slots'[t]
      /\ \A t \in Stores : t # s => slots'[t] = slots[t]
      /\ slots'[s] \subseteq slots[s] \cup {d}
  BY <1>3, LimitsTypes
<1>5. slots'[s] # slots[s] => Cardinality(slots'[s]) <= MaxDevices[plan]
  <2> SUFFICES ASSUME slots'[s] # slots[s] PROVE Cardinality(slots'[s]) <= MaxDevices[plan]
    OBVIOUS
  <2>1. PICK A, B : A = slots[s] /\ B = slots'[s]
    OBVIOUS
  <2>2. B = A \cup {d} /\ Cardinality(A) < MaxDevices[plan] /\ A \subseteq Devices
    BY <1>3, <2>1, LimitsTypes
  <2>3. IsFiniteSet(A) /\ Cardinality(A) \in Nat /\ MaxDevices[plan] \in Nat
    BY <2>2, Fewer, Constants, LimitsTypes
  <2>4. Cardinality(B) = Cardinality(A) \/ Cardinality(B) = Cardinality(A) + 1
    BY <2>2, <2>3, FS_AddElement, Zenon
  <2> QED BY <2>1, <2>2, <2>3, <2>4
<1>6. \A t \in Stores : slots'[t] # slots[t] => Cardinality(slots'[t]) <= MaxDevices[plan]
  BY <1>4, <1>5
<1>7. \A p \in Pairs : p \in Held' => p \in Held \/ p = <<s, d>>
  BY <1>4 DEF Held, Pairs
<1>8. (\A p \in Pairs : RowsOK(p))' /\ Held \subseteq Held'
  BY <1>2, <1>4, <1>7 DEF LimitsIInv, RowsOK, Held, Pairs
<1>9. (\A t \in Stores : Empty(t))'
  BY <1>2, <1>4, LimitsTypes DEF Empty
<1>10. claim' \in [Devices -> Stores \cup {"none"}] /\ \A e \in Devices : claim'[e] = "none" \/ store'[claim'[e]] # "none"
  BY <1>2, LimitsTypes
<1>11. LimitsTypeOK'
  BY <1>2, <1>4, <1>8, <1>9, <1>10, LimitsTypes DEF LimitsIInv, LimitsTypeOK, StoreStates, Empty
<1>12. ApplyOK'
  <2> SUFFICES ASSUME resolver.pc = "apply" PROVE ApplyOK'
    BY <1>2 DEF ApplyOK
  <2>1. \A t \in Stores : SlotsLeft(t) \subseteq SlotsLeft(t)' /\ (slots'[t] = slots[t] => SlotsLeft(t)' = SlotsLeft(t))
    BY <1>2, <1>4 DEF SlotsLeft
  <2>2. \A t \in Stores : SlotsLeft(t)' \subseteq slots'[t] /\ slots'[t] \subseteq Devices
    BY <1>4 DEF SlotsLeft
  <2>3. ASSUME NEW t \in Stores, slots'[t] # slots[t] PROVE Cardinality(SlotsLeft(t)') <= MaxDevices[plan]
    <3>1. Cardinality(SlotsLeft(t)') <= Cardinality(slots'[t]) /\ Cardinality(SlotsLeft(t)') \in Nat
          /\ Cardinality(slots'[t]) \in Nat
      BY <2>2, Fewer
    <3>2. Cardinality(slots'[t]) <= MaxDevices[plan] /\ MaxDevices[plan] \in Nat
      BY <1>6, <2>3, Constants, LimitsTypes
    <3> QED BY <3>1, <3>2
  <2>4. ApplyOK /\ resolver.on \subseteq Stores
    BY LimitsTypes DEF LimitsIInv, Resolvers
  <2>5. (\A t \in resolver.on : Cardinality(SlotsLeft(t)) <= MaxDevices[plan])'
    <3> SUFFICES ASSUME NEW t \in resolver.on PROVE Cardinality(SlotsLeft(t)') <= MaxDevices[plan]
      BY <1>2
    <3>1. CASE slots'[t] = slots[t]
      <4>1. SlotsLeft(t)' = SlotsLeft(t)
        BY <2>1, <2>4, <3>1
      <4> QED BY <2>4, <4>1 DEF ApplyOK
    <3>2. CASE slots'[t] # slots[t]
      BY <2>3, <2>4, <3>2
    <3> QED BY <3>1, <3>2
  <2>6. Active' = Active
    BY <1>2 DEF Active
  <2>7. (\A e \in resolver.in : \E t \in resolver.on : e \in SlotsLeft(t))'
    <3> SUFFICES ASSUME NEW e \in resolver.in PROVE \E t \in resolver.on : e \in SlotsLeft(t)'
      BY <1>2
    <3> QED BY <2>1, <2>4 DEF ApplyOK
  <2> QED BY <1>2, <2>4, <2>5, <2>6, <2>7 DEF ApplyOK
<1>13. SwapOK' /\ NothingForgotten' /\ CreateOK'
  <2>1. Active' = Active /\ Locked' = Locked
    BY <1>2 DEF Active, Locked
  <2>2. SwapOK'
    <3> SUFFICES ASSUME resolver.pc = "swap" PROVE SwapOK'
      BY <1>2 DEF SwapOK
    <3>1. SwapOK /\ Active \subseteq Stores /\ resolver.on \subseteq Stores
      BY LimitsTypes DEF LimitsIInv, Active, Resolvers
    <3>2. \A t \in Stores : KnownDevices(t) \subseteq KnownDevices(t)'
      BY <1>2, <1>4 DEF KnownDevices
    <3> QED BY <1>2, <1>4, <2>1, <3>1, <3>2 DEF SwapOK
  <2> QED BY <1>2, <2>1, <2>2 DEF LimitsIInv, NothingForgotten, CreateOK
<1>14. LimitsIInv'
  <2>1. resolver.seen \subseteq Held'
    BY <1>8 DEF LimitsIInv
  <2> QED BY <1>2, <1>8, <1>10, <1>11, <1>12, <1>13, <2>1 DEF LimitsIInv
<1> QED BY <1>6, <1>14

\* Slots end: the device leaves, is blocked or logs out, or the slot is stale.
LEMMA ReleaseInv ==
  ASSUME LimitsIInv, NEW ps, Release(ps), NEW why \in Reasons,
         old' \in {old, RevokedRows(ps, why)}, expired \subseteq expired', expired' \subseteq Pairs
  PROVE  LimitsIInv'
<1>1. /\ ps \subseteq Held /\ UNCHANGED <<plan, recon, store, claim, create, payments>>
      /\ slots' = [s \in Stores |-> {d \in slots[s] : <<s, d>> \notin ps}]
  BY DEF Release
<1>2. PICK mid : mid = [resolver EXCEPT !.seen = resolver.seen \ ps]
  OBVIOUS
<1>3. PICK out : out = resolver.in \ {p[2] : p \in ps}
  OBVIOUS
<1>4. PICK q : q = [mid EXCEPT !.in = out]
  OBVIOUS
<1>5. mid \in Resolvers /\ mid.seen = resolver.seen \ ps /\ mid.pc = resolver.pc /\ mid.on = resolver.on
      /\ mid.off = resolver.off /\ mid.kept = resolver.kept /\ mid.in = resolver.in
  BY <1>2, LimitsTypes DEF Resolvers
<1>6. q \in Resolvers /\ q.seen = resolver.seen \ ps /\ q.pc = resolver.pc /\ q.on = resolver.on
      /\ q.off = resolver.off /\ q.kept = resolver.kept /\ q.in = out
  BY <1>3, <1>4, <1>5 DEF Resolvers
<1>7. resolver' = q
  BY <1>2, <1>3, <1>4, LimitsTypes DEF Release, Resolvers
<1>8. /\ slots' \in [Stores -> SUBSET Devices] /\ \A s \in Stores : slots'[s] \subseteq slots[s]
      /\ \A s \in Stores, d \in Devices : d \in slots'[s] <=> d \in slots[s] /\ <<s, d>> \notin ps
  BY <1>1, LimitsTypes
<1>9. \A p \in Pairs : p \in Held' <=> p \in Held /\ p \notin ps
  BY <1>8 DEF Held, Pairs
<1>10. ASSUME NEW p \in Pairs
       PROVE  /\ old'[p] \in Seq(Reasons) /\ RowsOK(p)' /\ (p \notin ps => old'[p] = old[p])
              /\ old[p] # << >> => old'[p] # << >>
  <2>1. old'[p] = old[p] \/ (p \in ps /\ old'[p] = Append(old[p], why))
    BY DEF RevokedRows
  <2>2. old[p] \in Seq(Reasons) /\ RowsOK(p) /\ MaxRows \in Nat
    BY LimitsTypes, Constants DEF LimitsIInv
  <2>3. Append(old[p], why) \in Seq(Reasons) /\ Len(Append(old[p], why)) = Len(old[p]) + 1 /\ Len(old[p]) \in Nat
        /\ Append(old[p], why) # << >>
    BY <2>2, RowsMove
  <2>4. CASE old'[p] = old[p]
    BY <1>9, <2>2, <2>4 DEF RowsOK
  <2>5. CASE p \in ps /\ old'[p] = Append(old[p], why)
    BY <1>1, <1>9, <2>2, <2>3, <2>5 DEF RowsOK
  <2> QED BY <2>1, <2>4, <2>5
<1>11. old' \in [Pairs -> Seq(Reasons)]
  <2>1. old' = [p \in Pairs |-> old'[p]]
    BY LimitsTypes DEF RevokedRows
  <2> QED BY <1>10, <2>1
<1>12. (\A s \in Stores : Empty(s))'
  <2> SUFFICES ASSUME NEW s \in Stores, store[s] = "none"
               PROVE  slots'[s] = {} /\ \A d \in Devices : old'[<<s, d>>] = << >>
    BY <1>1 DEF Empty
  <2>1. slots[s] = {} /\ \A d \in Devices : old[<<s, d>>] = << >>
    BY LimitsTypes DEF Empty
  <2>2. \A d \in Devices : <<s, d>> \in Pairs /\ <<s, d>> \notin ps
    BY <1>1, <2>1, HeldIs DEF Pairs
  <2> QED BY <1>8, <1>10, <2>1, <2>2
<1>13. resolver' \in Resolvers /\ resolver'.seen \subseteq Held'
  BY <1>6, <1>7, <1>9, LimitsTypes DEF LimitsIInv, Held
<1>14. LimitsTypeOK'
  BY <1>1, <1>8, <1>10, <1>11, <1>12, <1>13, LimitsTypes, RangeOf DEF LimitsTypeOK, StoreStates, Empty, Resolvers, RowsOK
<1>15. \A d \in out, s \in Stores : <<s, d>> \notin ps
  BY <1>3
<1>16. Active' = Active /\ Locked' = Locked
  BY <1>1 DEF Active, Locked
<1>17. ApplyOK'
  <2> SUFFICES ASSUME q.pc = "apply" PROVE ApplyOK'
    BY <1>7 DEF ApplyOK
  <2>1. ApplyOK /\ q.on \subseteq Stores /\ resolver.pc = "apply" /\ q.on = resolver.on
    BY <1>6, LimitsTypes DEF LimitsIInv, Resolvers
  <2>2. ASSUME NEW s \in Stores
        PROVE  /\ SlotsLeft(s)' \subseteq SlotsLeft(s) /\ SlotsLeft(s) \subseteq Devices
               /\ \A d \in out : d \in SlotsLeft(s) => d \in SlotsLeft(s)'
    <3>1. SlotsLeft(s)' = {d \in slots'[s] : <<s, d>> \notin q.seen}
      BY <1>7 DEF SlotsLeft
    <3>2. slots[s] \subseteq Devices /\ slots'[s] \subseteq slots[s]
      BY <1>8, LimitsTypes
    <3> QED BY <1>6, <1>8, <1>15, <3>1, <3>2 DEF SlotsLeft
  <2>3. ASSUME NEW s \in q.on PROVE Cardinality(SlotsLeft(s)') <= MaxDevices[plan]
    <3>1. Cardinality(SlotsLeft(s)) <= MaxDevices[plan] /\ MaxDevices[plan] \in Nat
      BY <2>1, Constants, LimitsTypes DEF ApplyOK
    <3>2. /\ Cardinality(SlotsLeft(s)') <= Cardinality(SlotsLeft(s)) /\ Cardinality(SlotsLeft(s)') \in Nat
          /\ Cardinality(SlotsLeft(s)) \in Nat
      BY <2>1, <2>2, Fewer
    <3> QED BY <3>1, <3>2
  <2>4. ASSUME NEW d \in q.in PROVE \E s \in q.on : d \in SlotsLeft(s)'
    BY <1>3, <1>6, <2>1, <2>2 DEF ApplyOK
  <2> QED BY <1>1, <1>6, <1>7, <1>16, <2>1, <2>3, <2>4 DEF ApplyOK
<1>18. SwapOK'
  <2> SUFFICES ASSUME q.pc = "swap" PROVE SwapOK'
    BY <1>7 DEF SwapOK
  <2>1. SwapOK /\ q.on \subseteq Stores /\ resolver.pc = "swap" /\ out \subseteq Devices
    BY <1>3, <1>6, LimitsTypes DEF LimitsIInv, Resolvers
  <2>2. ASSUME NEW d \in out
        PROVE  \/ \E s \in Active \ q.off : d \in slots'[s]
               \/ \E s \in q.on : <<s, d>> \in q.kept /\ d \in KnownDevices(s)'
    <3>1. d \in resolver.in /\ d \in Devices
      BY <1>3, <2>1
    <3>2. CASE \E s \in Active \ resolver.off : d \in slots[s]
      BY <1>6, <1>8, <1>15, <3>1, <3>2 DEF Active
    <3>3. CASE \E s \in resolver.on : <<s, d>> \in resolver.kept /\ d \in KnownDevices(s)
      <4>1. PICK s \in resolver.on : <<s, d>> \in resolver.kept /\ d \in KnownDevices(s)
        BY <3>3
      <4>2. s \in Stores /\ <<s, d>> \in Pairs
        BY <1>6, <2>1, <3>1 DEF Pairs
      <4>3. d \in KnownDevices(s)'
        BY <1>8, <1>10, <1>15, <3>1, <4>1, <4>2, <2>2 DEF KnownDevices
      <4> QED BY <1>6, <4>1, <4>3
    <3> QED BY <2>1, <3>1, <3>2, <3>3 DEF SwapOK
  <2>3. /\ q.off \subseteq Active /\ q.on \subseteq Locked /\ q.kept \cap q.seen = {}
        /\ \A p \in q.kept \cup q.seen : p[1] \in q.on
    BY <1>6, <2>1 DEF SwapOK
  <2>4. recon' # "none" /\ Active' = Active /\ Locked' = Locked
    BY <1>1, <1>16, <2>1 DEF SwapOK
  <2>5. (resolver.off \subseteq Active /\ resolver.on \subseteq Locked /\ resolver.kept \cap resolver.seen = {}
         /\ \A p \in resolver.kept \cup resolver.seen : p[1] \in resolver.on)'
    BY <1>7, <2>3, <2>4
  <2>6. (\A d \in resolver.in :
           \/ \E s \in Active \ resolver.off : d \in slots[s]
           \/ \E s \in resolver.on : <<s, d>> \in resolver.kept /\ d \in KnownDevices(s))'
    BY <1>6, <1>7, <2>2, <2>4
  <2> QED BY <2>4, <2>5, <2>6, Zenon DEF SwapOK
<1>19. (\A p \in Pairs : RowsOK(p))'
  BY <1>10
<1>20. CreateOK' /\ NothingForgotten' /\ claim' \in [Devices -> Stores \cup {"none"}] /\ create' \in Creates
  BY <1>1, <1>16, LimitsTypes DEF LimitsIInv, CreateOK, NothingForgotten
<1> QED BY <1>11, <1>13, <1>14, <1>17, <1>18, <1>19, <1>20 DEF LimitsIInv

\* removeDevice, blockDevice, logout, revokeSession and expireStaleSlots.
LEMMA SlotEndsInv ==
  ASSUME LimitsIInv, NEW d \in Devices,
         RevokeAllSlots(d) \/ \E s \in Stores : RemoveDevice(d, s) \/ ExpireSlot(d, s)
  PROVE  LimitsIInv'
<1>1. expired \subseteq Pairs /\ "other" \in Reasons
  BY LimitsTypes DEF Reasons
<1>2. CASE RevokeAllSlots(d)
  <2>1. PICK ps : ps = {p \in Held : p[2] = d}
    OBVIOUS
  <2>2. Release(ps) /\ old' = RevokedRows(ps, "other") /\ expired' = expired
    BY <1>2, <2>1 DEF RevokeAllSlots
  <2> QED BY <1>1, <2>2, ReleaseInv
<1>3. ASSUME NEW s \in Stores, RemoveDevice(d, s) PROVE LimitsIInv'
  <2>1. PICK ps : ps = {<<s, d>>}
    OBVIOUS
  <2>2. Release(ps) /\ old' = RevokedRows(ps, "other") /\ expired' = expired
    BY <1>3, <2>1 DEF RemoveDevice
  <2> QED BY <1>1, <2>2, ReleaseInv
<1>4. ASSUME NEW s \in Stores, ExpireSlot(d, s) PROVE LimitsIInv'
  <2>1. PICK ps : ps = {<<s, d>>}
    OBVIOUS
  <2>2. Release(ps) /\ old' = old /\ expired' = expired \cup ps /\ ps \subseteq Pairs
    BY <1>4, <2>1 DEF ExpireSlot, Pairs
  <2> QED BY <1>1, <2>2, ReleaseInv
<1> QED BY <1>2, <1>3, <1>4
-----------------------------------------------------------------------------
\* While nobody resolves, a step keeps the invariant if it keeps the types, the
\* room for rows and what creation and the locks need.
LEMMA FreeInv ==
  ASSUME LimitsIInv, resolver' \in Resolvers, resolver'.pc = "idle", resolver'.seen \subseteq Held',
         plan' \in Plans, recon' \in {"none", "pending", "applied"},
         store' \in [Stores -> StoreStates], slots' \in [Stores -> SUBSET Devices],
         old' \in [Pairs -> Seq(Reasons)], \A p \in Pairs : RowsOK(p)',
         \A s \in Stores : Empty(s)', UNCHANGED <<claim, expired>>, payments' \in 0 .. MaxPayments,
         \A s \in Stores : store[s] # "none" => store'[s] # "none",
         create' \in Creates, CreateOK', NothingForgotten'
  PROVE  LimitsIInv'
<1>1. \A d \in Devices : claim'[d] = "none" \/ store'[claim'[d]] # "none"
  BY LimitsTypes
<1>2. \A p \in Pairs : Range(old'[p]) \subseteq Reasons
  BY RangeOf
<1>3. \A p \in Pairs : Len(old'[p]) <= MaxRows
  BY DEF RowsOK
<1>4. resolver'.kept \cup resolver'.seen \cup expired' \subseteq Pairs
  BY LimitsTypes DEF Resolvers
<1>5. LimitsTypeOK'
  BY <1>1, <1>2, <1>3, <1>4 DEF LimitsTypeOK, StoreStates, Empty
<1>6. ApplyOK' /\ SwapOK' /\ claim' \in [Devices -> Stores \cup {"none"}]
  BY LimitsTypes DEF ApplyOK, SwapOK
<1> QED BY <1>5, <1>6 DEF LimitsIInv

\* Nobody resolves when the account row is free.
LEMMA FreeIdle ==
  ASSUME LimitsIInv, AccountFree
  PROVE  resolver.pc = "idle" /\ resolver \in Resolvers /\ resolver.seen \subseteq Held
BY LimitsTypes DEF AccountFree, LimitsIInv

\* The store is created.
LEMMA CreateInv == ASSUME LimitsIInv, CreateInserts PROVE LimitsIInv'
<1>1. PICK s \in Stores : s = create.store /\ store[s] = "none"
  BY DEF CreateInserts, LimitsIInv, CreateOK
<1>2. /\ UNCHANGED <<plan, recon, slots, old, expired, claim, resolver, payments>> /\ create' = Nowhere
      /\ store' = [store EXCEPT ![s] = "active"]
  BY <1>1 DEF CreateInserts
<1>3. /\ store' \in [Stores -> StoreStates] /\ \A t \in Stores : t # s => store'[t] = store[t]
      /\ store'[s] = "active"
  BY <1>2, LimitsTypes DEF StoreStates
<1>4. Held' = Held /\ Locked' = Locked
  BY <1>1, <1>2, <1>3 DEF Held, Locked
<1>5. \A p \in Pairs : RowsOK(p)'
  BY <1>2, <1>4 DEF LimitsIInv, RowsOK
<1>6. \A t \in Stores : Empty(t)'
  BY <1>2, <1>3, LimitsTypes DEF Empty
<1>7. create' \in Creates /\ CreateOK' /\ NothingForgotten'
  BY <1>2, <1>4 DEF Creates, Nowhere, CreateOK, NothingForgotten, LimitsIInv
<1>8. resolver.pc = "idle" /\ resolver \in Resolvers /\ resolver.seen \subseteq Held
  BY FreeIdle DEF CreateInserts
<1>9. /\ resolver' \in Resolvers /\ resolver'.pc = "idle" /\ resolver'.seen \subseteq Held'
      /\ \A t \in Stores : store[t] # "none" => store'[t] # "none"
  BY <1>2, <1>3, <1>4, <1>8
<1> QED BY <1>2, <1>3, <1>5, <1>6, <1>7, <1>9, LimitsTypes, FreeInv

\* A payment: over the limits, within them, or giving back what was taken.
LEMMA ActivateInv ==
  ASSUME LimitsIInv, NEW p \in Plans, ActivateOverLimit(p) \/ ActivateRestores(p) \/ ActivateFits(p)
  PROVE  LimitsIInv'
<1>1. /\ ActivatePlan(p) /\ AccountFree /\ plan' \in Plans /\ payments' = payments + 1 /\ payments < MaxPayments
      /\ UNCHANGED <<expired, claim, create, resolver>>
  BY DEF ActivateOverLimit, ActivateRestores, ActivateFits, ActivatePlan
<1>2. payments' \in 0 .. MaxPayments /\ create' \in Creates
  BY <1>1, LimitsTypes, Constants
<1>3. resolver.pc = "idle" /\ resolver \in Resolvers /\ resolver.seen \subseteq Held
  BY <1>1, FreeIdle
<1>4. CASE ActivateOverLimit(p) \/ ActivateFits(p)
  <2>1. UNCHANGED <<store, slots, old>> /\ recon' \in {recon, "pending"}
    BY <1>4 DEF ActivateOverLimit, ActivateFits
  <2>2. recon' \in {"none", "pending", "applied"} /\ (recon' = "none" => recon = "none")
    BY <2>1, LimitsTypes
  <2>3. Held' = Held /\ Locked' = Locked
    BY <2>1 DEF Held, Locked
  <2>4. (\A o \in Pairs : RowsOK(o)') /\ CreateOK' /\ NothingForgotten'
    BY <1>1, <2>1, <2>2, <2>3 DEF LimitsIInv, RowsOK, CreateOK, NothingForgotten
  <2>5. \A s \in Stores : Empty(s)'
    BY <2>1, LimitsTypes DEF Empty
  <2>6. /\ store' \in [Stores -> StoreStates] /\ slots' \in [Stores -> SUBSET Devices]
        /\ old' \in [Pairs -> Seq(Reasons)] /\ \A s \in Stores : store[s] # "none" => store'[s] # "none"
    BY <2>1, LimitsTypes
  <2>7. resolver' \in Resolvers /\ resolver'.pc = "idle" /\ resolver'.seen \subseteq Held'
    BY <1>1, <1>3, <2>3
  <2> QED BY <1>1, <1>2, <2>2, <2>4, <2>5, <2>6, <2>7, FreeInv
<1>5. CASE ActivateRestores(p)
  <2>1. /\ store' = [s \in Stores |-> IF s \in Locked THEN "active" ELSE store[s]]
        /\ slots' = [s \in Stores |-> slots[s] \cup Restorable(s)] /\ recon' = "none"
        /\ old' = [o \in Pairs |-> IF o[2] \in Restorable(o[1]) THEN RemoveAt(old[o], LastDowngrade(old[o])) ELSE old[o]]
    BY <1>5 DEF ActivateRestores, AutoRestore, Unlocked
  <2>2. /\ store' \in [Stores -> StoreStates] /\ Locked' = {}
        /\ \A s \in Stores : store'[s] = "none" <=> store[s] = "none"
    BY <2>1, LimitsTypes DEF StoreStates, Locked
  <2>3. slots' \in [Stores -> SUBSET Devices]
    BY <2>1, LimitsTypes DEF Restorable
  <2>4. ASSUME NEW s \in Stores, NEW d \in Devices
        PROVE  /\ old'[<<s, d>>] \in Seq(Reasons) /\ RowsOK(<<s, d>>)'
               /\ store[s] = "none" => d \notin slots'[s] /\ old'[<<s, d>>] = << >>
    <3>1. PICK o : o = <<s, d>>
      OBVIOUS
    <3>2. o \in Pairs /\ o[1] = s /\ o[2] = d /\ old[o] \in Seq(Reasons) /\ RowsOK(o) /\ MaxRows \in Nat
      BY <3>1, LimitsTypes, Constants DEF Pairs, LimitsIInv
    <3>3. o \in Held' <=> d \in slots[s] \cup Restorable(s)
      BY <2>1, <3>1, HeldIsNext
    <3>4. o \in Held <=> d \in slots[s]
      BY <3>1, HeldIs
    <3>5. CASE d \in Restorable(s)
      <4>1. "plan_downgrade" \in Range(old[o])
        BY <3>1, <3>5 DEF Restorable
      <4>2. PICK i \in 1 .. Len(old[o]) : i = LastDowngrade(old[o])
        BY <3>2, <4>1, LastDowngradeIn
      <4>3. old'[o] = RemoveAt(old[o], i)
        BY <2>1, <3>2, <3>5, <4>2
      <4>4. old'[o] \in Seq(Reasons) /\ Len(old'[o]) = Len(old[o]) - 1 /\ Len(old[o]) \in Nat
        BY <3>2, <4>2, <4>3, RowsMove
      <4>5. store[s] # "none"
        <5>1. old[o] # << >>
          BY <4>1 DEF Range
        <5> QED BY <3>1, <5>1, LimitsTypes DEF Empty
      <4> QED BY <3>1, <3>2, <4>4, <4>5 DEF RowsOK
    <3>6. CASE d \notin Restorable(s)
      <4>1. old'[o] = old[o]
        BY <2>1, <3>2, <3>6
      <4>2. store[s] = "none" => d \notin slots'[s] /\ old[o] = << >>
        BY <2>1, <3>1, <3>6, LimitsTypes DEF Empty
      <4> QED BY <3>1, <3>2, <3>3, <3>4, <3>6, <4>1, <4>2 DEF RowsOK
    <3> QED BY <3>5, <3>6
  <2>5. old' \in [Pairs -> Seq(Reasons)] /\ \A o \in Pairs : RowsOK(o)'
    <3>1. \A o \in Pairs : old'[o] \in Seq(Reasons) /\ RowsOK(o)'
      BY <2>4 DEF Pairs
    <3>2. old' = [o \in Pairs |-> old'[o]]
      BY <2>1
    <3> QED BY <3>1, <3>2
  <2>6. \A s \in Stores : Empty(s)'
    BY <2>2, <2>3, <2>4 DEF Empty
  <2>7. CreateOK' /\ NothingForgotten'
    BY <1>1, <2>2 DEF LimitsIInv, CreateOK, NothingForgotten
  <2>8. resolver' \in Resolvers /\ resolver'.pc = "idle" /\ resolver'.seen \subseteq Held'
    <3>1. Held \subseteq Held'
      BY <2>1 DEF Held, Pairs
    <3> QED BY <1>1, <1>3, <3>1
  <2> QED BY <1>1, <1>2, <2>1, <2>2, <2>3, <2>5, <2>6, <2>7, <2>8, FreeInv
<1> QED BY <1>4, <1>5
-----------------------------------------------------------------------------
(* The owner's answer. *)

\* A resolution has read: nothing but the resolver has changed.
LEMMA ReadInv ==
  ASSUME LimitsIInv, UNCHANGED <<plan, recon, store, slots, old, expired, claim, create, payments>>,
         resolver' \in Resolvers, resolver'.seen \subseteq Held, ApplyOK', SwapOK'
  PROVE  LimitsIInv'
<1>1. LimitsTypeOK'
  BY LimitsTypes DEF LimitsIInv, LimitsTypeOK, Resolvers
<1>2. (\A p \in Pairs : RowsOK(p))' /\ Held' = Held
  BY DEF LimitsIInv, RowsOK, Held
<1>3. CreateOK' /\ NothingForgotten'
  BY DEF LimitsIInv, CreateOK, NothingForgotten, Locked
<1> QED BY <1>1, <1>2, <1>3 DEF LimitsIInv

\* The kept slots of one store are as many as its kept devices.
LEMMA KeptDevices ==
  ASSUME NEW kept, kept \subseteq Pairs, NEW s \in Stores
  PROVE  Cardinality({d \in Devices : <<s, d>> \in kept}) <= Cardinality({p \in kept : p[1] = s})
<1>1. PICK A, B : A = {d \in Devices : <<s, d>> \in kept} /\ B = {p \in kept : p[1] = s}
  OBVIOUS
<1>2. PICK f : f = [p \in B |-> p[2]]
  OBVIOUS
<1>3. \A p \in B : p[2] \in A
  BY <1>1 DEF Pairs
<1>4. ASSUME NEW d \in A PROVE \E p \in B : f[p] = d
  <2>1. <<s, d>> \in B /\ <<s, d>>[2] = d
    BY <1>1, <1>4
  <2> QED BY <1>2, <2>1
<1>5. f \in Surjection(B, A)
  BY <1>2, <1>3, <1>4 DEF Surjection
<1>6. IsFiniteSet(B)
  <2>1. IsFiniteSet(Pairs)
    BY Constants, FS_Product DEF Pairs
  <2>2. B \subseteq Pairs
    BY <1>1
  <2> QED BY <2>1, <2>2, FS_Subset
<1>7. Cardinality(A) <= Cardinality(B)
  BY <1>5, <1>6, FS_Surjection
<1> QED BY <1>1, <1>7

\* apply reads and validates.
LEMMA ApplyReadsInv ==
  ASSUME LimitsIInv, NEW d \in Owners, NEW keep, NEW kept, ApplyReads(d, keep, kept)
  PROVE  LimitsIInv'
<1>1. /\ keep \subseteq Active /\ kept \subseteq Held /\ (\A p \in kept : p[1] \in keep)
      /\ Cardinality(keep) <= MaxStores[plan] /\ StaysReachable(d, kept)
      /\ \A s \in keep : Cardinality({p \in kept : p[1] = s}) <= MaxDevices[plan]
      /\ UNCHANGED <<plan, recon, store, slots, old, expired, claim, create, payments>>
  BY DEF ApplyReads, ValidSelection
<1>2. PICK off, seen, in : off = Active \ keep /\ seen = {p \in Held : p[1] \in keep} \ kept /\ in = {d} \cap Inside
  OBVIOUS
<1>3. resolver' = [pc |-> "apply", on |-> keep, off |-> off, kept |-> kept, seen |-> seen, in |-> in]
  BY <1>2 DEF ApplyReads
<1>4. /\ keep \subseteq Stores /\ off \subseteq Stores /\ kept \subseteq Pairs /\ seen \subseteq Pairs
      /\ in \subseteq Devices /\ seen \subseteq Held
  BY <1>1, <1>2, Constants DEF Active, Held
<1>5. resolver' \in Resolvers
  BY <1>3, <1>4 DEF Resolvers
<1>6. \A s \in keep : SlotsLeft(s)' = {e \in Devices : <<s, e>> \in kept}
  <2> SUFFICES ASSUME NEW s \in keep PROVE SlotsLeft(s)' = {e \in Devices : <<s, e>> \in kept}
    OBVIOUS
  <2>1. SlotsLeft(s)' = {e \in slots[s] : <<s, e>> \notin seen}
    BY <1>1, <1>3 DEF SlotsLeft
  <2>2. s \in Stores /\ slots[s] \subseteq Devices /\ \A e \in Devices : <<s, e>> \in Held <=> e \in slots[s]
    BY <1>4, LimitsTypes, HeldIs
  <2>3. \A e \in Devices : e \in slots[s] => (<<s, e>> \in seen <=> <<s, e>> \notin kept)
    BY <1>2, <2>2
  <2>4. \A e \in Devices : <<s, e>> \in kept => e \in slots[s]
    BY <1>1, <2>2
  <2> QED BY <2>1, <2>2, <2>3, <2>4
<1>7. ASSUME NEW s \in keep PROVE Cardinality(SlotsLeft(s)') <= MaxDevices[plan]
  <2>1. PICK A, B : A = {e \in Devices : <<s, e>> \in kept} /\ B = {p \in kept : p[1] = s}
    OBVIOUS
  <2>2. Cardinality(A) <= Cardinality(B)
    BY <1>4, <2>1, KeptDevices
  <2>3. Cardinality(A) \in Nat
    BY <2>1, Fewer
  <2>4. Cardinality(B) \in Nat
    <3>1. IsFiniteSet(Pairs)
      BY Constants, FS_Product DEF Pairs
    <3> QED BY <1>4, <2>1, <3>1, FS_Subset, FS_CardinalityType
  <2>5. Cardinality(B) <= MaxDevices[plan] /\ MaxDevices[plan] \in Nat
    BY <1>1, <2>1, Constants, LimitsTypes
  <2>6. Cardinality(A) <= MaxDevices[plan]
    BY <2>2, <2>3, <2>4, <2>5
  <2>7. SlotsLeft(s)' = A
    BY <1>6, <2>1
  <2> QED BY <2>6, <2>7
<1>8. ASSUME NEW e \in in PROVE \E s \in keep : e \in SlotsLeft(s)'
  <2>1. e = d /\ e \in Devices /\ d \in Inside
    BY <1>2, <1>4, <1>8
  <2>2. PICK p \in kept : p[2] = d
    BY <1>1, <2>1 DEF StaysReachable
  <2>3. p[1] \in keep /\ p = <<p[1], d>>
    BY <1>1, <1>4, <2>2 DEF Pairs
  <2> QED BY <1>6, <2>1, <2>3
<1>9. ApplyOK'
  <2>1. Active' = Active /\ keep \cap off = {} /\ keep \cup off = Active
    BY <1>1, <1>2 DEF Active
  <2> QED BY <1>1, <1>3, <1>7, <1>8, <2>1 DEF ApplyOK
<1>10. SwapOK'
  BY <1>3 DEF SwapOK
<1> QED BY <1>1, <1>3, <1>4, <1>5, <1>9, <1>10, ReadInv

\* apply writes what it has read: the account ends within its limits, and the
\* owner's device inside.
LEMMA ApplyCommitsInv ==
  ASSUME LimitsIInv, ApplyCommits
  PROVE  LimitsIInv' /\ Within' /\ \A d \in resolver.in : d \in Inside'
<1>1. /\ resolver.pc = "apply" /\ UNCHANGED <<plan, expired, claim, create, payments>>
      /\ store' = [s \in Stores |-> IF s \in resolver.off THEN "locked" ELSE store[s]]
      /\ slots' = [s \in Stores |-> {d \in slots[s] : <<s, d>> \notin resolver.seen}]
      /\ old' = RevokedRows(resolver.seen, "plan_downgrade")
      /\ recon' = "applied" /\ resolver' = NoChoice
  BY DEF ApplyCommits
<1>2. /\ resolver.on \cap resolver.off = {} /\ resolver.on \cup resolver.off = Active
      /\ Cardinality(resolver.on) <= MaxStores[plan]
      /\ \A s \in resolver.on : Cardinality(SlotsLeft(s)) <= MaxDevices[plan]
      /\ \A d \in resolver.in : \E s \in resolver.on : d \in SlotsLeft(s)
  BY <1>1 DEF LimitsIInv, ApplyOK
<1>3. /\ store' \in [Stores -> StoreStates] /\ Active' = resolver.on
      /\ \A s \in Stores : store'[s] = "none" <=> store[s] = "none"
  <2>1. \A s \in Stores : s \in resolver.off => store[s] = "active"
    BY <1>2 DEF Active
  <2>2. \A s \in Stores : store[s] = "active" <=> s \in resolver.on \cup resolver.off
    BY <1>2 DEF Active
  <2>3. resolver.on \subseteq Stores
    BY LimitsTypes DEF Resolvers
  <2> QED BY <1>1, <1>2, <2>1, <2>2, <2>3, LimitsTypes DEF Active, StoreStates
<1>4. slots' \in [Stores -> SUBSET Devices] /\ \A s \in Stores : slots'[s] = SlotsLeft(s)
  BY <1>1, LimitsTypes DEF SlotsLeft
<1>5. ASSUME NEW p \in Pairs
      PROVE  old'[p] \in Seq(Reasons) /\ RowsOK(p)' /\ (p \notin Held => old'[p] = old[p])
  <2>1. old'[p] = IF p \in resolver.seen THEN Append(old[p], "plan_downgrade") ELSE old[p]
    BY <1>1 DEF RevokedRows
  <2>2. old[p] \in Seq(Reasons) /\ RowsOK(p) /\ MaxRows \in Nat /\ resolver.seen \subseteq Held /\ "plan_downgrade" \in Reasons
    BY LimitsTypes, Constants DEF LimitsIInv, Reasons
  <2>3. p \in Held' <=> p \in Held /\ p \notin resolver.seen
    <3>1. PICK s \in Stores, d \in Devices : p = <<s, d>>
      BY DEF Pairs
    <3> QED BY <1>4, <3>1, HeldIs, HeldIsNext DEF SlotsLeft
  <2>4. /\ Append(old[p], "plan_downgrade") \in Seq(Reasons)
        /\ Len(Append(old[p], "plan_downgrade")) = Len(old[p]) + 1 /\ Len(old[p]) \in Nat
    BY <2>2, RowsMove
  <2>5. CASE p \in resolver.seen
    BY <2>1, <2>2, <2>3, <2>4, <2>5 DEF RowsOK
  <2>6. CASE p \notin resolver.seen
    BY <2>1, <2>2, <2>3, <2>6 DEF RowsOK
  <2> QED BY <2>5, <2>6
<1>6. old' \in [Pairs -> Seq(Reasons)] /\ \A p \in Pairs : RowsOK(p)'
  <2>1. old' = [p \in Pairs |-> old'[p]]
    BY <1>1 DEF RevokedRows
  <2> QED BY <1>5, <2>1
<1>7. ASSUME NEW s \in Stores PROVE Empty(s)'
  <2> SUFFICES ASSUME store[s] = "none" PROVE slots'[s] = {} /\ \A d \in Devices : old'[<<s, d>>] = << >>
    BY <1>3 DEF Empty
  <2>1. slots[s] = {} /\ \A d \in Devices : old[<<s, d>>] = << >>
    BY LimitsTypes DEF Empty
  <2>2. \A d \in Devices : <<s, d>> \in Pairs /\ <<s, d>> \notin Held
    BY <2>1, HeldIs DEF Pairs
  <2> QED BY <1>4, <1>5, <2>1, <2>2 DEF SlotsLeft
<1>8. resolver' \in Resolvers /\ resolver'.pc = "idle" /\ resolver'.seen \subseteq Held'
  BY <1>1 DEF NoChoice, Resolvers
<1>9. create' \in Creates /\ CreateOK' /\ NothingForgotten'
  BY <1>1, <1>3, LimitsTypes DEF LimitsIInv, CreateOK, NothingForgotten
<1>10. LimitsIInv'
  BY <1>1, <1>3, <1>4, <1>6, <1>7, <1>8, <1>9, LimitsTypes, FreeInv
<1>11. Within'
  <2>1. resolver.on \subseteq Stores
    BY LimitsTypes DEF Resolvers
  <2>2. \A s \in resolver.on : slots'[s] = SlotsLeft(s)
    BY <1>4, <2>1
  <2>3. plan' = plan
    BY <1>1
  <2> QED BY <1>2, <1>3, <2>2, <2>3 DEF Within, Fits
<1>12. \A d \in resolver.in : d \in Inside'
  <2> SUFFICES ASSUME NEW d \in resolver.in PROVE d \in Inside'
    OBVIOUS
  <2>1. PICK s \in resolver.on : d \in SlotsLeft(s)
    BY <1>2
  <2>2. s \in Active' /\ d \in slots'[s] /\ d \in Devices
    BY <1>3, <1>4, <2>1, LimitsTypes DEF Resolvers
  <2> QED BY <2>2 DEF Inside
<1> QED BY <1>10, <1>11, <1>12

\* The swap reads and validates.
LEMMA SwapReadsInv ==
  ASSUME LimitsIInv, NEW d \in Owners, NEW on \in Stores, NEW off \in Stores, NEW keep \in SUBSET Devices,
         SwapReads(d, on, off, keep)
  PROVE  LimitsIInv'
<1>1. /\ store[on] = "locked" /\ store[off] = "active" /\ keep \subseteq KnownDevices(on)
      /\ d \in slots[off] => d \in keep
      /\ UNCHANGED <<plan, recon, store, slots, old, expired, claim, create, payments>>
  BY DEF SwapReads
<1>2. PICK kept, seen, in : kept = {on} \X keep /\ seen = {on} \X (slots[on] \ keep) /\ in = {d} \cap Inside
  OBVIOUS
<1>3. resolver' = [pc |-> "swap", on |-> {on}, off |-> {off}, kept |-> kept, seen |-> seen, in |-> in]
  BY <1>2 DEF SwapReads
<1>4. /\ kept \subseteq Pairs /\ seen \subseteq Pairs /\ in \subseteq Devices /\ seen \subseteq Held
  BY <1>2, LimitsTypes, Constants, HeldIs DEF Pairs
<1>5. resolver' \in Resolvers
  BY <1>3, <1>4 DEF Resolvers
<1>6. ApplyOK'
  BY <1>3 DEF ApplyOK
<1>7. SwapOK'
  <2>1. recon # "none" /\ {off} \subseteq Active /\ {on} \subseteq Locked
    BY <1>1 DEF LimitsIInv, NothingForgotten, Locked, Active
  <2>2. kept \cap seen = {} /\ \A p \in kept \cup seen : p[1] \in {on}
    BY <1>2
  <2>3. ASSUME NEW e \in in
        PROVE  \/ \E s \in Active \ {off} : e \in slots[s]
               \/ \E s \in {on} : <<s, e>> \in kept /\ e \in KnownDevices(s)
    <3>1. e = d /\ e \in Inside
      BY <1>2, <2>3
    <3>2. PICK s \in Active : e \in slots[s]
      BY <3>1 DEF Inside
    <3>3. s = off => <<on, e>> \in kept /\ e \in KnownDevices(on)
      BY <1>1, <1>2, <3>1, <3>2
    <3> QED BY <3>2, <3>3
  <2>4. Active' = Active /\ Locked' = Locked /\ KnownDevices(on)' = KnownDevices(on)
    BY <1>1 DEF Active, Locked, KnownDevices
  <2> QED BY <1>1, <1>3, <2>1, <2>2, <2>3, <2>4 DEF SwapOK
<1> QED BY <1>1, <1>3, <1>4, <1>5, <1>6, <1>7, ReadInv

\* The swap writes: the owner's device stays inside, unless its row in the
\* store that comes back has expired.
LEMMA SwapCommitsInv ==
  ASSUME LimitsIInv, SwapCommits
  PROVE  LimitsIInv' /\ \A d \in resolver.in : d \in Inside' \/ \E s \in resolver.on : <<s, d>> \in expired
<1>1. PICK back, freed : back = {p \in resolver.kept \ Held : old[p] # << >>} /\ freed = resolver.seen \cap Held
  OBVIOUS
<1>2. /\ resolver.pc = "swap" /\ UNCHANGED <<plan, recon, expired, claim, create, payments>>
      /\ store' = [s \in Stores |-> IF s \in resolver.off THEN "locked"
                                    ELSE IF s \in resolver.on THEN "active" ELSE store[s]]
      /\ slots' = [s \in Stores |-> {d \in Devices : <<s, d>> \in (Held \ freed) \cup back}]
      /\ old' = [p \in Pairs |-> IF p \in back THEN Front(old[p])
                                 ELSE IF p \in freed THEN Append(old[p], "plan_downgrade") ELSE old[p]]
      /\ resolver' = NoChoice
  BY <1>1 DEF SwapCommits
<1>3. /\ recon # "none" /\ resolver.off \subseteq Active /\ resolver.on \subseteq Locked
      /\ resolver.kept \cap resolver.seen = {}
      /\ \A d \in resolver.in :
           \/ \E s \in Active \ resolver.off : d \in slots[s]
           \/ \E s \in resolver.on : <<s, d>> \in resolver.kept /\ d \in KnownDevices(s)
  BY <1>2 DEF LimitsIInv, SwapOK
<1>4. \A p \in resolver.kept \cup resolver.seen : p[1] \in resolver.on
  BY <1>2 DEF LimitsIInv, SwapOK
<1>5. /\ store' \in [Stores -> StoreStates]
      /\ \A s \in Stores : store'[s] = "none" <=> store[s] = "none"
      /\ \A s \in Stores : s \in Active \ resolver.off => store'[s] = "active"
      /\ \A s \in Stores : s \in resolver.on => store'[s] = "active"
  BY <1>2, <1>3, LimitsTypes DEF StoreStates, Active, Locked
<1>6. slots' \in [Stores -> SUBSET Devices]
  BY <1>2
<1>7. \A s \in Stores, d \in Devices : d \in slots'[s] <=> <<s, d>> \in (Held \ freed) \cup back
  BY <1>2
<1>8. ASSUME NEW p \in Pairs
      PROVE  /\ old'[p] \in Seq(Reasons) /\ RowsOK(p)'
             /\ old[p] = << >> /\ p \notin Held => old'[p] = << >> /\ p \notin Held'
  <2>1. p \in Held' <=> (p \in Held /\ p \notin freed) \/ p \in back
    <3>1. PICK s \in Stores, d \in Devices : p = <<s, d>>
      BY DEF Pairs
    <3> QED BY <1>7, <3>1, HeldIsNext
  <2>2. old[p] \in Seq(Reasons) /\ RowsOK(p) /\ MaxRows \in Nat /\ Len(old[p]) \in Nat /\ "plan_downgrade" \in Reasons
    BY LimitsTypes, Constants, RowsMove DEF LimitsIInv, Reasons
  <2>3. CASE p \in back
    <3>1. old'[p] = Front(old[p]) /\ old[p] # << >>
      BY <1>1, <1>2, <2>3
    <3>2. old'[p] \in Seq(Reasons) /\ Len(old'[p]) = Len(old[p]) - 1
      BY <2>2, <3>1, RowsMove
    <3> QED BY <2>2, <3>1, <3>2 DEF RowsOK
  <2>4. CASE p \in freed /\ p \notin back
    <3>1. old'[p] = Append(old[p], "plan_downgrade") /\ p \in Held
      BY <1>1, <1>2, <2>4
    <3>2. old'[p] \in Seq(Reasons) /\ Len(old'[p]) = Len(old[p]) + 1
      BY <2>2, <3>1, RowsMove
    <3> QED BY <2>1, <2>2, <2>4, <3>1, <3>2 DEF RowsOK
  <2>5. CASE p \notin freed /\ p \notin back
    <3>1. old'[p] = old[p]
      BY <1>2, <2>5
    <3> QED BY <2>1, <2>2, <2>5, <3>1 DEF RowsOK
  <2> QED BY <2>3, <2>4, <2>5
<1>9. old' \in [Pairs -> Seq(Reasons)] /\ \A p \in Pairs : RowsOK(p)'
  <2>1. old' = [p \in Pairs |-> old'[p]]
    BY <1>2
  <2> QED BY <1>8, <2>1
<1>10. ASSUME NEW s \in Stores PROVE Empty(s)'
  <2> SUFFICES ASSUME store[s] = "none" PROVE slots'[s] = {} /\ \A d \in Devices : old'[<<s, d>>] = << >>
    BY <1>5 DEF Empty
  <2>1. \A d \in Devices : <<s, d>> \in Pairs /\ <<s, d>> \notin Held /\ old[<<s, d>>] = << >>
    BY LimitsTypes, HeldIs DEF Empty, Pairs
  <2>2. \A d \in Devices : <<s, d>> \notin Held' /\ old'[<<s, d>>] = << >>
    BY <1>8, <2>1
  <2> QED BY <1>6, <2>2, HeldIsNext
<1>11. resolver' \in Resolvers /\ resolver'.pc = "idle" /\ resolver'.seen \subseteq Held'
  BY <1>2 DEF NoChoice, Resolvers
<1>12. create' \in Creates /\ CreateOK' /\ NothingForgotten' /\ recon' \in {"none", "pending", "applied"}
  BY <1>2, <1>3, <1>5, LimitsTypes DEF LimitsIInv, CreateOK, NothingForgotten
<1>13. LimitsIInv'
  BY <1>2, <1>5, <1>6, <1>9, <1>10, <1>11, <1>12, LimitsTypes, FreeInv
<1>14. ASSUME NEW d \in resolver.in PROVE d \in Inside' \/ \E s \in resolver.on : <<s, d>> \in expired
  <2>1. d \in Devices /\ resolver.on \subseteq Stores
    BY LimitsTypes DEF Resolvers
  <2>2. CASE \E s \in Active \ resolver.off : d \in slots[s]
    <3>1. PICK s \in Active \ resolver.off : d \in slots[s]
      BY <2>2
    <3>2. s \in Stores /\ store[s] = "active"
      BY <3>1 DEF Active
    <3>3. s \notin resolver.on
      BY <1>3, <3>2 DEF Locked
    <3>4. <<s, d>> \in Held /\ <<s, d>> \notin freed
      BY <1>1, <1>4, <2>1, <3>1, <3>2, <3>3, HeldIs
    <3>5. d \in slots'[s] /\ s \in Active'
      BY <1>5, <1>7, <2>1, <3>1, <3>2, <3>4 DEF Active
    <3> QED BY <2>1, <3>5 DEF Inside
  <2>3. CASE \E s \in resolver.on : <<s, d>> \in resolver.kept /\ d \in KnownDevices(s)
    <3>1. PICK s \in resolver.on : <<s, d>> \in resolver.kept /\ d \in KnownDevices(s)
      BY <2>3
    <3>2. s \in Stores /\ s \in Active'
      BY <1>5, <2>1 DEF Active
    <3>3. d \in slots[s] \/ old[<<s, d>>] # << >> => <<s, d>> \in (Held \ freed) \cup back
      BY <1>1, <1>3, <2>1, <3>1, <3>2, HeldIs
    <3>4. d \in slots[s] \/ old[<<s, d>>] # << >> \/ <<s, d>> \in expired
      BY <3>1 DEF KnownDevices
    <3>5. d \in slots[s] \/ old[<<s, d>>] # << >> => d \in slots'[s]
      BY <1>7, <2>1, <3>2, <3>3
    <3> QED BY <2>1, <3>1, <3>2, <3>4, <3>5 DEF Inside
  <2> QED BY <1>3, <2>2, <2>3
<1> QED BY <1>13, <1>14
-----------------------------------------------------------------------------
\* Every step keeps the invariant.
LEMMA LimitsNextInv == LimitsIInv /\ [LimitsNext]_limitsVars => LimitsIInv'
<1> SUFFICES ASSUME LimitsIInv, [LimitsNext]_limitsVars PROVE LimitsIInv'
  OBVIOUS
<1>1. CASE UNCHANGED limitsVars
  <2>1. CreateOK' /\ claim' = claim /\ create' = create
    BY <1>1 DEF limitsVars, LimitsIInv, CreateOK
  <2> QED BY <1>1, <2>1, LimitsTypes, QuietInv DEF limitsVars
<1>2. CASE \E d \in Devices : ClaimSlot(d) \/ RevokeAllSlots(d)
  BY <1>2, ClaimInv, SlotEndsInv
<1>3. CASE \E d \in Devices, s \in Stores : ClaimStarts(d, s) \/ RemoveDevice(d, s) \/ ExpireSlot(d, s)
  BY <1>3, RequestInv, SlotEndsInv
<1>4. CASE CreateGate \/ CreateInserts \/ \E s \in Stores : CreateReads(s)
  BY <1>4, RequestInv, CreateInv
<1>5. CASE \E p \in Plans : ActivateOverLimit(p) \/ ActivateRestores(p) \/ ActivateFits(p)
  BY <1>5, ActivateInv
<1>6. CASE \E d \in Owners :
             \/ \E keep \in SUBSET Active, kept \in SUBSET Held : ApplyReads(d, keep, kept)
             \/ \E on, off \in Stores, keep \in SUBSET Devices : SwapReads(d, on, off, keep)
  BY <1>6, ApplyReadsInv, SwapReadsInv
<1>7. CASE ApplyCommits \/ SwapCommits
  BY <1>7, ApplyCommitsInv, SwapCommitsInv
<1> QED BY <1>1, <1>2, <1>3, <1>4, <1>5, <1>6, <1>7 DEF LimitsNext

\* The invariant holds in every reachable state.
THEOREM LimitsInvariant == LimitsSpec => []LimitsIInv
BY LimitsInitInv, LimitsNextInv, PTL DEF LimitsSpec

\* Nothing stays locked for a downgrade that is over: unlockDowngraded, apply
\* and swap leave no locked store behind once the status says "none".
THEOREM NothingIsForgotten == LimitsSpec => []LimitsInv
<1>1. LimitsIInv => LimitsInv
  BY DEF LimitsIInv, LimitsInv
<1> QED BY <1>1, LimitsInvariant, PTL

\* The limits hold when a resolution has been applied, whatever came while the
\* owner was choosing, and a claim never takes a store over the limit in force.
THEOREM LimitsAlwaysHold == LimitsSpec => LimitsHold
<1>1. ASSUME LimitsIInv, [LimitsNext]_limitsVars
      PROVE  [/\ ApplyCommits => Within'
              /\ \A d \in Devices : ClaimSlot(d) =>
                   \A s \in Stores : slots'[s] # slots[s] => Cardinality(slots'[s]) <= MaxDevices[plan]]_limitsVars
  BY <1>1, ApplyCommitsInv, ClaimInv
<1> QED BY <1>1, LimitsInvariant, PTL DEF LimitsSpec, LimitsHold

\* The owner who resolves or swaps is not locked out of the account with the
\* device in use.
THEOREM OwnersStayIn == LimitsSpec => OwnerStaysIn
<1>1. ASSUME LimitsIInv, [LimitsNext]_limitsVars
      PROVE  [ApplyCommits \/ SwapCommits =>
                \A d \in resolver.in : d \in Inside' \/ \E s \in resolver.on : <<s, d>> \in expired]_limitsVars
  BY <1>1, ApplyCommitsInv, SwapCommitsInv
<1> QED BY <1>1, LimitsInvariant, PTL DEF LimitsSpec, OwnerStaysIn

(***************************************************************************)
(* Membership                                                              *)
(***************************************************************************)

Ops == {"none", "assign", "revoke", "update", "delete", "invite", "accept", "reject",
        "snapshot", "standard", "critical"}
Stages == {"idle", "insert", "strike", "cas", "drop", "role", "bump", "commit", "unperm", "unsnap",
           "build", "stores", "list", "sign", "resolve", "grants", "fill", "answered"}
MemberRequests == [op : Ops, at : Stages, user : Users \cup {NoOne}, role : Roles \cup {NoOne},
             inv : Invites \cup {NoOne}, roles : SUBSET Roles, want : SUBSET Grants, ver : 0 .. MaxVersion,
             new : BOOLEAN, bumped : SUBSET Users, slow : BOOLEAN]
InviteStatuses == {"none", "pending", "lapsed", "accepted", "revoked", "expired"}
Invitations == [status : InviteStatuses, user : Users \cup {NoOne}, role : Roles \cup {NoOne}]

Open == {"bump", "commit"}               \* in a transaction that has written
Deciding == {"role", "insert"} \cup Open \* an accept that has claimed its invitation

\* The way of a request through its stages, and the names it carries.
Way(q) ==
  \/ q.op = "none" /\ q.at = "idle"
  \/ q.op = "assign" /\ q.at \in {"insert", "unperm", "unsnap"} \cup Open
  \/ q.op = "revoke" /\ q.at \in {"strike", "unperm", "unsnap"} \cup Open
  \/ q.op = "update" /\ q.at \in {"cas", "unperm", "unsnap"} \cup Open
  \/ q.op = "delete" /\ q.at = "drop"
  \/ q.op = "invite" /\ q.at \in {"insert", "commit"}
  \/ q.op = "accept" /\ q.at \in {"cas", "unperm", "unsnap", "build", "stores", "list", "sign"} \cup Deciding
  \/ q.op = "reject" /\ q.at = "cas"
  \/ q.op = "snapshot" /\ q.at \in {"build", "stores", "list", "sign"}
  \/ q.op \in {"standard", "critical"} /\ q.at \in {"resolve", "grants", "fill", "answered"}

Names(q) ==
  /\ q.op \in {"assign", "revoke", "invite", "accept", "snapshot", "standard", "critical"} => q.user \in Users
  /\ q.op \in {"assign", "revoke", "update", "delete", "invite", "accept"} => q.role \in Roles
  /\ q.op \in {"invite", "reject"} => q.inv \in Invites
  /\ q.op = "accept" /\ q.at \in {"cas"} \cup Deciding => q.inv \in Invites

\* What a writer relies on from its checks to its commit: a row it has inserted
\* is his to bump, and late if the role is gone; the row version it has claimed
\* and the invitation it decides wait for it.
WriterOK(q) ==
  /\ q.new => /\ q.op \in {"assign", "accept"} /\ q.at \in Open
              /\ ~role[q.role].live => <<q.user, q.role>> \in late
              /\ q.at = "commit" => q.user \in q.bumped
  /\ q.op = "invite" /\ q.at = "commit" => /\ invite[q.inv].status = "none"
                                           /\ ~role[q.role].live => q.inv \in late
  /\ q.op = "update" /\ q.at \in {"cas"} \cup Open => q.ver < MaxVersion
  /\ q.op = "update" /\ q.at \in Open => role[q.role].ver = q.ver
  /\ q.op = "accept" /\ q.at \in {"cas"} \cup Deciding =>
        invite[q.inv].status # "none" /\ invite[q.inv].role = q.role
  /\ q.op = "accept" /\ q.at \in Deciding => StillPending(q.inv)
  /\ q.op = "accept" /\ q.at \in Open /\ ~q.new => mapping[<<q.user, q.role>>] # "none"

\* What a reader holds: grants of the version it read, roles its user held not
\* long ago, or what such roles gave not long ago.
Slack(q) == IF q.slow THEN 1 ELSE 0
ReaderOK(q) ==
  /\ q.at \in {"stores", "list", "sign"} => q.ver <= version[q.user]
  /\ q.at = "sign" /\ q.ver = version[q.user] /\ q.user \notin unseen => q.want = Listed(q.user)
  /\ q.at = "grants" => \A r \in q.roles : left[<<q.user, r>>] <= Slack(q)
  /\ q.at = "fill" => \A g \in q.want : Lately(q.user, g, Slack(q))
  /\ q.at = "answered" => \A g \in q.want : Lately(q.user, g, Ttl(q.op) + 1)

\* One request at a time is in a transaction that holds the store, and one
\* replaces the matrix of a role.
InStore(q) == (q.op = "accept" /\ q.at \in Deciding) \/ (q.op = "invite" /\ q.at = "commit")
Replaces(q) == q.op = "update" /\ q.at \in Open
Alone(q, p) ==
  /\ ~(InStore(q) /\ InStore(p))
  /\ ~(Replaces(q) /\ Replaces(p) /\ q.role = p.role)

\* What the caches and the history know of a user.
CacheOK(u) ==
  /\ snap[u].ver <= version[u]
  /\ \A r \in RolesOf(u) : left[<<u, r>>] = 0
  /\ \A g \in perm[u].got : Lately(u, g, perm[u].age + 1)

\* What a role gives it has not lost.
TakenOK == \A r \in Roles : \A g \in role[r].grants : taken[<<r, g>>] = 0

MembersIInv ==
  /\ MembersTypeOK /\ invite \in [Invites -> Invitations] /\ req \in [Workers -> MemberRequests]
  /\ \A w \in Workers : /\ Way(req[w]) /\ Names(req[w])
                        /\ WriterOK(req[w]) /\ ReaderOK(req[w])
  /\ \A w, x \in Workers : w # x => Alone(req[w], req[x])
  /\ \A u \in Users : CacheOK(u)
  /\ TakenOK /\ NoOrphans /\ SnapshotIsCurrent
-----------------------------------------------------------------------------
RoleRows == [live : BOOLEAN, ver : 1 .. MaxVersion, grants : SUBSET Grants]
Mappings == [Users \X Roles -> {"none", "active", "revoked"}]
Resolutions == [got : SUBSET Grants, age : Ticks, ttl : {0, CriticalTtl, StandardTtl}]
Snapshots == [ver : 0 .. MaxVersion, got : SUBSET Grants]
LateRows == (Users \X Roles) \cup Invites

\* The types the invariant gives.
LEMMA MembersTypes ==
  ASSUME MembersIInv
  PROVE  /\ role \in [Roles -> RoleRows] /\ mapping \in Mappings
         /\ invite \in [Invites -> Invitations] /\ members \subseteq Users
         /\ version \in [Users -> 1 .. MaxVersion]
         /\ perm \in [Users -> Resolutions] /\ snap \in [Users -> Snapshots]
         /\ \A u \in Users : perm[u].age < perm[u].ttl \/ perm[u] = Miss
         /\ left \in [Users \X Roles -> Ticks] /\ taken \in [Roles \X Grants -> Ticks]
         /\ late \subseteq LateRows /\ unseen \subseteq Users
         /\ req \in [Workers -> MemberRequests]
         /\ CriticalTtl \in Nat \ {0} /\ StandardTtl \in Nat /\ CriticalTtl <= StandardTtl
         /\ MaxVersion \in Nat \ {0} /\ NoOne \notin Users \cup Roles \cup Invites
BY MembershipAssumption DEF MembersIInv, MembersTypeOK, RoleRows, Mappings, Resolutions, Snapshots, LateRows

\* The type invariant, from the types of its parts.
LEMMA MembersTypesGive ==
  ASSUME role \in [Roles -> RoleRows], mapping \in Mappings, invite \in [Invites -> Invitations],
         \A i \in Invites : invite[i].status # "none" => invite[i].user \in Users /\ invite[i].role \in Roles,
         members \subseteq Users, version \in [Users -> 1 .. MaxVersion],
         perm \in [Users -> Resolutions], snap \in [Users -> Snapshots],
         \A u \in Users : perm[u].age < perm[u].ttl \/ perm[u] = Miss,
         left \in [Users \X Roles -> Ticks], taken \in [Roles \X Grants -> Ticks],
         late \subseteq LateRows, unseen \subseteq Users
  PROVE  MembersTypeOK
<1>1. \A i \in Invites : invite[i].status \in InviteStatuses
  BY DEF Invitations
<1> QED BY <1>1 DEF MembersTypeOK, RoleRows, Mappings, Resolutions, Snapshots, LateRows, InviteStatuses

\* An idle request is one, and relies on nothing.
LEMMA IdleOK ==
  /\ Idle \in MemberRequests /\ Way(Idle) /\ Names(Idle) /\ ~InStore(Idle) /\ ~Replaces(Idle)
  /\ WriterOK(Idle) /\ ReaderOK(Idle)
<1>1. Idle \in MemberRequests
  BY MembershipAssumption DEF Idle, MemberRequests, Ops, Stages
<1>2. Idle.op = "none" /\ Idle.at = "idle" /\ Idle.new = FALSE
  BY DEF Idle
<1> QED BY <1>1, <1>2 DEF Way, Names, InStore, Replaces, WriterOK, ReaderOK

\* Before the first request the invariant holds.
LEMMA MembersInitInv == MembersInit => MembersIInv
<1> SUFFICES ASSUME MembersInit PROVE MembersIInv
  OBVIOUS
<1>1. \A w \in Workers : req[w] = Idle
  BY DEF MembersInit
<1>2. req \in [Workers -> MemberRequests]
  BY IdleOK DEF MembersInit
<1>3. /\ \A w \in Workers : /\ Way(req[w]) /\ Names(req[w]) /\ WriterOK(req[w]) /\ ReaderOK(req[w])
      /\ \A w, x \in Workers : w # x => Alone(req[w], req[x])
  BY <1>1, IdleOK DEF Alone
<1>4. role \in [Roles -> RoleRows] /\ \A r \in Roles : role[r].live
  <2>1. PICK f : f = role
    OBVIOUS
  <2>2. f \in [Roles -> {[live |-> TRUE, ver |-> 1, grants |-> G] : G \in SUBSET Grants}]
    BY <2>1 DEF MembersInit
  <2>3. {[live |-> TRUE, ver |-> 1, grants |-> G] : G \in SUBSET Grants} \subseteq RoleRows
    <3>1. 1 \in 1 .. MaxVersion
      BY MembershipAssumption
    <3>2. ASSUME NEW G \in SUBSET Grants PROVE [live |-> TRUE, ver |-> 1, grants |-> G] \in RoleRows
      BY <3>1 DEF RoleRows
    <3> QED BY <3>2
  <2>4. \A r \in Roles : f[r].live
    BY <2>2
  <2> QED BY <2>1, <2>2, <2>3, <2>4
<1>5. mapping \in Mappings
  BY DEF MembersInit, Mappings
<1>6. invite \in [Invites -> Invitations] /\ \A i \in Invites : invite[i].status = "none"
  BY DEF MembersInit, Invitations, InviteStatuses
<1>7. /\ members \subseteq Users /\ version \in [Users -> 1 .. MaxVersion]
      /\ perm \in [Users -> Resolutions] /\ snap \in [Users -> Snapshots]
      /\ late \subseteq LateRows /\ unseen \subseteq Users
  BY MembershipAssumption DEF MembersInit, Resolutions, Snapshots, Miss, None, Ticks
<1>8. /\ \A u \in Users : perm[u] = Miss /\ snap[u] = None /\ version[u] = 1
  BY DEF MembersInit
<1>9. left \in [Users \X Roles -> Ticks] /\ taken \in [Roles \X Grants -> Ticks]
      /\ (\A u \in Users : \A r \in RolesOf(u) : left[<<u, r>>] = 0) /\ TakenOK
  <2>1. /\ left = [p \in Users \X Roles |-> IF p[2] \in RolesOf(p[1]) THEN 0 ELSE StandardTtl + 2]
        /\ taken = [p \in Roles \X Grants |-> IF p[2] \in role[p[1]].grants THEN 0 ELSE StandardTtl + 2]
    BY DEF MembersInit
  <2>2. {0, StandardTtl + 2} \subseteq Ticks
    BY MembershipAssumption DEF Ticks
  <2>3. \A u \in Users : RolesOf(u) \subseteq Roles
    BY DEF RolesOf
  <2>4. \A r \in Roles : role[r].grants \subseteq Grants
    BY <1>4 DEF RoleRows
  <2> QED BY <2>1, <2>2, <2>3, <2>4 DEF TakenOK
<1>11. MembersTypeOK
  BY <1>4, <1>5, <1>6, <1>7, <1>8, <1>9, MembersTypesGive
<1>12. \A u \in Users : CacheOK(u)
  BY <1>8, <1>9 DEF CacheOK, Miss, None
<1>13. NoOrphans /\ SnapshotIsCurrent
  BY <1>4, <1>8 DEF NoOrphans, SnapshotIsCurrent, None
<1> QED BY <1>2, <1>3, <1>6, <1>9, <1>11, <1>12, <1>13 DEF MembersIInv

\* A request goes on: its new record keeps what a request has to keep, and so
\* do the others.
LEMMA RequestsInv ==
  ASSUME MembersIInv, NEW w \in Workers, NEW q \in MemberRequests, req' = [req EXCEPT ![w] = q],
         Way(q), Names(q), WriterOK(q)', ReaderOK(q)',
         \A x \in Workers \ {w} : Alone(q, req[x]),
         \A x \in Workers \ {w} : WriterOK(req[x])' /\ ReaderOK(req[x])'
  PROVE  /\ req' \in [Workers -> MemberRequests]
         /\ \A x \in Workers : /\ Way(req[x])' /\ Names(req[x])' /\ WriterOK(req[x])' /\ ReaderOK(req[x])'
         /\ \A x, y \in Workers : x # y => Alone(req[x], req[y])'
<1>1. req' \in [Workers -> MemberRequests] /\ req'[w] = q /\ \A x \in Workers \ {w} : req'[x] = req[x]
  BY MembersTypes
<1>2. ASSUME NEW x \in Workers
      PROVE  Way(req[x])' /\ Names(req[x])' /\ WriterOK(req[x])' /\ ReaderOK(req[x])'
  <2>1. CASE x = w
    <3>1. WriterOK(req[x])' <=> WriterOK(q)'
      BY <1>1, <2>1 DEF WriterOK
    <3>2. ReaderOK(req[x])' <=> ReaderOK(q)'
      BY <1>1, <2>1 DEF ReaderOK
    <3> QED BY <1>1, <2>1, <3>1, <3>2 DEF Way, Names
  <2>2. CASE x # w
    BY <1>1, <2>2 DEF MembersIInv, Way, Names
  <2> QED BY <2>1, <2>2
<1>3. ASSUME NEW x \in Workers, NEW y \in Workers, x # y PROVE Alone(req[x], req[y])'
  <2>1. Alone(req[x], req[y]) /\ Alone(req[y], req[x])
    BY <1>3 DEF MembersIInv
  <2>2. CASE x = w
    BY <1>1, <1>3, <2>2 DEF Alone, InStore, Replaces
  <2>3. CASE y = w
    BY <1>1, <1>3, <2>3 DEF Alone, InStore, Replaces
  <2>4. CASE x # w /\ y # w
    BY <1>1, <2>1, <2>4 DEF Alone, InStore, Replaces
  <2> QED BY <2>2, <2>3, <2>4
<1> QED BY <1>1, <1>2, <1>3

\* What a request relies on survives rows that come late.
LEMMA WriterKeeps ==
  ASSUME NEW p \in MemberRequests, WriterOK(p), UNCHANGED <<role, mapping, invite>>, late \subseteq late'
  PROVE  WriterOK(p)'
BY DEF WriterOK, StillPending

\* And what it has read, where no grants change and no time passes.
LEMMA ReaderKeeps ==
  ASSUME NEW p \in MemberRequests, ReaderOK(p), UNCHANGED <<role, mapping, version, left, taken, unseen>>
  PROVE  ReaderOK(p)'
BY DEF ReaderOK, Listed, Lately

\* A request takes the store, or a role, when it is free.
Claims(w, q) ==
  /\ InStore(q) => InStore(req[w]) \/ StoreFree
  /\ Replaces(q) => (Replaces(req[w]) /\ req[w].role = q.role) \/ RowFree(q.role)

\* So it is alone with it.
LEMMA ClaimsAlone ==
  ASSUME MembersIInv, NEW w \in Workers, NEW q, Claims(w, q)
  PROVE  \A x \in Workers \ {w} : Alone(q, req[x])
<1> TAKE x \in Workers \ {w}
<1>1. Alone(req[w], req[x])
  BY DEF MembersIInv
<1>2. InStore(q) => ~InStore(req[x])
  <2>1. StoreFree => ~InStore(req[x])
    BY DEF StoreFree, InStore, InTx, At, Deciding, Open
  <2> QED BY <1>1, <2>1 DEF Claims, Alone
<1>3. Replaces(q) /\ Replaces(req[x]) => q.role # req[x].role
  <2>1. RowFree(q.role) => ~(Replaces(req[x]) /\ req[x].role = q.role)
    BY DEF RowFree, Writes, Replaces, InTx, Open
  <2> QED BY <1>1, <2>1 DEF Claims, Alone
<1> QED BY <1>2, <1>3 DEF Alone

\* Steps of one request that leave the tables and the caches alone.
LEMMA StepInv ==
  ASSUME MembersIInv, NEW w \in Workers, NEW q \in MemberRequests, req' = [req EXCEPT ![w] = q],
         UNCHANGED <<tables, caches, fading, unseen>>, late \subseteq late', late' \subseteq LateRows,
         Way(q), Names(q), WriterOK(q)', ReaderOK(q), Claims(w, q)
  PROVE  MembersIInv'
<1>1. UNCHANGED <<role, mapping, invite, members, version, perm, snap, left, taken, unseen>>
  BY DEF tables, caches, fading
<1>2. ReaderOK(q)'
  BY <1>1, ReaderKeeps
<1>3. \A x \in Workers \ {w} : WriterOK(req[x])' /\ ReaderOK(req[x])'
  <2> TAKE x \in Workers \ {w}
  <2>1. PICK p : p = req[x]
    OBVIOUS
  <2>2. p \in MemberRequests /\ WriterOK(p) /\ ReaderOK(p)
    BY <2>1, MembersTypes DEF MembersIInv
  <2>3. WriterOK(p)' /\ ReaderOK(p)'
    BY <1>1, <2>2, WriterKeeps, ReaderKeeps
  <2>4. req'[x] = p
    BY <2>1, MembersTypes
  <2> QED BY <2>3, <2>4 DEF WriterOK, ReaderOK
<1>4. \A x \in Workers \ {w} : Alone(q, req[x])
  BY ClaimsAlone
<1>5. MembersTypeOK'
  BY <1>1, MembersTypes DEF MembersIInv, MembersTypeOK, LateRows
<1>6. (\A u \in Users : CacheOK(u)') /\ TakenOK'
  BY <1>1 DEF MembersIInv, CacheOK, RolesOf, Lately, TakenOK
<1>7. NoOrphans' /\ SnapshotIsCurrent'
  BY <1>1 DEF MembersIInv, NoOrphans, SnapshotIsCurrent, Holders, Pending, Listed
<1> QED BY <1>1, <1>2, <1>3, <1>4, <1>5, <1>6, <1>7, RequestsInv DEF MembersIInv

\* A request starts, goes on or ends and writes nothing: its record relies on
\* nothing yet.
LEMMA StartsInv ==
  ASSUME MembersIInv, NEW w \in Workers, NEW q \in MemberRequests, Starts(w, q) \/ req' = [req EXCEPT ![w] = q],
         UNCHANGED <<tables, caches, history>>, Way(q), Names(q), WriterOK(q), ReaderOK(q), Claims(w, q)
  PROVE  MembersIInv'
<1>1. UNCHANGED <<role, mapping, invite, late>> /\ UNCHANGED <<fading, unseen>>
  BY DEF tables, history
<1>2. WriterOK(q)'
  BY <1>1, WriterKeeps
<1> QED BY <1>1, <1>2, MembersTypes, StepInv DEF Starts

\* A request ends and leaves no trace.
LEMMA EndsInv ==
  ASSUME MembersIInv, NEW w \in Workers, Ends(w), UNCHANGED <<tables, caches, history>>
  PROVE  MembersIInv'
<1>1. PICK q : q = Idle
  OBVIOUS
<1>2. q \in MemberRequests /\ Way(q) /\ Names(q) /\ WriterOK(q) /\ ReaderOK(q) /\ Claims(w, q)
  BY <1>1, IdleOK DEF Claims
<1> QED BY <1>1, <1>2, StartsInv DEF Ends
-----------------------------------------------------------------------------
\* A request that starts has written and read nothing: what it relies on is
\* what its checks have found.
LEMMA BeginsInv ==
  ASSUME MembersIInv, NEW w \in Workers, NEW q \in MemberRequests, Starts(w, q), UNCHANGED <<tables, caches, history>>,
         Way(q), Names(q), q.new = FALSE, q.at \in {"insert", "strike", "cas", "drop", "build", "resolve"},
         q.op = "update" => q.ver < MaxVersion,
         q.op = "accept" => q.at = "cas" /\ invite[q.inv].status # "none" /\ invite[q.inv].role = q.role
  PROVE  MembersIInv'
<1>1. Claims(w, q)
  BY DEF Claims, InStore, Replaces, Open, Deciding
<1>2. WriterOK(q) /\ ReaderOK(q)
  BY DEF WriterOK, ReaderOK, Open, Deciding
<1> QED BY <1>1, <1>2, StartsInv

\* The unlocked checks a request starts with.
LEMMA ChecksInv ==
  ASSUME MembersIInv, NEW w \in Workers,
         \/ \E r \in Roles : DeleteChecks(w, r) \/ \E G \in SUBSET Grants : UpdateChecks(w, r, G)
         \/ \E r \in Roles, u \in Users : AssignChecks(w, u, r) \/ RevokeChecks(w, u, r)
                                           \/ \E i \in Invites : InviteChecks(w, i, u, r)
         \/ \E i \in Invites : RejectReads(w, i) \/ \E u \in Users : AcceptReads(w, i, u)
  PROVE  MembersIInv'
<1>1. CASE \E r \in Roles : DeleteChecks(w, r)
  <2>1. PICK r \in Roles : DeleteChecks(w, r)
    BY <1>1
  <2>2. PICK q : q = [Idle EXCEPT !.op = "delete", !.at = "drop", !.role = r]
    OBVIOUS
  <2>4. q \in MemberRequests
    BY <2>2, IdleOK DEF MemberRequests, Ops, Stages
  <2>5. q.op = "delete" /\ q.at = "drop" /\ q.role = r /\ q.new = FALSE
    BY <2>2 DEF Idle
  <2>6. Way(q) /\ Names(q)
    BY <2>5, MembersTypes DEF Way, Names, Open, Deciding
  <2>7. Starts(w, q) /\ UNCHANGED <<tables, caches, history>>
    BY <2>1, <2>2 DEF DeleteChecks
  <2> QED BY <2>4, <2>5, <2>6, <2>7, BeginsInv
<1>2. CASE \E r \in Roles, G \in SUBSET Grants : UpdateChecks(w, r, G)
  <2>1. PICK r \in Roles, G \in SUBSET Grants : UpdateChecks(w, r, G)
    BY <1>2
  <2>2. PICK q : q = [Idle EXCEPT !.op = "update", !.at = "cas", !.role = r, !.want = G, !.ver = role[r].ver]
    OBVIOUS
  <2>3. role[r].ver \in 0 .. MaxVersion /\ role[r].ver < MaxVersion
    <3>1. role[r] \in RoleRows /\ MaxVersion \in Nat
      BY MembersTypes
    <3>2. role[r].ver \in 1 .. MaxVersion
      BY <3>1 DEF RoleRows
    <3>3. role[r].ver < MaxVersion
      BY <2>1 DEF UpdateChecks
    <3> QED BY <3>1, <3>2, <3>3
  <2>4. q \in MemberRequests
    BY <2>2, <2>3, IdleOK DEF MemberRequests, Ops, Stages
  <2>5. q.op = "update" /\ q.at = "cas" /\ q.role = r /\ q.want = G /\ q.ver = role[r].ver /\ q.new = FALSE
    BY <2>2 DEF Idle
  <2>6. Way(q) /\ Names(q)
    BY <2>5, <2>3, MembersTypes DEF Way, Names, Open, Deciding
  <2>7. Starts(w, q) /\ UNCHANGED <<tables, caches, history>>
    BY <2>1, <2>2 DEF UpdateChecks
  <2> QED BY <2>4, <2>5, <2>6, <2>7, <2>3, BeginsInv
<1>3. CASE \E r \in Roles, u \in Users : AssignChecks(w, u, r)
  <2>1. PICK r \in Roles, u \in Users : AssignChecks(w, u, r)
    BY <1>3
  <2>2. PICK q : q = [Idle EXCEPT !.op = "assign", !.at = "insert", !.user = u, !.role = r]
    OBVIOUS
  <2>4. q \in MemberRequests
    BY <2>2, IdleOK DEF MemberRequests, Ops, Stages
  <2>5. q.op = "assign" /\ q.at = "insert" /\ q.user = u /\ q.role = r /\ q.new = FALSE
    BY <2>2 DEF Idle
  <2>6. Way(q) /\ Names(q)
    BY <2>5, MembersTypes DEF Way, Names, Open, Deciding
  <2>7. Starts(w, q) /\ UNCHANGED <<tables, caches, history>>
    BY <2>1, <2>2 DEF AssignChecks
  <2> QED BY <2>4, <2>5, <2>6, <2>7, BeginsInv
<1>4. CASE \E r \in Roles, u \in Users : RevokeChecks(w, u, r)
  <2>1. PICK r \in Roles, u \in Users : RevokeChecks(w, u, r)
    BY <1>4
  <2>2. PICK q : q = [Idle EXCEPT !.op = "revoke", !.at = "strike", !.user = u, !.role = r]
    OBVIOUS
  <2>4. q \in MemberRequests
    BY <2>2, IdleOK DEF MemberRequests, Ops, Stages
  <2>5. q.op = "revoke" /\ q.at = "strike" /\ q.user = u /\ q.role = r /\ q.new = FALSE
    BY <2>2 DEF Idle
  <2>6. Way(q) /\ Names(q)
    BY <2>5, MembersTypes DEF Way, Names, Open, Deciding
  <2>7. Starts(w, q) /\ UNCHANGED <<tables, caches, history>>
    BY <2>1, <2>2 DEF RevokeChecks
  <2> QED BY <2>4, <2>5, <2>6, <2>7, BeginsInv
<1>5. CASE \E r \in Roles, u \in Users, i \in Invites : InviteChecks(w, i, u, r)
  <2>1. PICK r \in Roles, u \in Users, i \in Invites : InviteChecks(w, i, u, r)
    BY <1>5
  <2>2. PICK q : q = [Idle EXCEPT !.op = "invite", !.at = "insert", !.inv = i, !.user = u, !.role = r]
    OBVIOUS
  <2>4. q \in MemberRequests
    BY <2>2, IdleOK DEF MemberRequests, Ops, Stages
  <2>5. q.op = "invite" /\ q.at = "insert" /\ q.inv = i /\ q.user = u /\ q.role = r /\ q.new = FALSE
    BY <2>2 DEF Idle
  <2>6. Way(q) /\ Names(q)
    BY <2>5, MembersTypes DEF Way, Names, Open, Deciding
  <2>7. Starts(w, q) /\ UNCHANGED <<tables, caches, history>>
    BY <2>1, <2>2 DEF InviteChecks
  <2> QED BY <2>4, <2>5, <2>6, <2>7, BeginsInv
<1>6. CASE \E i \in Invites : RejectReads(w, i)
  <2>1. PICK i \in Invites : RejectReads(w, i)
    BY <1>6
  <2>2. PICK q : q = [Idle EXCEPT !.op = "reject", !.at = "cas", !.inv = i]
    OBVIOUS
  <2>4. q \in MemberRequests
    BY <2>2, IdleOK DEF MemberRequests, Ops, Stages
  <2>5. q.op = "reject" /\ q.at = "cas" /\ q.inv = i /\ q.new = FALSE
    BY <2>2 DEF Idle
  <2>6. Way(q) /\ Names(q)
    BY <2>5, MembersTypes DEF Way, Names, Open, Deciding
  <2>7. Starts(w, q) /\ UNCHANGED <<tables, caches, history>>
    BY <2>1, <2>2 DEF RejectReads
  <2> QED BY <2>4, <2>5, <2>6, <2>7, BeginsInv
<1>7. CASE \E i \in Invites, u \in Users : AcceptReads(w, i, u)
  <2>1. PICK i \in Invites, u \in Users : AcceptReads(w, i, u)
    BY <1>7
  <2>2. PICK q : q = [Idle EXCEPT !.op = "accept", !.at = "cas", !.inv = i, !.user = u, !.role = invite[i].role]
    OBVIOUS
  <2>3. invite[i].status = "pending" /\ invite[i].role \in Roles
    BY <2>1 DEF AcceptReads, MembersIInv, MembersTypeOK
  <2>4. q \in MemberRequests
    BY <2>2, <2>3, IdleOK DEF MemberRequests, Ops, Stages
  <2>5. q.op = "accept" /\ q.at = "cas" /\ q.inv = i /\ q.user = u /\ q.role = invite[i].role /\ q.new = FALSE
    BY <2>2 DEF Idle
  <2>6. Way(q) /\ Names(q)
    BY <2>5, <2>3, MembersTypes DEF Way, Names, Open, Deciding
  <2>7. Starts(w, q) /\ UNCHANGED <<tables, caches, history>>
    BY <2>1, <2>2 DEF AcceptReads
  <2> QED BY <2>4, <2>5, <2>6, <2>7, <2>3, BeginsInv
<1> QED BY <1>1, <1>2, <1>3, <1>4, <1>5, <1>6, <1>7

\* A login or a refresh asks for a snapshot.
LEMMA SnapshotInv ==
  ASSUME MembersIInv, NEW w \in Workers, NEW u \in Users, Snapshot(w, u)
  PROVE  MembersIInv'
<1>1. PICK q : q = [Idle EXCEPT !.op = "snapshot", !.at = "build", !.user = u]
  OBVIOUS
<1>2. q \in MemberRequests
  BY <1>1, IdleOK DEF MemberRequests, Ops, Stages
<1>3. q.op = "snapshot" /\ q.at = "build" /\ q.user = u /\ q.new = FALSE
  BY <1>1 DEF Idle
<1>4. Way(q) /\ Names(q)
  BY <1>3 DEF Way, Names
<1>5. Starts(w, q) /\ UNCHANGED <<tables, caches, history>>
  BY <1>1 DEF Snapshot
<1> QED BY <1>2, <1>3, <1>4, <1>5, BeginsInv

\* The record of a request has its types.
LEMMA RequestTypes ==
  ASSUME MembersIInv, NEW w \in Workers
  PROVE  req[w] \in MemberRequests /\ Way(req[w]) /\ Names(req[w]) /\ WriterOK(req[w]) /\ ReaderOK(req[w])
BY MembersTypes DEF MembersIInv

\* findActiveMemberIds: the owner of a new row is among those to bump.
LEMMA BumpInv ==
  ASSUME MembersIInv, NEW w \in Workers, Bump(w)
  PROVE  MembersIInv'
<1>1. PICK p : p = req[w]
  OBVIOUS
<1>2. p \in MemberRequests /\ p.at = "bump" /\ Way(p) /\ Names(p) /\ WriterOK(p) /\ ReaderOK(p)
  BY <1>1, RequestTypes DEF Bump
<1>3. PICK B : B = Bumped(w)
  OBVIOUS
<1>4. p.new => p.user \in Users /\ p.op # "revoke"
  BY <1>2 DEF WriterOK, Names
<1>5. B \in SUBSET Users /\ (p.new => p.user \in B)
  BY <1>1, <1>3, <1>4 DEF Bumped, Holders
<1>6. PICK q : q = [p EXCEPT !.at = "commit", !.bumped = B]
  OBVIOUS
<1>7. q \in MemberRequests
  BY <1>2, <1>5, <1>6 DEF MemberRequests, Stages
<1>8. Way(q) /\ Names(q) /\ Claims(w, q)
  BY <1>1, <1>2, <1>6 DEF MemberRequests, Way, Names, Claims, InStore, Replaces, Open, Deciding
<1>9. WriterOK(q) /\ ReaderOK(q)
  BY <1>2, <1>5, <1>6 DEF MemberRequests, Way, WriterOK, ReaderOK, Open, Deciding
<1>10. req' = [req EXCEPT ![w] = q] /\ UNCHANGED <<tables, caches, history>>
  BY <1>1, <1>3, <1>6 DEF Bump
<1> QED BY <1>7, <1>8, <1>9, <1>10, StartsInv

\* A request goes to its next stage and writes nothing.
LEMMA GoesInv ==
  ASSUME MembersIInv, NEW w \in Workers, NEW at \in Stages, Goes(w, at), UNCHANGED <<tables, caches, history>>,
         NEW q, q = [req[w] EXCEPT !.at = at], Way(q), Names(q), WriterOK(q), ReaderOK(q), Claims(w, q)
  PROVE  MembersIInv'
<1>1. q \in MemberRequests
  BY RequestTypes DEF MemberRequests
<1>2. req' = [req EXCEPT ![w] = q]
  BY DEF Goes
<1> QED BY <1>1, <1>2, StartsInv
-----------------------------------------------------------------------------
\* An insert that finds a row ends or goes on without one; a row it puts on a
\* deleted role is late.
LEMMA InsertsInv ==
  ASSUME MembersIInv, NEW w \in Workers, req[w].op \in {"assign", "accept"}, req[w].at = "insert",
         NEW new \in BOOLEAN, new \/ mapping[<<req[w].user, req[w].role>>] # "none",
         new \/ req[w].op = "accept",
         req' = [req EXCEPT ![w].at = "bump", ![w].new = new],
         late' = IF new THEN late \cup Late(w) ELSE late,
         UNCHANGED <<tables, caches, fading, unseen>>
  PROVE  MembersIInv'
<1>1. PICK p : p = req[w]
  OBVIOUS
<1>2. p \in MemberRequests /\ p.op \in {"assign", "accept"} /\ p.at = "insert" /\ Way(p) /\ Names(p) /\ WriterOK(p)
  BY <1>1, RequestTypes
<1>3. p.user \in Users /\ p.role \in Roles
  BY <1>2 DEF Names
<1>4. late \subseteq late' /\ late' \subseteq LateRows
  BY <1>1, <1>3, MembersTypes DEF Late, LateRows
<1>5. PICK q : q = [p EXCEPT !.at = "bump", !.new = new]
  OBVIOUS
<1>6. q \in MemberRequests
  BY <1>2, <1>5 DEF MemberRequests, Stages
<1>7. q.op = p.op /\ q.at = "bump" /\ q.new = new /\ q.user = p.user /\ q.role = p.role /\ q.inv = p.inv
  BY <1>2, <1>5 DEF MemberRequests
<1>8. Way(q) /\ Names(q) /\ Claims(w, q) /\ ReaderOK(q)
  BY <1>1, <1>2, <1>7 DEF Way, Names, Claims, InStore, Replaces, ReaderOK, Open, Deciding
<1>9. WriterOK(q)'
  <2>1. UNCHANGED <<role, mapping, invite>>
    BY DEF tables
  <2>2. new /\ ~role[p.role].live => <<p.user, p.role>> \in late'
    BY <1>1 DEF Late
  <2>3. p.op = "accept" => /\ invite[p.inv].status # "none" /\ invite[p.inv].role = p.role
                           /\ StillPending(p.inv)
    BY <1>2 DEF WriterOK, Deciding
  <2> QED BY <1>1, <1>2, <1>7, <2>1, <2>2, <2>3 DEF WriterOK, StillPending, Open, Deciding
<1>10. req' = [req EXCEPT ![w] = q]
  BY <1>1, <1>5
<1> QED BY <1>4, <1>6, <1>8, <1>9, <1>10, StepInv

\* The insert of an assignment.
LEMMA AssignInsertsInv ==
  ASSUME MembersIInv, NEW w \in Workers, AssignInserts(w)
  PROVE  MembersIInv'
<1>1. CASE mapping[<<req[w].user, req[w].role>>] = "none"
  BY <1>1, InsertsInv DEF AssignInserts, At
<1>2. CASE mapping[<<req[w].user, req[w].role>>] # "none"
  BY <1>2, EndsInv DEF AssignInserts, history
<1> QED BY <1>1, <1>2

\* The insert of an accepted invitation.
LEMMA AcceptInsertsInv ==
  ASSUME MembersIInv, NEW w \in Workers, AcceptInserts(w)
  PROVE  MembersIInv'
<1>1. PICK absent \in BOOLEAN : absent = (mapping[<<req[w].user, req[w].role>>] = "none")
  OBVIOUS
<1>2. /\ req' = [req EXCEPT ![w].at = "bump", ![w].new = absent]
      /\ late' = IF absent THEN late \cup Late(w) ELSE late
  BY <1>1 DEF AcceptInserts
<1> QED BY <1>1, <1>2, InsertsInv DEF AcceptInserts, At

\* revokeAssignment, on a row that is active.
LEMMA RevokeStrikesInv ==
  ASSUME MembersIInv, NEW w \in Workers, RevokeStrikes(w)
  PROVE  MembersIInv'
<1>1. PICK p : p = req[w]
  OBVIOUS
<1>2. p \in MemberRequests /\ p.op = "revoke" /\ p.at = "strike" /\ Names(p) /\ WriterOK(p)
  BY <1>1, RequestTypes DEF RevokeStrikes, At
<1>3. PICK q : q = [p EXCEPT !.at = "bump"]
  OBVIOUS
<1>4. q.op = "revoke" /\ q.at = "bump" /\ q.new = FALSE /\ q.user = p.user /\ q.role = p.role
  BY <1>2, <1>3 DEF MemberRequests, WriterOK, Open
<1>5. Way(q) /\ Names(q) /\ Claims(w, q) /\ WriterOK(q) /\ ReaderOK(q)
  BY <1>2, <1>4 DEF Way, Names, Claims, InStore, Replaces, WriterOK, ReaderOK, Open, Deciding
<1> QED BY <1>1, <1>3, <1>5, GoesInv, EndsInv DEF RevokeStrikes, Stages

\* casUpdateRowVersion: nobody else replaces the matrix meanwhile.
LEMMA UpdateClaimsInv ==
  ASSUME MembersIInv, NEW w \in Workers, UpdateClaims(w)
  PROVE  MembersIInv'
<1>1. PICK p : p = req[w]
  OBVIOUS
<1>2. p \in MemberRequests /\ p.op = "update" /\ p.at = "cas" /\ Names(p) /\ WriterOK(p)
  BY <1>1, RequestTypes DEF UpdateClaims, At
<1>3. CASE role[p.role].ver = p.ver
  <2>1. PICK q : q = [p EXCEPT !.at = "bump"]
    OBVIOUS
  <2>2. /\ q.op = "update" /\ q.at = "bump" /\ q.new = FALSE /\ q.ver = p.ver /\ q.role = p.role
        /\ p.ver < MaxVersion /\ p.role \in Roles
    BY <1>2, <2>1 DEF MemberRequests, WriterOK, Names, Open
  <2>3. Claims(w, q)
    BY <1>1, <2>2 DEF Claims, InStore, UpdateClaims
  <2>4. Way(q) /\ Names(q) /\ WriterOK(q) /\ ReaderOK(q)
    BY <1>3, <2>2 DEF Way, Names, WriterOK, ReaderOK, Open, Deciding
  <2> QED BY <1>1, <1>3, <2>1, <2>3, <2>4, GoesInv DEF UpdateClaims, Stages
<1>4. CASE role[p.role].ver # p.ver
  BY <1>1, <1>4, EndsInv DEF UpdateClaims
<1> QED BY <1>3, <1>4

\* The insert of an invitation, under the lock of the store.
LEMMA InviteInsertsInv ==
  ASSUME MembersIInv, NEW w \in Workers, InviteInserts(w)
  PROVE  MembersIInv'
<1>1. PICK p : p = req[w]
  OBVIOUS
<1>2. p \in MemberRequests /\ p.op = "invite" /\ p.at = "insert" /\ Names(p) /\ WriterOK(p)
  BY <1>1, RequestTypes DEF InviteInserts, At
<1>3. CASE Pending(p.role, p.user, "pending") = {} /\ invite[p.inv].status = "none"
  <2>1. PICK q : q = [p EXCEPT !.at = "commit"]
    OBVIOUS
  <2>2. /\ q.op = "invite" /\ q.at = "commit" /\ q.new = FALSE /\ q.user = p.user /\ q.role = p.role
        /\ q.inv = p.inv /\ p.inv \in Invites /\ p.user \in Users /\ p.role \in Roles
    BY <1>2, <2>1 DEF MemberRequests, WriterOK, Names, Open
  <2>3. q \in MemberRequests
    BY <1>2, <2>1 DEF MemberRequests, Stages
  <2>4. req' = [req EXCEPT ![w] = q] /\ late' = IF role[p.role].live THEN late ELSE late \cup {p.inv}
    BY <1>1, <1>3, <2>1 DEF InviteInserts, Goes
  <2>5. late \subseteq late' /\ late' \subseteq LateRows
    BY <2>2, <2>4, MembersTypes DEF LateRows
  <2>6. Way(q) /\ Names(q) /\ ReaderOK(q)
    BY <2>2 DEF Way, Names, ReaderOK, Open, Deciding
  <2>7. Claims(w, q)
    BY <2>2 DEF Claims, Replaces, InviteInserts
  <2>8. UNCHANGED <<tables, caches, fading, unseen>> /\ UNCHANGED <<role, invite>>
    BY DEF InviteInserts, tables
  <2>9. WriterOK(q)'
    BY <1>3, <2>2, <2>4, <2>8 DEF WriterOK, Open, Deciding
  <2> QED BY <2>3, <2>4, <2>5, <2>6, <2>7, <2>8, <2>9, StepInv
<1>4. CASE ~(Pending(p.role, p.user, "pending") = {} /\ invite[p.inv].status = "none")
  BY <1>1, <1>4, EndsInv DEF InviteInserts, history
<1> QED BY <1>3, <1>4

\* markAccepted takes the store, and an invitation nobody has decided.
LEMMA AcceptClaimsInv ==
  ASSUME MembersIInv, NEW w \in Workers, AcceptClaims(w)
  PROVE  MembersIInv'
<1>1. PICK p : p = req[w]
  OBVIOUS
<1>2. p \in MemberRequests /\ p.op = "accept" /\ p.at = "cas" /\ Names(p) /\ WriterOK(p)
  BY <1>1, RequestTypes DEF AcceptClaims, At
<1>3. CASE StillPending(p.inv)
  <2>1. PICK q : q = [p EXCEPT !.at = "role"]
    OBVIOUS
  <2>2. /\ q.op = "accept" /\ q.at = "role" /\ q.new = FALSE /\ q.inv = p.inv /\ q.role = p.role /\ q.user = p.user
        /\ invite[p.inv].status # "none" /\ invite[p.inv].role = p.role
    BY <1>2, <2>1 DEF MemberRequests, WriterOK, Open
  <2>3. Claims(w, q)
    BY <2>2 DEF Claims, Replaces, AcceptClaims
  <2>4. Way(q) /\ Names(q) /\ WriterOK(q) /\ ReaderOK(q)
    BY <1>2, <1>3, <2>2 DEF Way, Names, WriterOK, ReaderOK, Open, Deciding
  <2> QED BY <1>1, <1>3, <2>1, <2>3, <2>4, GoesInv DEF AcceptClaims, Stages
<1>4. CASE ~StillPending(p.inv)
  BY <1>1, <1>4, EndsInv DEF AcceptClaims
<1> QED BY <1>3, <1>4

\* The role of an invitation is looked at again.
LEMMA AcceptChecksRoleInv ==
  ASSUME MembersIInv, NEW w \in Workers, AcceptChecksRole(w)
  PROVE  MembersIInv'
<1>1. PICK p : p = req[w]
  OBVIOUS
<1>2. p \in MemberRequests /\ p.op = "accept" /\ p.at = "role" /\ Names(p) /\ WriterOK(p)
  BY <1>1, RequestTypes DEF AcceptChecksRole, At
<1>3. CASE role[p.role].live
  <2>1. PICK q : q = [p EXCEPT !.at = "insert"]
    OBVIOUS
  <2>2. /\ q.op = "accept" /\ q.at = "insert" /\ q.new = FALSE /\ q.inv = p.inv /\ q.role = p.role /\ q.user = p.user
        /\ invite[p.inv].status # "none" /\ invite[p.inv].role = p.role /\ StillPending(p.inv)
    BY <1>2, <2>1 DEF MemberRequests, WriterOK, Open, Deciding
  <2>3. Claims(w, q)
    BY <1>1, <1>2, <2>2 DEF Claims, Replaces, InStore, Deciding
  <2>4. Way(q) /\ Names(q) /\ WriterOK(q) /\ ReaderOK(q)
    BY <1>2, <2>2 DEF Way, Names, WriterOK, ReaderOK, Open, Deciding
  <2> QED BY <1>1, <1>3, <2>1, <2>3, <2>4, GoesInv DEF AcceptChecksRole, Stages
<1>4. CASE ~role[p.role].live
  BY <1>1, <1>4, EndsInv DEF AcceptChecksRole
<1> QED BY <1>3, <1>4

\* A snapshot is built: the version is read first, and then the grants.
LEMMA BuildReadsVersionInv ==
  ASSUME MembersIInv, NEW w \in Workers, BuildReadsVersion(w)
  PROVE  MembersIInv'
<1>1. PICK p : p = req[w]
  OBVIOUS
<1>2. p \in MemberRequests /\ p.at = "build" /\ Way(p) /\ Names(p) /\ WriterOK(p)
  BY <1>1, RequestTypes DEF BuildReadsVersion
<1>3. p.op \in {"accept", "snapshot"} /\ p.new = FALSE /\ p.user \in Users
  BY <1>2 DEF Way, Names, WriterOK, Open, Deciding, MemberRequests
<1>4. PICK v : v = version[p.user]
  OBVIOUS
<1>5. v \in 0 .. MaxVersion /\ v <= v
  BY <1>3, <1>4, MembersTypes
<1>6. PICK q : q = [p EXCEPT !.at = "stores", !.ver = v]
  OBVIOUS
<1>7. q \in MemberRequests /\ q.op = p.op /\ q.at = "stores" /\ q.ver = v /\ q.new = FALSE /\ q.user = p.user
      /\ q.role = p.role
  BY <1>2, <1>3, <1>5, <1>6 DEF MemberRequests, Stages
<1>8. Way(q) /\ Names(q) /\ WriterOK(q) /\ Claims(w, q)
  BY <1>2, <1>3, <1>7 DEF Way, Names, WriterOK, Claims, InStore, Replaces, Open, Deciding
<1>9. ReaderOK(q)
  BY <1>4, <1>5, <1>7 DEF ReaderOK
<1>10. req' = [req EXCEPT ![w] = q] /\ UNCHANGED <<tables, caches, history>>
  BY <1>1, <1>4, <1>6 DEF BuildReadsVersion
<1> QED BY <1>7, <1>8, <1>9, <1>10, StartsInv

\* A user without a role is listed with nothing.
LEMMA BuildReadsStoresInv ==
  ASSUME MembersIInv, NEW w \in Workers, BuildReadsStores(w)
  PROVE  MembersIInv'
<1>1. PICK p : p = req[w]
  OBVIOUS
<1>2. p \in MemberRequests /\ p.at = "stores" /\ Way(p) /\ Names(p) /\ WriterOK(p) /\ ReaderOK(p)
  BY <1>1, RequestTypes DEF BuildReadsStores
<1>3. p.op \in {"accept", "snapshot"} /\ p.new = FALSE /\ p.user \in Users
  BY <1>2 DEF Way, Names, WriterOK, Open, Deciding, MemberRequests
<1>4. PICK stage : stage = IF \E r \in Roles : mapping[<<p.user, r>>] = "active" THEN "list" ELSE "sign"
  OBVIOUS
<1>5. PICK q : q = [p EXCEPT !.want = {}, !.at = stage]
  OBVIOUS
<1>6. q \in MemberRequests /\ q.op = p.op /\ q.at = stage /\ q.want = {} /\ q.ver = p.ver /\ q.new = FALSE
      /\ q.user = p.user /\ q.role = p.role
  BY <1>2, <1>3, <1>4, <1>5 DEF MemberRequests, Stages
<1>7. stage \in {"list", "sign"}
  BY <1>4
<1>8. Way(q) /\ Names(q) /\ WriterOK(q) /\ Claims(w, q)
  BY <1>2, <1>3, <1>6, <1>7 DEF Way, Names, WriterOK, Claims, InStore, Replaces, Open, Deciding
<1>9. stage = "sign" => Listed(p.user) = {}
  BY <1>4 DEF Listed
<1>10. ReaderOK(q)
  BY <1>2, <1>6, <1>7, <1>9 DEF ReaderOK
<1>11. req' = [req EXCEPT ![w] = q] /\ UNCHANGED <<tables, caches, history>>
  BY <1>1, <1>4, <1>5 DEF BuildReadsStores
<1> QED BY <1>6, <1>8, <1>10, <1>11, StartsInv

\* Grants that are read belong to the role rows.
LEMMA GrantTypes ==
  ASSUME MembersIInv, NEW u \in Users
  PROVE  Listed(u) \subseteq Grants
<1>1. \A r \in Roles : role[r].grants \subseteq Grants
  BY MembersTypes DEF RoleRows
<1> QED BY <1>1 DEF Listed

\* The grants a snapshot lists are those of the version it read, or the
\* version has moved on.
LEMMA BuildReadsGrantsInv ==
  ASSUME MembersIInv, NEW w \in Workers, BuildReadsGrants(w)
  PROVE  MembersIInv'
<1>1. PICK p : p = req[w]
  OBVIOUS
<1>2. p \in MemberRequests /\ p.at = "list" /\ Way(p) /\ Names(p) /\ WriterOK(p) /\ ReaderOK(p)
  BY <1>1, RequestTypes DEF BuildReadsGrants
<1>3. p.op \in {"accept", "snapshot"} /\ p.new = FALSE /\ p.user \in Users
  BY <1>2 DEF Way, Names, WriterOK, Open, Deciding, MemberRequests
<1>4. PICK G : G = Listed(p.user)
  OBVIOUS
<1>5. G \in SUBSET Grants
  BY <1>3, <1>4, GrantTypes
<1>6. PICK q : q = [p EXCEPT !.at = "sign", !.want = G]
  OBVIOUS
<1>7. q \in MemberRequests /\ q.op = p.op /\ q.at = "sign" /\ q.want = G /\ q.ver = p.ver /\ q.new = FALSE
      /\ q.user = p.user /\ q.role = p.role
  BY <1>2, <1>3, <1>5, <1>6 DEF MemberRequests, Stages
<1>8. Way(q) /\ Names(q) /\ WriterOK(q) /\ Claims(w, q)
  BY <1>2, <1>3, <1>7 DEF Way, Names, WriterOK, Claims, InStore, Replaces, Open, Deciding
<1>9. ReaderOK(q)
  BY <1>2, <1>4, <1>7 DEF ReaderOK
<1>10. req' = [req EXCEPT ![w] = q] /\ UNCHANGED <<tables, caches, history>>
  BY <1>1, <1>4, <1>6 DEF BuildReadsGrants
<1> QED BY <1>7, <1>8, <1>9, <1>10, StartsInv

\* The roles are read from the tables: the user holds them.
LEMMA PermReadsRolesInv ==
  ASSUME MembersIInv, NEW w \in Workers, PermReadsRoles(w)
  PROVE  MembersIInv'
<1>1. PICK p : p = req[w]
  OBVIOUS
<1>2. p \in MemberRequests /\ p.at = "resolve" /\ Way(p) /\ Names(p) /\ WriterOK(p)
  BY <1>1, RequestTypes DEF PermReadsRoles
<1>3. p.op \in {"standard", "critical"} /\ p.new = FALSE /\ p.user \in Users
  BY <1>2 DEF Way, Names, WriterOK, Open, Deciding, MemberRequests
<1>4. PICK R, stage : R = RolesOf(p.user) /\ stage = IF R = {} THEN "fill" ELSE "grants"
  OBVIOUS
<1>5. R \in SUBSET Roles /\ \A r \in R : left[<<p.user, r>>] = 0
  BY <1>3, <1>4 DEF MembersIInv, CacheOK, RolesOf
<1>6. PICK q : q = [p EXCEPT !.at = stage, !.roles = R, !.want = {}]
  OBVIOUS
<1>7. q \in MemberRequests /\ q.op = p.op /\ q.at = stage /\ q.roles = R /\ q.want = {} /\ q.new = FALSE
      /\ q.user = p.user /\ q.role = p.role
  BY <1>2, <1>3, <1>4, <1>5, <1>6 DEF MemberRequests, Stages
<1>8. stage \in {"fill", "grants"}
  BY <1>4
<1>9. Way(q) /\ Names(q) /\ WriterOK(q) /\ Claims(w, q)
  BY <1>2, <1>3, <1>7, <1>8 DEF Way, Names, WriterOK, Claims, InStore, Replaces, Open, Deciding
<1>10. ReaderOK(q)
  BY <1>5, <1>7, <1>8 DEF ReaderOK, Slack
<1>11. req' = [req EXCEPT ![w] = q] /\ UNCHANGED <<tables, caches, history>>
  BY <1>1, <1>4, <1>6 DEF PermReadsRoles
<1> QED BY <1>7, <1>9, <1>10, <1>11, StartsInv

\* What the roles give is read: they give it now, and the user held them a
\* moment ago.
LEMMA PermReadsGrantsInv ==
  ASSUME MembersIInv, NEW w \in Workers, PermReadsGrants(w)
  PROVE  MembersIInv'
<1>1. PICK p : p = req[w]
  OBVIOUS
<1>2. p \in MemberRequests /\ p.at = "grants" /\ Way(p) /\ Names(p) /\ WriterOK(p) /\ ReaderOK(p)
  BY <1>1, RequestTypes DEF PermReadsGrants
<1>3. p.op \in {"standard", "critical"} /\ p.new = FALSE /\ p.user \in Users /\ p.roles \subseteq Roles
  BY <1>2 DEF Way, Names, WriterOK, Open, Deciding, MemberRequests
<1>4. PICK G : G = UNION {role[r].grants : r \in p.roles}
  OBVIOUS
<1>5. G \in SUBSET Grants
  <2>1. \A r \in Roles : role[r].grants \subseteq Grants
    BY MembersTypes DEF RoleRows
  <2> QED BY <1>3, <1>4, <2>1
<1>6. PICK q : q = [p EXCEPT !.at = "fill", !.roles = {}, !.want = G]
  OBVIOUS
<1>7. q \in MemberRequests /\ q.op = p.op /\ q.at = "fill" /\ q.want = G /\ q.new = FALSE
      /\ q.user = p.user /\ q.role = p.role /\ q.slow = p.slow
  BY <1>2, <1>3, <1>5, <1>6 DEF MemberRequests, Stages
<1>8. Way(q) /\ Names(q) /\ WriterOK(q) /\ Claims(w, q)
  BY <1>2, <1>3, <1>7 DEF Way, Names, WriterOK, Claims, InStore, Replaces, Open, Deciding
<1>9. ASSUME NEW g \in G PROVE Lately(p.user, g, Slack(p))
  <2>1. PICK r \in p.roles : g \in role[r].grants
    BY <1>4
  <2>2. left[<<p.user, r>>] <= Slack(p)
    BY <1>2, <2>1 DEF ReaderOK
  <2>3. taken[<<r, g>>] = 0 /\ r \in Roles
    BY <1>3, <2>1 DEF MembersIInv, TakenOK
  <2>4. 0 <= Slack(p)
    BY DEF Slack
  <2> QED BY <2>2, <2>3, <2>4 DEF Lately
<1>10. ReaderOK(q)
  BY <1>7, <1>9 DEF ReaderOK, Slack
<1>11. req' = [req EXCEPT ![w] = q] /\ UNCHANGED <<tables, caches, history>>
  BY <1>1, <1>4, <1>6 DEF PermReadsGrants
<1> QED BY <1>7, <1>8, <1>10, <1>11, StartsInv

\* A longer time ago is as good.
LEMMA LatelyMore ==
  ASSUME MembersIInv, NEW u \in Users, NEW g \in Grants, NEW m \in Int, NEW n \in Int, m <= n, Lately(u, g, m)
  PROVE  Lately(u, g, n)
<1>1. PICK r \in Roles : left[<<u, r>>] <= m /\ taken[<<r, g>>] <= m
  BY DEF Lately
<1>2. PICK a, b : a = left[<<u, r>>] /\ b = taken[<<r, g>>]
  OBVIOUS
<1>3. a \in 0 .. StandardTtl + 2 /\ b \in 0 .. StandardTtl + 2 /\ StandardTtl \in Nat
  BY <1>2, MembersTypes DEF Ticks
<1>4. a <= n /\ b <= n
  BY <1>1, <1>2, <1>3
<1> QED BY <1>2, <1>4 DEF Lately

\* An entry that is fresh enough answers: its age bounds how long ago what is in
\* it was lost.
LEMMA PermReadsInv ==
  ASSUME MembersIInv, NEW w \in Workers, NEW op \in {"standard", "critical"}, NEW u \in Users, PermReads(w, op, u)
  PROVE  MembersIInv'
<1>1. CASE FreshEnough(op, u)
  <2>1. PICK G : G = perm[u].got
    OBVIOUS
  <2>2. PICK q : q = [Idle EXCEPT !.op = op, !.at = "answered", !.user = u, !.want = G]
    OBVIOUS
  <2>3. perm[u] \in Resolutions
    BY MembersTypes
  <2>4. G \in SUBSET Grants
    BY <2>1, <2>3 DEF Resolutions
  <2>5. perm[u].age <= Ttl(op)
    <3>1. /\ perm[u].age \in Int /\ perm[u].ttl \in {0, CriticalTtl, StandardTtl}
          /\ perm[u].age < perm[u].ttl
          /\ op = "critical" => perm[u].age <= CriticalTtl
      BY <1>1, <2>3, MembersTypes DEF Resolutions, Ticks, FreshEnough
    <3> QED BY <3>1, MembersTypes DEF Ttl
  <2>6. q \in MemberRequests
    BY <2>2, <2>4, IdleOK DEF MemberRequests, Ops, Stages
  <2>7. q.op = op /\ q.at = "answered" /\ q.user = u /\ q.want = G /\ q.new = FALSE
    BY <2>2 DEF Idle
  <2>8. Way(q) /\ Names(q) /\ WriterOK(q) /\ Claims(w, q)
    BY <2>7 DEF Way, Names, WriterOK, Claims, InStore, Replaces, Open, Deciding
  <2>9. ReaderOK(q)
    <3>1. ASSUME NEW g \in G PROVE Lately(u, g, Ttl(op) + 1)
      <4>1. Lately(u, g, perm[u].age + 1) /\ g \in Grants
        BY <2>1, <2>4 DEF MembersIInv, CacheOK
      <4>2. perm[u].age \in Int /\ Ttl(op) \in Int
        BY <2>3, MembersTypes DEF Ticks, Resolutions, Ttl
      <4>3. perm[u].age + 1 <= Ttl(op) + 1 /\ perm[u].age + 1 \in Int /\ Ttl(op) + 1 \in Int
        BY <2>5, <4>2
      <4> QED BY <4>1, <4>3, LatelyMore
    <3> QED BY <2>7, <3>1 DEF ReaderOK
  <2>10. Starts(w, q) /\ UNCHANGED <<tables, caches, history>>
    BY <1>1, <2>1, <2>2 DEF PermReads
  <2> QED BY <2>6, <2>8, <2>9, <2>10, StartsInv
<1>2. CASE ~FreshEnough(op, u)
  <2>1. PICK q : q = [Idle EXCEPT !.op = op, !.at = "resolve", !.user = u]
    OBVIOUS
  <2>2. q \in MemberRequests
    BY <2>1, IdleOK DEF MemberRequests, Ops, Stages
  <2>3. q.op = op /\ q.at = "resolve" /\ q.user = u /\ q.new = FALSE
    BY <2>1 DEF Idle
  <2>4. Way(q) /\ Names(q)
    BY <2>3 DEF Way, Names
  <2>5. Starts(w, q) /\ UNCHANGED <<tables, caches, history>>
    BY <1>2, <2>1 DEF PermReads
  <2> QED BY <2>2, <2>3, <2>4, <2>5, BeginsInv
<1> QED BY <1>1, <1>2
-----------------------------------------------------------------------------
\* A commit that changes grants: who keeps his version and is not missed keeps
\* what a snapshot lists, so no reader and no cache is surprised.
LEMMA SettlesInv ==
  ASSUME MembersIInv, NEW roles \in [Roles -> RoleRows], NEW mappings \in Mappings,
         NEW bumped \in SUBSET Users, NEW missed \in SUBSET Users,
         Settles(roles, mappings, bumped, missed), UNCHANGED caches,
         \A u \in Users \ (bumped \cup missed) : Listed(u)' = Listed(u)
  PROVE  /\ role' = roles /\ mapping' = mappings
         /\ version' \in [Users -> 1 .. MaxVersion] /\ unseen' \subseteq Users /\ TakenOK'
         /\ left' \in [Users \X Roles -> Ticks] /\ taken' \in [Roles \X Grants -> Ticks]
         /\ \A u \in Users : CacheOK(u)'
         /\ SnapshotIsCurrent'
         /\ \A q \in MemberRequests : Way(q) /\ Names(q) /\ ReaderOK(q) => ReaderOK(q)'
<1>1. role' = roles /\ mapping' = mappings /\ unseen' = (unseen \ bumped) \cup missed
      /\ perm' = perm /\ snap' = snap
  BY DEF Settles, caches
<1>2. version' \in [Users -> 1 .. MaxVersion]
      /\ \A u \in Users : version'[u] = IF u \in bumped THEN version[u] + 1 ELSE version[u]
  <2>1. \A u \in bumped : version[u] < MaxVersion
    BY DEF Settles
  <2>2. version' = [u \in Users |-> IF u \in bumped THEN version[u] + 1 ELSE version[u]]
    BY DEF Settles
  <2>3. \A u \in Users : version[u] \in 1 .. MaxVersion
    BY MembersTypes
  <2>4. ASSUME NEW u \in Users PROVE (IF u \in bumped THEN version[u] + 1 ELSE version[u]) \in 1 .. MaxVersion
    BY <2>1, <2>3, MembersTypes
  <2> QED BY <2>2, <2>4
<1>3. /\ \A u \in Users, r \in Roles : left'[<<u, r>>] \in {0, left[<<u, r>>]}
      /\ \A r \in Roles, g \in Grants : taken'[<<r, g>>] \in {0, taken[<<r, g>>]}
  BY DEF Settles
<1>4. \A u \in Users : \A r \in RolesOf(u)' : left'[<<u, r>>] = 0
  BY <1>1 DEF Settles, RolesOf
<1>5. left' \in [Users \X Roles -> Ticks] /\ taken' \in [Roles \X Grants -> Ticks]
  <2>1. /\ left' = [p \in Users \X Roles |-> left'[p]] /\ taken' = [p \in Roles \X Grants |-> taken'[p]]
    BY DEF Settles
  <2>2. 0 \in Ticks
    BY MembersTypes DEF Ticks
  <2>3. /\ \A p \in Users \X Roles : left'[p] \in Ticks
        /\ \A p \in Roles \X Grants : taken'[p] \in Ticks
    BY <1>3, <2>2, MembersTypes
  <2> QED BY <2>1, <2>3
<1>6. TakenOK'
  <2>1. \A r \in Roles : roles[r].grants \subseteq Grants
    BY DEF RoleRows
  <2> QED BY <1>1, <2>1 DEF TakenOK, Settles
<1>7. ASSUME NEW u \in Users, NEW g \in Grants, NEW n \in Int, Lately(u, g, n)
      PROVE  Lately(u, g, n)'
  <2>1. PICK r \in Roles : left[<<u, r>>] <= n /\ taken[<<r, g>>] <= n
    BY <1>7 DEF Lately
  <2>2. PICK a, b : a = left[<<u, r>>] /\ b = taken[<<r, g>>]
    OBVIOUS
  <2>3. a \in 0 .. StandardTtl + 2 /\ b \in 0 .. StandardTtl + 2 /\ StandardTtl \in Nat
    BY <2>2, MembersTypes DEF Ticks
  <2>4. a <= n /\ b <= n /\ 0 <= n
    BY <2>1, <2>2, <2>3
  <2>5. left'[<<u, r>>] \in {0, a} /\ taken'[<<r, g>>] \in {0, b}
    BY <1>3, <2>2
  <2> QED BY <2>4, <2>5 DEF Lately
<1>8. \A u \in Users : perm[u].got \subseteq Grants /\ perm[u].age \in Int /\ snap[u].ver \in Int
                       /\ version[u] \in Int /\ version'[u] \in Int /\ version[u] <= version'[u]
                       /\ (u \in bumped => version[u] < version'[u])
  <2> TAKE u \in Users
  <2>1. perm[u] \in Resolutions /\ snap[u] \in Snapshots /\ version[u] \in 1 .. MaxVersion
    BY MembersTypes
  <2>2. perm[u].got \subseteq Grants /\ perm[u].age \in Int /\ snap[u].ver \in Int
    BY <2>1 DEF Resolutions, Snapshots, Ticks
  <2> QED BY <1>2, <2>1, <2>2
<1>9. ASSUME NEW u \in Users PROVE CacheOK(u)'
  <2>1. CacheOK(u)
    BY DEF MembersIInv
  <2>2. snap[u].ver <= version'[u]
    BY <1>8, <2>1 DEF CacheOK
  <2>3. \A r \in RolesOf(u)' : left'[<<u, r>>] = 0
    BY <1>4
  <2>4. ASSUME NEW g \in perm[u].got PROVE Lately(u, g, perm[u].age + 1)'
    <3>1. Lately(u, g, perm[u].age + 1) /\ g \in Grants
      BY <1>8, <2>1 DEF CacheOK
    <3>2. PICK n : n = perm[u].age + 1
      OBVIOUS
    <3>3. n \in Int
      BY <1>8, <3>2
    <3>4. Lately(u, g, n)'
      BY <1>7, <3>1, <3>2, <3>3
    <3> QED BY <1>1, <3>2, <3>4 DEF Lately
  <2> QED BY <1>1, <2>2, <2>3, <2>4 DEF CacheOK
<1>10. ASSUME NEW u \in Users, u \notin unseen', NEW v \in Int, v <= version[u], v = version'[u]
       PROVE  v = version[u] /\ u \notin unseen /\ Listed(u)' = Listed(u)
  <2>1. u \notin missed /\ u \notin bumped
    BY <1>1, <1>8, <1>10
  <2> QED BY <1>1, <1>2, <1>10, <2>1
<1>11. SnapshotIsCurrent'
  <2> SUFFICES ASSUME NEW u \in Users, u \notin unseen', snap[u].ver = version'[u]
               PROVE  snap[u].got = Listed(u)'
    BY <1>1 DEF SnapshotIsCurrent
  <2>1. snap[u].ver \in Int /\ snap[u].ver <= version[u]
    BY <1>8 DEF MembersIInv, CacheOK
  <2>2. snap[u].ver = version[u] /\ u \notin unseen /\ Listed(u)' = Listed(u)
    BY <1>10, <2>1
  <2> QED BY <2>2 DEF MembersIInv, SnapshotIsCurrent
<1>12. ASSUME NEW q \in MemberRequests, Way(q), Names(q), ReaderOK(q) PROVE ReaderOK(q)'
  <2>1. q.at \in {"stores", "list", "sign", "grants", "fill", "answered"} => q.user \in Users
    BY <1>12 DEF Way, Names, Open, Deciding
  <2>2. q.ver \in Int /\ q.want \subseteq Grants /\ q.roles \subseteq Roles /\ Slack(q) \in Nat
    BY DEF MemberRequests, Slack
  <2>3. q.at \in {"stores", "list", "sign"} => q.ver <= version'[q.user]
    BY <1>8, <1>12, <2>1, <2>2 DEF ReaderOK
  <2>4. ASSUME q.at = "sign", q.ver = version'[q.user], q.user \notin unseen' PROVE q.want = Listed(q.user)'
    <3>1. q.ver <= version[q.user] /\ q.user \in Users
      BY <1>12, <2>1, <2>4 DEF ReaderOK
    <3>2. q.ver = version[q.user] /\ q.user \notin unseen /\ Listed(q.user)' = Listed(q.user)
      BY <1>10, <2>2, <2>4, <3>1
    <3> QED BY <1>12, <2>4, <3>2 DEF ReaderOK
  <2>5. ASSUME q.at = "grants", NEW r \in q.roles PROVE left'[<<q.user, r>>] <= Slack(q)
    <3>1. left[<<q.user, r>>] <= Slack(q) /\ q.user \in Users /\ r \in Roles
      BY <1>12, <2>1, <2>2, <2>5 DEF ReaderOK
    <3>2. left'[<<q.user, r>>] \in {0, left[<<q.user, r>>]}
      BY <1>3, <3>1
    <3> QED BY <2>2, <3>1, <3>2
  <2>6. ASSUME q.at = "fill", NEW g \in q.want PROVE Lately(q.user, g, Slack(q))'
    <3>1. Lately(q.user, g, Slack(q)) /\ q.user \in Users /\ g \in Grants
      BY <1>12, <2>1, <2>2, <2>6 DEF ReaderOK
    <3> QED BY <1>7, <2>2, <3>1 DEF Slack
  <2>7. ASSUME q.at = "answered", NEW g \in q.want PROVE Lately(q.user, g, Ttl(q.op) + 1)'
    <3>1. Lately(q.user, g, Ttl(q.op) + 1) /\ q.user \in Users /\ g \in Grants
      BY <1>12, <2>1, <2>2, <2>7 DEF ReaderOK
    <3>2. Ttl(q.op) + 1 \in Int
      BY MembersTypes DEF Ttl
    <3> QED BY <1>7, <3>1, <3>2 DEF Ttl
  <2>8. q.at = "sign" /\ q.ver = version'[q.user] /\ q.user \notin unseen' => q.want = Listed(q.user)'
    BY <2>4
  <2>9. q.at = "grants" => \A r \in q.roles : left'[<<q.user, r>>] <= Slack(q)
    BY <2>5
  <2>10. /\ q.at = "fill" => \A g \in q.want : Lately(q.user, g, Slack(q))'
         /\ q.at = "answered" => \A g \in q.want : Lately(q.user, g, Ttl(q.op) + 1)'
    BY <2>6, <2>7
  <2> QED BY <2>3, <2>8, <2>9, <2>10 DEF ReaderOK, Slack, Listed, Lately, Ttl
<1>13. \A q \in MemberRequests : Way(q) /\ Names(q) /\ ReaderOK(q) => ReaderOK(q)'
  BY <1>12
<1>14. unseen' \subseteq Users
  BY <1>1, MembersTypes
<1> QED BY <1>1, <1>2, <1>5, <1>6, <1>9, <1>11, <1>13, <1>14

\* What is left of a request that has committed, or ended.
Quiet(q) == q \in MemberRequests /\ Way(q) /\ Names(q) /\ q.new = FALSE /\ q.at \in {"idle", "unperm"}

\* It relies on nothing, and holds nothing.
LEMMA QuietOK ==
  ASSUME NEW q, Quiet(q)
  PROVE  WriterOK(q) /\ ReaderOK(q) /\ ~InStore(q) /\ ~Replaces(q)
BY DEF Quiet, WriterOK, ReaderOK, InStore, Replaces, Open, Deciding

\* A commit leaves what the invalidations need.
LEMMA CommittedIsQuiet ==
  ASSUME MembersIInv, NEW w \in Workers, Committed(w), req[w].op \in {"assign", "revoke", "update", "accept"}
  PROVE  \E q : Quiet(q) /\ req' = [req EXCEPT ![w] = q]
<1>1. PICK p : p = req[w]
  OBVIOUS
<1>2. p \in MemberRequests /\ Names(p)
  BY <1>1, RequestTypes
<1>3. PICK q : q = [p EXCEPT !.at = "unperm", !.new = FALSE, !.want = {}, !.ver = 0, !.inv = NoOne,
                             !.bumped = IF p.op = "update" THEN @ ELSE {}]
  OBVIOUS
<1>4. q = [op |-> p.op, at |-> "unperm", user |-> p.user, role |-> p.role, inv |-> NoOne, roles |-> p.roles, want |-> {},
           ver |-> 0, new |-> FALSE, bumped |-> IF p.op = "update" THEN p.bumped ELSE {}, slow |-> p.slow]
  BY <1>2, <1>3 DEF MemberRequests
<1>5. (IF p.op = "update" THEN p.bumped ELSE {}) \in SUBSET Users
  BY <1>2 DEF MemberRequests
<1>6. q \in MemberRequests
  BY <1>2, <1>4, <1>5, MembersTypes DEF MemberRequests, Stages
<1>7. q.op = p.op /\ q.at = "unperm" /\ q.user = p.user /\ q.role = p.role /\ q.new = FALSE
  BY <1>4
<1>8. Quiet(q)
  BY <1>1, <1>2, <1>6, <1>7 DEF Quiet, Way, Names, Deciding, Open
<1>9. req' = [req EXCEPT ![w] = q]
  BY <1>1, <1>3 DEF Committed
<1> QED BY <1>8, <1>9

\* What every commit of grants shows: the others keep their place, and no
\* orphan stays.
LEMMA CommitInv ==
  ASSUME MembersIInv, NEW w \in Workers, NEW q, Quiet(q), req' = [req EXCEPT ![w] = q],
         NEW roles \in [Roles -> RoleRows], NEW mappings \in Mappings,
         NEW bumped \in SUBSET Users, NEW missed \in SUBSET Users,
         Settles(roles, mappings, bumped, missed), UNCHANGED <<caches, late>>,
         \A u \in Users \ (bumped \cup missed) : Listed(u)' = Listed(u),
         invite' \in [Invites -> Invitations], members' \subseteq Users,
         \A i \in Invites : invite'[i].status # "none" => invite'[i].user \in Users /\ invite'[i].role \in Roles,
         \A x \in Workers \ {w} : WriterOK(req[x])', NoOrphans'
  PROVE  MembersIInv'
<1>1. /\ role' = roles /\ mapping' = mappings
      /\ version' \in [Users -> 1 .. MaxVersion] /\ unseen' \subseteq Users /\ TakenOK'
      /\ left' \in [Users \X Roles -> Ticks] /\ taken' \in [Roles \X Grants -> Ticks]
      /\ \A u \in Users : CacheOK(u)'
      /\ SnapshotIsCurrent'
      /\ \A p \in MemberRequests : Way(p) /\ Names(p) /\ ReaderOK(p) => ReaderOK(p)'
  BY SettlesInv
<1>2. perm' = perm /\ snap' = snap /\ late' = late
  BY DEF caches
<1>3. q \in MemberRequests /\ Way(q) /\ Names(q) /\ ~InStore(q) /\ ~Replaces(q) /\ WriterOK(q)'
  BY QuietOK DEF Quiet, WriterOK, Open, Deciding
<1>4. ReaderOK(q)'
  BY QuietOK, <1>1, <1>3
<1>5. \A x \in Workers \ {w} : Alone(q, req[x])
  BY <1>3 DEF Alone
<1>6. ASSUME NEW x \in Workers \ {w} PROVE ReaderOK(req[x])'
  <2>1. PICK p : p = req[x]
    OBVIOUS
  <2>2. p \in MemberRequests /\ Way(p) /\ Names(p) /\ ReaderOK(p)
    BY <2>1, RequestTypes
  <2>3. ReaderOK(p)'
    BY <1>1, <2>2
  <2>4. req'[x] = p
    BY <2>1, MembersTypes
  <2> QED BY <2>3, <2>4 DEF ReaderOK
<1>7. /\ req' \in [Workers -> MemberRequests]
      /\ \A x \in Workers : /\ Way(req[x])' /\ Names(req[x])' /\ WriterOK(req[x])' /\ ReaderOK(req[x])'
      /\ \A x, y \in Workers : x # y => Alone(req[x], req[y])'
  BY <1>3, <1>4, <1>5, <1>6, RequestsInv
<1>8. MembersTypeOK'
  <2>1. role' \in [Roles -> RoleRows] /\ mapping' \in Mappings
    BY <1>1
  <2> QED BY <1>1, <1>2, <2>1, MembersTypes, MembersTypesGive DEF MembersTypeOK, RoleRows, Mappings, Resolutions, Snapshots, LateRows, Invitations, InviteStatuses
<1> QED BY <1>1, <1>7, <1>8 DEF MembersIInv

\* What a writer relies on survives the writes of others that respect its
\* locks.
LEMMA WriterKeepsAll ==
  ASSUME NEW p \in MemberRequests, Way(p), Names(p), WriterOK(p), late' = late,
         \A u \in Users, r \in Roles : mapping[<<u, r>>] # "none" => mapping'[<<u, r>>] # "none",
         p.new \/ (p.op = "invite" /\ p.at = "commit") => role'[p.role].live = role[p.role].live,
         Replaces(p) => role'[p.role].ver = role[p.role].ver,
         \A i \in Invites : invite[i].status # "none" =>
            invite'[i].status # "none" /\ invite'[i].role = invite[i].role,
         InStore(p) => /\ StillPending(p.inv) => StillPending(p.inv)'
                       /\ invite[p.inv].status = "none" => invite'[p.inv].status = "none"
  PROVE  WriterOK(p)'
<1>1. p.new => p.user \in Users /\ p.role \in Roles
  BY DEF WriterOK, Names
<1>2. p.op = "accept" => p.user \in Users /\ p.role \in Roles
  BY DEF Names
<1>3. p.op = "accept" /\ p.at \in {"cas"} \cup Deciding => p.inv \in Invites
  BY DEF Names
<1>4. (p.new => /\ p.op \in {"assign", "accept"} /\ p.at \in Open
                /\ ~role[p.role].live => <<p.user, p.role>> \in late
                /\ p.at = "commit" => p.user \in p.bumped)'
  BY DEF WriterOK
<1>5. (p.op = "invite" /\ p.at = "commit" => /\ invite[p.inv].status = "none"
                                             /\ ~role[p.role].live => p.inv \in late)'
  BY DEF WriterOK, InStore
<1>6. (p.op = "update" /\ p.at \in {"cas"} \cup Open => p.ver < MaxVersion)'
  BY DEF WriterOK
<1>7. (p.op = "update" /\ p.at \in Open => role[p.role].ver = p.ver)'
  BY DEF WriterOK, Replaces
<1>8. (p.op = "accept" /\ p.at \in {"cas"} \cup Deciding =>
        invite[p.inv].status # "none" /\ invite[p.inv].role = p.role)'
  BY <1>3 DEF WriterOK
<1>9. (p.op = "accept" /\ p.at \in Deciding => StillPending(p.inv))'
  BY DEF WriterOK, InStore
<1>10. (p.op = "accept" /\ p.at \in Open /\ ~p.new => mapping[<<p.user, p.role>>] # "none")'
  BY <1>2 DEF WriterOK
<1> QED BY <1>4, <1>5, <1>6, <1>7, <1>8, <1>9, <1>10 DEF WriterOK

\* The row of a request that joins: active, unless it was there before.
LEMMA JoinedRow ==
  ASSUME MembersIInv, NEW w \in Workers, req[w].op \in {"assign", "accept"}, req[w].at = "commit"
  PROVE  /\ Joined(w) \in Mappings
         /\ \A u \in Users, r \in Roles :
               /\ <<u, r>> # <<req[w].user, req[w].role>> \/ ~req[w].new => Joined(w)[<<u, r>>] = mapping[<<u, r>>]
               /\ <<u, r>> = <<req[w].user, req[w].role>> /\ req[w].new => Joined(w)[<<u, r>>] = "active"
         /\ req[w].user \in Users /\ req[w].role \in Roles /\ req[w].bumped \in SUBSET Users
         /\ req[w].new => /\ req[w].user \in req[w].bumped
                          /\ ~role[req[w].role].live => <<req[w].user, req[w].role>> \in late
<1>1. PICK p : p = req[w]
  OBVIOUS
<1>2. p \in MemberRequests /\ Names(p) /\ WriterOK(p)
  BY <1>1, RequestTypes
<1>3. p.user \in Users /\ p.role \in Roles /\ p.bumped \in SUBSET Users /\ p.new \in BOOLEAN
  BY <1>1, <1>2 DEF Names, MemberRequests
<1>4. p.new => p.user \in p.bumped /\ (~role[p.role].live => <<p.user, p.role>> \in late)
  BY <1>1, <1>2 DEF WriterOK
<1>5. CASE p.new
  <2>1. Joined(w) = [mapping EXCEPT ![<<p.user, p.role>>] = "active"]
    BY <1>1, <1>5 DEF Joined
  <2> QED BY <1>1, <1>3, <1>4, <1>5, <2>1, MembersTypes DEF Mappings
<1>6. CASE ~p.new
  <2>1. Joined(w) = mapping
    BY <1>1, <1>6 DEF Joined
  <2> QED BY <1>1, <1>3, <1>6, <2>1, MembersTypes
<1> QED BY <1>3, <1>5, <1>6

\* When a request joins, only the one whose row is new has other grants, no
\* row disappears, and on a deleted role the new row is late.
LEMMA JoinsInv ==
  ASSUME MembersIInv, NEW w \in Workers, req[w].op \in {"assign", "accept"}, req[w].at = "commit",
         Settles(role, Joined(w), req[w].bumped, {}), late' = late
  PROVE  /\ \A u \in Users \ req[w].bumped : Listed(u)' = Listed(u)
         /\ \A u \in Users, r \in Roles : mapping[<<u, r>>] # "none" => mapping'[<<u, r>>] # "none"
         /\ \A r \in Roles : ~role'[r].live => \A u \in Holders(r)' : <<u, r>> \in late'
<1>1. role' = role /\ mapping' = Joined(w)
  BY DEF Settles
<1>2. \A u \in Users \ req[w].bumped, r \in Roles : mapping'[<<u, r>>] = mapping[<<u, r>>]
  BY <1>1, JoinedRow
<1>3. ASSUME NEW u \in Users \ req[w].bumped PROVE Listed(u)' = Listed(u)
  BY <1>1, <1>2 DEF Listed
<1>4. \A u \in Users, r \in Roles : mapping[<<u, r>>] # "none" => mapping'[<<u, r>>] # "none"
  BY <1>1, JoinedRow
<1>5. ASSUME NEW r \in Roles, ~role[r].live, NEW u \in Users, mapping'[<<u, r>>] = "active"
      PROVE  <<u, r>> \in late
  <2>1. CASE mapping[<<u, r>>] = "active"
    BY <1>5, <2>1 DEF MembersIInv, NoOrphans, Holders
  <2>2. CASE mapping[<<u, r>>] # "active"
    BY <1>1, <1>5, <2>2, JoinedRow
  <2> QED BY <2>1, <2>2
<1> QED BY <1>1, <1>3, <1>4, <1>5 DEF Holders

\* An assignment commits.
LEMMA AssignCommitsInv ==
  ASSUME MembersIInv, NEW w \in Workers, AssignCommits(w)
  PROVE  MembersIInv'
<1>1. /\ req[w].op = "assign" /\ req[w].at = "commit" /\ Committed(w)
      /\ Settles(role, Joined(w), req[w].bumped, {}) /\ UNCHANGED <<invite, members, caches, late>>
  BY DEF AssignCommits, At
<1>2. PICK q : Quiet(q) /\ req' = [req EXCEPT ![w] = q]
  BY <1>1, CommittedIsQuiet
<1>3. PICK roles, mappings, bumped, missed :
        roles = role /\ mappings = Joined(w) /\ bumped = req[w].bumped /\ missed = {}
  OBVIOUS
<1>4. roles \in [Roles -> RoleRows] /\ mappings \in Mappings /\ bumped \in SUBSET Users
      /\ missed \in SUBSET Users
  BY <1>1, <1>3, JoinedRow, MembersTypes
<1>5. Settles(roles, mappings, bumped, missed)
  BY <1>1, <1>3
<1>6. /\ \A u \in Users \ (bumped \cup missed) : Listed(u)' = Listed(u)
      /\ \A u \in Users, r \in Roles : mapping[<<u, r>>] # "none" => mapping'[<<u, r>>] # "none"
      /\ \A r \in Roles : ~role'[r].live => \A u \in Holders(r)' : <<u, r>> \in late'
  BY <1>1, <1>3, JoinsInv
<1>7. role' = role
  BY <1>1 DEF Settles
<1>8. ASSUME NEW x \in Workers \ {w} PROVE WriterOK(req[x])'
  <2>1. PICK p : p = req[x]
    OBVIOUS
  <2>2. p \in MemberRequests /\ Way(p) /\ Names(p) /\ WriterOK(p)
    BY <2>1, RequestTypes
  <2>3. StillPending(p.inv)' <=> StillPending(p.inv)
    BY <1>1 DEF StillPending
  <2>4. WriterOK(p)'
    BY <1>1, <1>6, <1>7, <2>2, <2>3, WriterKeepsAll
  <2>5. req'[x] = p
    BY <1>2, <2>1, MembersTypes
  <2> QED BY <2>4, <2>5 DEF WriterOK
<1>9. NoOrphans'
  BY <1>1, <1>6, <1>7 DEF MembersIInv, NoOrphans, Pending
<1>10. /\ invite' \in [Invites -> Invitations] /\ members' \subseteq Users
       /\ \A i \in Invites : invite'[i].status # "none" => invite'[i].user \in Users /\ invite'[i].role \in Roles
  BY <1>1, MembersTypes DEF MembersIInv, MembersTypeOK
<1>11. UNCHANGED <<caches, late>>
  BY <1>1
<1> QED BY <1>2, <1>4, <1>5, <1>6, <1>8, <1>9, <1>10, <1>11, CommitInv

\* The writers among the others keep what they rely on.
LEMMA OthersKeep ==
  ASSUME MembersIInv, NEW w \in Workers, NEW q, req' = [req EXCEPT ![w] = q], late' = late,
         \A u \in Users, r \in Roles : mapping[<<u, r>>] # "none" => mapping'[<<u, r>>] # "none",
         \A i \in Invites : invite[i].status # "none" =>
            invite'[i].status # "none" /\ invite'[i].role = invite[i].role,
         NEW x \in Workers \ {w}, NEW p, p = req[x],
         p.new \/ (p.op = "invite" /\ p.at = "commit") => role'[p.role].live = role[p.role].live,
         Replaces(p) => role'[p.role].ver = role[p.role].ver,
         InStore(p) => /\ StillPending(p.inv) => StillPending(p.inv)'
                       /\ invite[p.inv].status = "none" => invite'[p.inv].status = "none"
  PROVE  WriterOK(req[x])'
<1>1. p \in MemberRequests /\ Way(p) /\ Names(p) /\ WriterOK(p)
  BY RequestTypes
<1>2. WriterOK(p)'
  BY <1>1, WriterKeepsAll
<1>3. req'[x] = p
  BY MembersTypes
<1> QED BY <1>2, <1>3 DEF WriterOK

\* The names of a request that writes.
LEMMA WriterNames ==
  ASSUME MembersIInv, NEW x \in Workers
  PROVE  /\ req[x].new \/ (req[x].op = "invite" /\ req[x].at = "commit") \/ Replaces(req[x]) => req[x].role \in Roles
         /\ InStore(req[x]) => req[x].inv \in Invites
         /\ req[x].new => req[x].at \in Open
BY RequestTypes DEF WriterOK, Names, InStore, Replaces

\* A revocation commits: it misses the one whose role it takes.
LEMMA RevokeCommitsInv ==
  ASSUME MembersIInv, NEW w \in Workers, RevokeCommits(w)
  PROVE  MembersIInv'
<1>1. PICK u, r : u = req[w].user /\ r = req[w].role
  OBVIOUS
<1>2. /\ req[w].op = "revoke" /\ req[w].at = "commit" /\ Committed(w)
      /\ Settles(role, [mapping EXCEPT ![<<u, r>>] = "revoked"], req[w].bumped, {u})
      /\ UNCHANGED <<invite, members, caches, late>>
  BY <1>1 DEF RevokeCommits, At
<1>3. u \in Users /\ r \in Roles /\ req[w].bumped \in SUBSET Users
  BY <1>1, <1>2, RequestTypes DEF Names, MemberRequests
<1>4. PICK q : Quiet(q) /\ req' = [req EXCEPT ![w] = q]
  BY <1>2, CommittedIsQuiet
<1>5. PICK roles, mappings, bumped, missed :
        roles = role /\ mappings = [mapping EXCEPT ![<<u, r>>] = "revoked"] /\ bumped = req[w].bumped /\ missed = {u}
  OBVIOUS
<1>6. roles \in [Roles -> RoleRows] /\ mappings \in Mappings /\ bumped \in SUBSET Users /\ missed \in SUBSET Users
  BY <1>3, <1>5, MembersTypes DEF Mappings
<1>7. Settles(roles, mappings, bumped, missed)
  BY <1>2, <1>5
<1>8. role' = role /\ mapping' = mappings
  BY <1>5, <1>7 DEF Settles
<1>9. \A v \in Users, s \in Roles :
        mapping'[<<v, s>>] = IF <<v, s>> = <<u, r>> THEN "revoked" ELSE mapping[<<v, s>>]
  BY <1>3, <1>5, <1>8, MembersTypes DEF Mappings
<1>10. ASSUME NEW v \in Users \ (bumped \cup missed) PROVE Listed(v)' = Listed(v)
  BY <1>5, <1>8, <1>9 DEF Listed
<1>11. ASSUME NEW x \in Workers \ {w} PROVE WriterOK(req[x])'
  <2>1. PICK p : p = req[x]
    OBVIOUS
  <2>2. StillPending(p.inv)' <=> StillPending(p.inv)
    BY <1>2 DEF StillPending
  <2> QED BY <1>2, <1>4, <1>8, <1>9, <2>1, <2>2, OthersKeep
<1>12. NoOrphans'
  BY <1>2, <1>8, <1>9 DEF MembersIInv, NoOrphans, Pending, Holders
<1>13. /\ invite' \in [Invites -> Invitations] /\ members' \subseteq Users /\ UNCHANGED <<caches, late>>
       /\ \A i \in Invites : invite'[i].status # "none" => invite'[i].user \in Users /\ invite'[i].role \in Roles
  BY <1>2, MembersTypes DEF MembersIInv, MembersTypeOK
<1> QED BY <1>4, <1>6, <1>7, <1>10, <1>11, <1>12, <1>13, CommitInv

\* A matrix is replaced: its row version was claimed, and it misses who joined
\* after the members were read.
LEMMA UpdateCommitsInv ==
  ASSUME MembersIInv, NEW w \in Workers, UpdateCommits(w)
  PROVE  MembersIInv'
<1>1. PICK r, G, B : r = req[w].role /\ G = req[w].want /\ B = req[w].bumped
  OBVIOUS
<1>2. /\ req[w].op = "update" /\ req[w].at = "commit" /\ Committed(w)
      /\ Settles([role EXCEPT ![r].ver = @ + 1, ![r].grants = G], mapping, B, Holders(r) \ B)
      /\ UNCHANGED <<invite, members, caches, late>>
  BY <1>1 DEF UpdateCommits, At
<1>3. r \in Roles /\ G \in SUBSET Grants /\ B \in SUBSET Users /\ role[r].ver < MaxVersion
  <2>1. PICK p : p = req[w]
    OBVIOUS
  <2>2. p \in MemberRequests /\ Names(p) /\ WriterOK(p)
    BY <2>1, RequestTypes
  <2>3. p.role \in Roles /\ p.want \in SUBSET Grants /\ p.bumped \in SUBSET Users
    BY <1>2, <2>1, <2>2 DEF Names, MemberRequests
  <2>4. role[p.role].ver = p.ver /\ p.ver < MaxVersion
    BY <1>2, <2>1, <2>2 DEF WriterOK, Open
  <2> QED BY <1>1, <2>1, <2>3, <2>4
<1>4. PICK q : Quiet(q) /\ req' = [req EXCEPT ![w] = q]
  BY <1>2, CommittedIsQuiet
<1>5. PICK cell : cell = [live |-> role[r].live, ver |-> role[r].ver + 1, grants |-> G]
  OBVIOUS
<1>6. cell \in RoleRows
  <2>1. role[r] \in RoleRows
    BY <1>3, MembersTypes
  <2>2. role[r].live \in BOOLEAN /\ role[r].ver \in 1 .. MaxVersion
    BY <2>1 DEF RoleRows
  <2>3. role[r].ver + 1 \in 1 .. MaxVersion
    BY <1>3, <2>2, MembersTypes
  <2> QED BY <1>3, <1>5, <2>2, <2>3 DEF RoleRows
<1>7. PICK roles, mappings, bumped, missed :
        roles = [role EXCEPT ![r] = cell] /\ mappings = mapping /\ bumped = B /\ missed = Holders(r) \ B
  OBVIOUS
<1>8. [role EXCEPT ![r].ver = @ + 1, ![r].grants = G] = roles
  <2>1. role[r] \in RoleRows
    BY <1>3, MembersTypes
  <2>2. [role[r] EXCEPT !.ver = @ + 1, !.grants = G] = cell
    <3>1. PICK y : y = role[r]
      OBVIOUS
    <3>2. PICK z : z = [y EXCEPT !.ver = @ + 1]
      OBVIOUS
    <3>3. z = [live |-> y.live, ver |-> y.ver + 1, grants |-> y.grants]
      BY <2>1, <3>1, <3>2 DEF RoleRows
    <3>4. [z EXCEPT !.grants = G] = cell
      BY <1>5, <3>1, <3>3
    <3> QED BY <3>1, <3>2, <3>4
  <2> QED BY <1>3, <1>7, <2>1, <2>2, MembersTypes
<1>9. roles \in [Roles -> RoleRows] /\ mappings \in Mappings /\ bumped \in SUBSET Users /\ missed \in SUBSET Users
  BY <1>3, <1>6, <1>7, MembersTypes DEF Holders
<1>10. Settles(roles, mappings, bumped, missed)
  BY <1>2, <1>7, <1>8
<1>11. role' = roles /\ mapping' = mapping
  BY <1>7, <1>10 DEF Settles
<1>12. \A s \in Roles : /\ role'[s].live = role[s].live
                        /\ s # r => role'[s] = role[s]
  BY <1>3, <1>5, <1>7, <1>11, MembersTypes
<1>13. ASSUME NEW v \in Users \ (bumped \cup missed) PROVE Listed(v)' = Listed(v)
  <2>1. mapping[<<v, r>>] # "active"
    BY <1>7 DEF Holders
  <2> QED BY <1>11, <1>12, <2>1 DEF Listed
<1>14. ASSUME NEW x \in Workers \ {w} PROVE WriterOK(req[x])'
  <2>1. PICK p : p = req[x]
    OBVIOUS
  <2>2. StillPending(p.inv)' <=> StillPending(p.inv)
    BY <1>2 DEF StillPending
  <2>3. Replaces(p) => p.role \in Roles /\ p.role # r
    BY <1>1, <1>2, <2>1, WriterNames DEF MembersIInv, Alone, Replaces, Open
  <2>4. p.new \/ (p.op = "invite" /\ p.at = "commit") => p.role \in Roles
    BY <2>1, WriterNames
  <2> QED BY <1>2, <1>4, <1>11, <1>12, <2>1, <2>2, <2>3, <2>4, OthersKeep
<1>15. NoOrphans'
  BY <1>2, <1>11, <1>12 DEF MembersIInv, NoOrphans, Pending, Holders
<1>16. /\ invite' \in [Invites -> Invitations] /\ members' \subseteq Users /\ UNCHANGED <<caches, late>>
       /\ \A i \in Invites : invite'[i].status # "none" => invite'[i].user \in Users /\ invite'[i].role \in Roles
  BY <1>2, MembersTypes DEF MembersIInv, MembersTypeOK
<1> QED BY <1>4, <1>9, <1>10, <1>13, <1>14, <1>15, <1>16, CommitInv

\* A role is deleted under its lock: nobody holds it, nobody is being put on it
\* and no invitation names it.
LEMMA DeleteCommitsInv ==
  ASSUME MembersIInv, NEW w \in Workers, DeleteCommits(w)
  PROVE  MembersIInv'
<1>1. PICK r : r = req[w].role
  OBVIOUS
<1>2. /\ req[w].op = "delete" /\ req[w].at = "drop" /\ RoleFree(r) /\ Ends(w)
      /\ UNCHANGED <<invite, members, caches, late>>
  BY <1>1 DEF DeleteCommits, At
<1>3. CASE ~Unused(r)
  BY <1>1, <1>2, <1>3, EndsInv DEF DeleteCommits, tables, history
<1>4. CASE Unused(r)
  <2>1. Settles([role EXCEPT ![r].live = FALSE, ![r].grants = {}], mapping, {}, {})
    BY <1>1, <1>4 DEF DeleteCommits
  <2>2. r \in Roles /\ (\A u \in Users : mapping[<<u, r>>] # "active" /\ Pending(r, u, "pending") = {})
    BY <1>1, <1>2, <1>4, RequestTypes DEF Names, Unused, Holders
  <2>3. PICK q : Quiet(q) /\ req' = [req EXCEPT ![w] = q]
    <3>1. Idle.new = FALSE /\ Idle.at = "idle"
      BY DEF Idle
    <3>2. Quiet(Idle)
      BY <3>1, IdleOK DEF Quiet
    <3> QED BY <1>2, <3>2 DEF Ends
  <2>4. PICK cell : cell = [live |-> FALSE, ver |-> role[r].ver, grants |-> {}]
    OBVIOUS
  <2>5. role[r] \in RoleRows
    BY <2>2, MembersTypes
  <2>6. cell \in RoleRows
    <3>1. role[r].ver \in 1 .. MaxVersion
      BY <2>5 DEF RoleRows
    <3> QED BY <2>4, <3>1 DEF RoleRows
  <2>7. PICK roles, mappings, bumped, missed :
          roles = [role EXCEPT ![r] = cell] /\ mappings = mapping /\ bumped = {} /\ missed = {}
    OBVIOUS
  <2>8. [role EXCEPT ![r].live = FALSE, ![r].grants = {}] = roles
    <3>1. PICK y : y = role[r]
      OBVIOUS
    <3>2. PICK off, none : off = FALSE /\ none = {}
      OBVIOUS
    <3>3. PICK z : z = [y EXCEPT !.live = off]
      OBVIOUS
    <3>4. z = [live |-> off, ver |-> y.ver, grants |-> y.grants] /\ cell = [live |-> off, ver |-> y.ver, grants |-> none]
      BY <2>4, <2>5, <3>1, <3>2, <3>3 DEF RoleRows
    <3>5. [z EXCEPT !.grants = none] = cell
      BY <3>4
    <3>6. [role[r] EXCEPT !.live = FALSE, !.grants = {}] = cell
      BY <3>1, <3>2, <3>3, <3>5
    <3> QED BY <2>2, <2>7, <3>6, MembersTypes
  <2>9. roles \in [Roles -> RoleRows] /\ mappings \in Mappings /\ bumped \in SUBSET Users /\ missed \in SUBSET Users
    BY <2>2, <2>6, <2>7, MembersTypes
  <2>10. Settles(roles, mappings, bumped, missed)
    BY <2>1, <2>7, <2>8
  <2>11. role' = roles /\ mapping' = mapping
    BY <2>7, <2>10 DEF Settles
  <2>12. role'[r].ver = role[r].ver /\ \A s \in Roles : s # r => role'[s] = role[s]
    BY <2>2, <2>4, <2>7, <2>11, MembersTypes
  <2>13. ASSUME NEW v \in Users \ (bumped \cup missed) PROVE Listed(v)' = Listed(v)
    BY <2>2, <2>11, <2>12 DEF Listed
  <2>14. ASSUME NEW x \in Workers \ {w} PROVE WriterOK(req[x])'
    <3>1. PICK p : p = req[x]
      OBVIOUS
    <3>2. StillPending(p.inv)' <=> StillPending(p.inv)
      BY <1>2 DEF StillPending
    <3>3. p.new \/ (p.op = "invite" /\ p.at = "commit") => p.role \in Roles /\ p.role # r
      BY <1>2, <3>1, WriterNames DEF RoleFree, Shares, InTx, Open, At
    <3>4. Replaces(p) => p.role \in Roles
      BY <3>1, WriterNames
    <3> QED BY <1>2, <2>3, <2>11, <2>12, <3>1, <3>2, <3>3, <3>4, OthersKeep
  <2>15. NoOrphans'
    <3>1. ASSUME NEW s \in Roles, ~role'[s].live, s # r
          PROVE  /\ \A u \in Holders(s) : <<u, s>> \in late
                 /\ \A u \in Users : Pending(s, u, "pending") \subseteq late
      BY <2>12, <3>1 DEF MembersIInv, NoOrphans
    <3>2. Holders(r) = {}
      BY <2>2 DEF Holders
    <3> QED BY <1>2, <2>2, <2>11, <3>1, <3>2 DEF NoOrphans, Pending, Holders
  <2>16. /\ invite' \in [Invites -> Invitations] /\ members' \subseteq Users /\ UNCHANGED <<caches, late>>
         /\ \A i \in Invites : invite'[i].status # "none" => invite'[i].user \in Users /\ invite'[i].role \in Roles
    BY <1>2, MembersTypes DEF MembersIInv, MembersTypeOK
  <2> QED BY <2>3, <2>9, <2>10, <2>13, <2>14, <2>15, <2>16, CommitInv
<1> QED BY <1>3, <1>4

\* What an accept knows when it commits: its invitation has waited for it.
LEMMA AcceptKnows ==
  ASSUME MembersIInv, NEW w \in Workers, AcceptCommits(w)
  PROVE  LET p == req[w]
         IN  /\ p.inv \in Invites /\ p.user \in Users /\ p.role \in Roles
             /\ StillPending(p.inv) /\ invite[p.inv].role = p.role
             /\ ~p.new => mapping[<<p.user, p.role>>] # "none"
             /\ p.op = "accept" /\ p.at = "commit" /\ InStore(p)
<1>1. PICK p : p = req[w]
  OBVIOUS
<1>2. Names(p) /\ WriterOK(p) /\ p.op = "accept" /\ p.at = "commit"
  BY <1>1, RequestTypes DEF AcceptCommits, At
<1> QED BY <1>1, <1>2 DEF Names, WriterOK, InStore, Deciding, Open

\* The invitation after an accept.
LEMMA AcceptedInvitation ==
  ASSUME MembersIInv, NEW w \in Workers, AcceptCommits(w)
  PROVE  /\ invite' \in [Invites -> Invitations]
         /\ invite'[req[w].inv].status = "accepted" /\ invite'[req[w].inv].user = req[w].user
         /\ invite'[req[w].inv].role = req[w].role
         /\ \A i \in Invites : i # req[w].inv => invite'[i] = invite[i]
<1>1. PICK j, u : j = req[w].inv /\ u = req[w].user
  OBVIOUS
<1>2. j \in Invites /\ u \in Users /\ invite[j].role = req[w].role /\ req[w].role \in Roles
  BY <1>1, AcceptKnows
<1>3. PICK cell : cell = [status |-> "accepted", user |-> u, role |-> invite[j].role]
  OBVIOUS
<1>4. cell \in Invitations
  BY <1>2, <1>3 DEF Invitations, InviteStatuses
<1>5. [invite[j] EXCEPT !.status = "accepted", !.user = u] = cell
  <2>1. PICK y : y = invite[j]
    OBVIOUS
  <2>2. y \in Invitations
    BY <1>2, <2>1, MembersTypes
  <2>3. PICK z : z = [y EXCEPT !.status = "accepted"]
    OBVIOUS
  <2>4. z = [status |-> "accepted", user |-> y.user, role |-> y.role]
    BY <2>2, <2>3 DEF Invitations
  <2>5. [z EXCEPT !.user = u] = cell
    BY <1>3, <2>1, <2>4
  <2> QED BY <2>1, <2>3, <2>5
<1>6. invite' = [invite EXCEPT ![j] = cell]
  BY <1>1, <1>2, <1>5, MembersTypes DEF AcceptCommits
<1> QED BY <1>1, <1>2, <1>3, <1>4, <1>6, MembersTypes

\* An accept commits: the invitation is decided, and who accepted is a member
\* with the role, unless a row was there before.
LEMMA AcceptCommitsInv ==
  ASSUME MembersIInv, NEW w \in Workers, AcceptCommits(w)
  PROVE  MembersIInv'
<1>1. /\ req[w].op = "accept" /\ req[w].at = "commit" /\ Committed(w)
      /\ Settles(role, Joined(w), req[w].bumped, {}) /\ UNCHANGED <<caches, late>>
      /\ members' = members \cup {req[w].user}
  BY DEF AcceptCommits, At
<1>2. PICK q : Quiet(q) /\ req' = [req EXCEPT ![w] = q]
  BY <1>1, CommittedIsQuiet
<1>3. PICK roles, mappings, bumped, missed :
        roles = role /\ mappings = Joined(w) /\ bumped = req[w].bumped /\ missed = {}
  OBVIOUS
<1>4. roles \in [Roles -> RoleRows] /\ mappings \in Mappings /\ bumped \in SUBSET Users
      /\ missed \in SUBSET Users
  BY <1>1, <1>3, JoinedRow, MembersTypes
<1>5. Settles(roles, mappings, bumped, missed)
  BY <1>1, <1>3
<1>6. /\ \A u \in Users \ (bumped \cup missed) : Listed(u)' = Listed(u)
      /\ \A u \in Users, r \in Roles : mapping[<<u, r>>] # "none" => mapping'[<<u, r>>] # "none"
      /\ \A r \in Roles : ~role'[r].live => \A u \in Holders(r)' : <<u, r>> \in late'
  BY <1>1, <1>3, JoinsInv
<1>7. role' = role
  BY <1>1 DEF Settles
<1>8. \A i \in Invites : invite[i].status # "none" =>
            invite'[i].status # "none" /\ invite'[i].role = invite[i].role
  <2>1. PICK j : j = req[w].inv
    OBVIOUS
  <2>2. invite'[j].status = "accepted" /\ invite'[j].role = invite[j].role
    BY <2>1, AcceptKnows, AcceptedInvitation
  <2>3. \A i \in Invites : i # j => invite'[i] = invite[i]
    BY <2>1, AcceptedInvitation
  <2> QED BY <2>2, <2>3
<1>9. ASSUME NEW x \in Workers \ {w} PROVE WriterOK(req[x])'
  <2>1. PICK p : p = req[x]
    OBVIOUS
  <2>2. ~InStore(p)
    BY <2>1, AcceptKnows DEF MembersIInv, Alone
  <2> QED BY <1>1, <1>2, <1>6, <1>7, <1>8, <2>1, <2>2, OthersKeep
<1>10. \A i \in Invites : invite'[i].status = "pending" => invite'[i] = invite[i]
  BY AcceptedInvitation
<1>11. \A r \in Roles, u \in Users : Pending(r, u, "pending")' \subseteq Pending(r, u, "pending")
  BY <1>10 DEF Pending
<1>12. NoOrphans'
  BY <1>1, <1>6, <1>7, <1>11 DEF MembersIInv, NoOrphans
<1>13. /\ invite' \in [Invites -> Invitations] /\ members' \subseteq Users
       /\ \A i \in Invites : invite'[i].status # "none" => invite'[i].user \in Users /\ invite'[i].role \in Roles
  <2>1. \A i \in Invites : invite[i].status # "none" => invite[i].user \in Users /\ invite[i].role \in Roles
    BY DEF MembersIInv, MembersTypeOK
  <2> QED BY <1>1, <2>1, AcceptKnows, AcceptedInvitation, MembersTypes
<1> QED BY <1>1, <1>2, <1>4, <1>5, <1>6, <1>9, <1>12, <1>13, CommitInv
-----------------------------------------------------------------------------
\* Steps that only write invitations, at the end of a request or without one.
LEMMA InvitesInv ==
  ASSUME MembersIInv, UNCHANGED <<role, mapping, members, version, caches, history>>,
         req' \in [Workers -> MemberRequests], \A x \in Workers : req'[x] = req[x] \/ req'[x] = Idle,
         invite' \in [Invites -> Invitations],
         \A i \in Invites : invite'[i].status # "none" => invite'[i].user \in Users /\ invite'[i].role \in Roles,
         \A i \in Invites : invite[i].status # "none" =>
            invite'[i].status # "none" /\ invite'[i].role = invite[i].role,
         \A i \in Invites : invite'[i].status = "pending" =>
            invite'[i] = invite[i] \/ (~role[invite'[i].role].live => i \in late),
         \A x \in Workers : req'[x] = req[x] /\ InStore(req[x]) =>
            /\ StillPending(req[x].inv) => StillPending(req[x].inv)'
            /\ invite[req[x].inv].status = "none" => invite'[req[x].inv].status = "none"
  PROVE  MembersIInv'
<1>1. /\ role' = role /\ mapping' = mapping /\ members' = members /\ version' = version
      /\ perm' = perm /\ snap' = snap /\ left' = left /\ taken' = taken /\ late' = late /\ unseen' = unseen
  BY DEF caches, history, fading
<1>2. ASSUME NEW x \in Workers
      PROVE  Way(req[x])' /\ Names(req[x])' /\ WriterOK(req[x])' /\ ReaderOK(req[x])'
  <2>1. CASE req'[x] = Idle
    <3>1. Idle.new = FALSE /\ Idle.op = "none" /\ Idle.at = "idle"
      BY DEF Idle
    <3> QED BY <2>1, <3>1 DEF Way, Names, WriterOK, ReaderOK
  <2>2. CASE req'[x] = req[x]
    <3>1. PICK p : p = req[x]
      OBVIOUS
    <3>2. p \in MemberRequests /\ Way(p) /\ Names(p) /\ WriterOK(p) /\ ReaderOK(p) /\ req'[x] = p
      BY <2>2, <3>1, RequestTypes
    <3>3. InStore(p) => /\ StillPending(p.inv) => StillPending(p.inv)'
                        /\ invite[p.inv].status = "none" => invite'[p.inv].status = "none"
      BY <2>2, <3>1 DEF StillPending
    <3>4. WriterOK(p)'
      BY <1>1, <3>2, <3>3, WriterKeepsAll
    <3>5. ReaderOK(p)'
      BY <1>1, <3>2, ReaderKeeps
    <3> QED BY <3>2, <3>4, <3>5 DEF Way, Names, WriterOK, ReaderOK
  <2> QED BY <2>1, <2>2
<1>3. ASSUME NEW x \in Workers, NEW y \in Workers, x # y PROVE Alone(req[x], req[y])'
  <2>1. Alone(req[x], req[y])
    BY <1>3 DEF MembersIInv
  <2>2. ~InStore(Idle) /\ ~Replaces(Idle)
    BY IdleOK
  <2>3. (InStore(req'[x]) => InStore(req[x])) /\ (InStore(req'[y]) => InStore(req[y]))
    BY <2>2
  <2>4. (Replaces(req'[x]) => Replaces(req[x]) /\ req'[x] = req[x]) /\ (Replaces(req'[y]) => Replaces(req[y]) /\ req'[y] = req[y])
    BY <2>2
  <2>5. ~(InStore(req'[x]) /\ InStore(req'[y]))
    BY <2>1, <2>3 DEF Alone
  <2>6. ~(Replaces(req'[x]) /\ Replaces(req'[y]) /\ req'[x].role = req'[y].role)
    BY <2>1, <2>4 DEF Alone
  <2> QED BY <2>5, <2>6 DEF Alone, InStore, Replaces, Open, Deciding
<1>4. MembersTypeOK'
  BY <1>1, MembersTypes DEF MembersIInv, MembersTypeOK, LateRows, Invitations, InviteStatuses
<1>5. \A u \in Users : CacheOK(u)'
  BY <1>1 DEF MembersIInv, CacheOK, RolesOf, Lately
<1>8. TakenOK'
  BY <1>1 DEF MembersIInv, TakenOK
<1>6. NoOrphans'
  <2>1. ASSUME NEW r \in Roles, ~role[r].live, NEW u \in Users, NEW i \in Pending(r, u, "pending")'
        PROVE  i \in late
    <3>1. i \in Invites /\ invite'[i].status = "pending" /\ invite'[i].role = r /\ invite'[i].user = u
      BY DEF Pending
    <3>2. CASE invite'[i] = invite[i]
      BY <2>1, <3>1, <3>2 DEF MembersIInv, NoOrphans, Pending
    <3>3. CASE invite'[i] # invite[i]
      BY <2>1, <3>1, <3>3
    <3> QED BY <3>2, <3>3
  <2>2. \A r \in Roles : Holders(r)' = Holders(r)
    BY <1>1 DEF Holders
  <2> QED BY <1>1, <2>1, <2>2 DEF MembersIInv, NoOrphans
<1>7. SnapshotIsCurrent'
  BY <1>1 DEF MembersIInv, SnapshotIsCurrent, Listed
<1> QED BY <1>2, <1>3, <1>4, <1>5, <1>6, <1>7, <1>8 DEF MembersIInv

\* An invitation with one more status.
LEMMA StatusRow ==
  ASSUME MembersIInv, NEW i \in Invites, NEW s \in InviteStatuses
  PROVE  LET cell == [invite[i] EXCEPT !.status = s]
         IN  cell \in Invitations /\ cell.status = s /\ cell.user = invite[i].user /\ cell.role = invite[i].role
<1>1. PICK y : y = invite[i]
  OBVIOUS
<1>2. y \in Invitations
  BY <1>1, MembersTypes
<1>3. PICK cell : cell = [y EXCEPT !.status = s]
  OBVIOUS
<1>4. cell \in Invitations /\ cell.status = s /\ cell.user = y.user /\ cell.role = y.role
  BY <1>2, <1>3 DEF Invitations
<1> QED BY <1>1, <1>3, <1>4

\* expires_at passes: who is deciding on it goes on.
LEMMA LapseInv ==
  ASSUME MembersIInv, NEW i \in Invites, Lapse(i)
  PROVE  MembersIInv'
<1>1. PICK cell : cell = [invite[i] EXCEPT !.status = "lapsed"]
  OBVIOUS
<1>2. /\ cell \in Invitations /\ cell.status = "lapsed" /\ cell.user = invite[i].user /\ cell.role = invite[i].role
  BY <1>1, StatusRow DEF InviteStatuses
<1>3. /\ invite[i].status = "pending" /\ invite' = [invite EXCEPT ![i] = cell] /\ req' = req
      /\ UNCHANGED <<role, mapping, members, version, caches, history>>
  BY <1>1, MembersTypes DEF Lapse
<1>4. invite' \in [Invites -> Invitations] /\ invite'[i] = cell /\ \A j \in Invites : j # i => invite'[j] = invite[j]
  BY <1>2, <1>3, MembersTypes
<1>5. \A j \in Invites : invite[j].status # "none" => invite[j].user \in Users /\ invite[j].role \in Roles
  BY DEF MembersIInv, MembersTypeOK
<1>6. /\ \A j \in Invites : invite'[j].status # "none" => invite'[j].user \in Users /\ invite'[j].role \in Roles
      /\ \A j \in Invites : invite[j].status # "none" =>
            invite'[j].status # "none" /\ invite'[j].role = invite[j].role
      /\ \A j \in Invites : invite'[j].status = "pending" => invite'[j] = invite[j]
      /\ \A j \in Invites : /\ StillPending(j) => StillPending(j)'
                            /\ invite[j].status = "none" => invite'[j].status = "none"
  BY <1>2, <1>3, <1>4, <1>5 DEF StillPending
<1>7. \A x \in Workers : req'[x] = req[x] /\ InStore(req[x]) =>
            /\ StillPending(req[x].inv) => StillPending(req[x].inv)'
            /\ invite[req[x].inv].status = "none" => invite'[req[x].inv].status = "none"
  BY <1>3, <1>6, WriterNames DEF StillPending
<1> QED BY <1>3, <1>4, <1>6, <1>7, MembersTypes, InvitesInv

\* A request that ends leaves the others where they are.
LEMMA EndsLeaves ==
  ASSUME MembersIInv, NEW w \in Workers, Ends(w)
  PROVE  /\ req' \in [Workers -> MemberRequests]
         /\ \A x \in Workers : req'[x] = req[x] \/ req'[x] = Idle
         /\ req'[w] = Idle /\ (InStore(req[w]) \/ Replaces(req[w]) => req'[w] # req[w])
<1>1. req' = [req EXCEPT ![w] = Idle] /\ Idle \in MemberRequests
  BY IdleOK DEF Ends
<1> QED BY <1>1, IdleOK, MembersTypes

\* An invitation is declined: nobody who decides on it holds it.
LEMMA RejectClaimsInv ==
  ASSUME MembersIInv, NEW w \in Workers, RejectClaims(w)
  PROVE  MembersIInv'
<1>1. PICK i : i = req[w].inv
  OBVIOUS
<1>2. /\ i \in Invites /\ InviteFree(i) /\ Ends(w)
      /\ invite' = IF StillPending(i) THEN [invite EXCEPT ![i].status = "revoked"] ELSE invite
      /\ UNCHANGED <<role, mapping, members, version, caches, history>>
  BY <1>1, RequestTypes DEF RejectClaims, At, Names
<1>3. CASE ~StillPending(i)
  BY <1>2, <1>3, EndsInv DEF tables
<1>4. CASE StillPending(i)
  <2>1. PICK cell : cell = [invite[i] EXCEPT !.status = "revoked"]
    OBVIOUS
  <2>2. /\ cell \in Invitations /\ cell.status = "revoked" /\ cell.user = invite[i].user /\ cell.role = invite[i].role
    BY <1>2, <2>1, StatusRow DEF InviteStatuses
  <2>3. invite' \in [Invites -> Invitations] /\ invite'[i] = cell /\ \A j \in Invites : j # i => invite'[j] = invite[j]
    BY <1>2, <1>4, <2>1, <2>2, MembersTypes
  <2>4. \A j \in Invites : invite[j].status # "none" => invite[j].user \in Users /\ invite[j].role \in Roles
    BY DEF MembersIInv, MembersTypeOK
  <2>5. invite[i].status # "none"
    BY <1>4 DEF StillPending
  <2>6. /\ \A j \in Invites : invite'[j].status # "none" => invite'[j].user \in Users /\ invite'[j].role \in Roles
        /\ \A j \in Invites : invite[j].status # "none" =>
              invite'[j].status # "none" /\ invite'[j].role = invite[j].role
        /\ \A j \in Invites : invite'[j].status = "pending" => invite'[j] = invite[j]
    BY <2>2, <2>3, <2>4, <2>5
  <2>7. ASSUME NEW x \in Workers, InStore(req[x])
        PROVE  /\ StillPending(req[x].inv) => invite'[req[x].inv].status \in {"pending", "lapsed"}
               /\ invite[req[x].inv].status = "none" => invite'[req[x].inv].status = "none"
    <3>1. PICK j : j = req[x].inv
      OBVIOUS
    <3>2. j \in Invites /\ (req[x].op = "accept" => j # i)
      BY <1>2, <2>7, <3>1, WriterNames DEF InviteFree, InStore, InTx, Deciding, Open
    <3>3. CASE req[x].op = "accept"
      <4>1. invite'[j] = invite[j]
        BY <2>3, <3>2, <3>3
      <4> QED BY <3>1, <4>1 DEF StillPending
    <3>4. CASE req[x].op # "accept"
      <4>1. req[x].op = "invite" /\ req[x].at = "commit"
        BY <2>7, <3>4 DEF InStore
      <4>2. invite[j].status = "none"
        BY <3>1, <4>1, RequestTypes DEF WriterOK
      <4>3. j # i
        BY <2>5, <4>2
      <4>4. invite'[j] = invite[j] /\ ~StillPending(j)
        BY <2>3, <3>2, <4>2, <4>3 DEF StillPending
      <4> QED BY <3>1, <4>4
    <3> QED BY <3>3, <3>4
  <2>8. \A x \in Workers : req'[x] = req[x] /\ InStore(req[x]) =>
            /\ StillPending(req[x].inv) => invite'[req[x].inv].status \in {"pending", "lapsed"}
            /\ invite[req[x].inv].status = "none" => invite'[req[x].inv].status = "none"
    <3> TAKE x \in Workers
    <3> HAVE req'[x] = req[x] /\ InStore(req[x])
    <3> QED BY <2>7 DEF StillPending
  <2> QED BY <1>2, <2>3, <2>6, <2>8, EndsLeaves, InvitesInv DEF StillPending
<1> QED BY <1>3, <1>4

\* An invitation is sent: a row nobody uses, late if the role is gone; the
\* stale ones it sweeps are in nobody's hands.
LEMMA InviteCommitsInv ==
  ASSUME MembersIInv, NEW w \in Workers, InviteCommits(w)
  PROVE  MembersIInv'
<1>1. PICK k, u, r : k = req[w].inv /\ u = req[w].user /\ r = req[w].role
  OBVIOUS
<1>2. PICK swept : swept = Pending(r, u, "lapsed")
  OBVIOUS
<1>3. /\ req[w].op = "invite" /\ req[w].at = "commit" /\ Ends(w)
      /\ UNCHANGED <<role, mapping, members, version, caches, history>>
      /\ invite' = [i \in Invites |->
            IF i = k THEN [status |-> "pending", user |-> u, role |-> r]
            ELSE IF i \in swept THEN [invite[i] EXCEPT !.status = "expired"] ELSE invite[i]]
  BY <1>1, <1>2 DEF InviteCommits, At
<1>4. /\ k \in Invites /\ u \in Users /\ r \in Roles /\ invite[k].status = "none"
      /\ ~role[r].live => k \in late
  BY <1>1, <1>3, RequestTypes DEF Names, WriterOK
<1>5. PICK cell : cell = [status |-> "pending", user |-> u, role |-> r]
  OBVIOUS
<1>6. cell \in Invitations /\ cell.status = "pending" /\ cell.user = u /\ cell.role = r
  BY <1>4, <1>5 DEF Invitations, InviteStatuses
<1>7. ASSUME NEW i \in Invites
      PROVE  /\ i = k => invite'[i] = cell
             /\ i # k /\ i \in swept => /\ invite'[i] \in Invitations /\ invite'[i].status = "expired"
                                        /\ invite'[i].user = invite[i].user /\ invite'[i].role = invite[i].role
             /\ i # k /\ i \notin swept => invite'[i] = invite[i]
  <2>1. PICK x : x = [invite[i] EXCEPT !.status = "expired"]
    OBVIOUS
  <2>2. x \in Invitations /\ x.status = "expired" /\ x.user = invite[i].user /\ x.role = invite[i].role
    BY <2>1, StatusRow DEF InviteStatuses
  <2>3. invite'[i] = IF i = k THEN cell ELSE IF i \in swept THEN x ELSE invite[i]
    BY <1>3, <1>5, <2>1
  <2> QED BY <2>2, <2>3
<1>8. \A i \in swept : invite[i].status # "none"
  BY <1>2 DEF Pending
<1>9. invite' \in [Invites -> Invitations]
  <2>1. \A i \in Invites : invite'[i] \in Invitations
    BY <1>6, <1>7, MembersTypes
  <2>2. invite' = [i \in Invites |-> invite'[i]]
    BY <1>3, Zenon
  <2> QED BY <2>1, <2>2
<1>10. \A i \in Invites : invite[i].status # "none" => invite[i].user \in Users /\ invite[i].role \in Roles
  BY DEF MembersIInv, MembersTypeOK
<1>11. \A i \in Invites : invite'[i].status # "none" => invite'[i].user \in Users /\ invite'[i].role \in Roles
  <2> TAKE i \in Invites
  <2>1. CASE i = k
    BY <1>4, <1>6, <1>7, <2>1
  <2>2. CASE i # k /\ i \in swept
    BY <1>7, <1>8, <1>10, <2>2
  <2>3. CASE i # k /\ i \notin swept
    BY <1>7, <1>10, <2>3
  <2> QED BY <2>1, <2>2, <2>3
<1>12. \A i \in Invites : invite[i].status # "none" =>
            invite'[i].status # "none" /\ invite'[i].role = invite[i].role
  <2> TAKE i \in Invites
  <2> HAVE invite[i].status # "none"
  <2>1. i # k
    BY <1>4
  <2> QED BY <1>7, <2>1
<1>13. \A i \in Invites : invite'[i].status = "pending" =>
            invite'[i] = invite[i] \/ (~role[invite'[i].role].live => i \in late)
  <2> TAKE i \in Invites
  <2> HAVE invite'[i].status = "pending"
  <2>1. CASE i = k
    BY <1>4, <1>6, <1>7, <2>1
  <2>2. CASE i # k
    BY <1>7, <2>2
  <2> QED BY <2>1, <2>2
<1>14. \A x \in Workers : req'[x] = req[x] => ~InStore(req[x])
  <2> TAKE x \in Workers
  <2>1. InStore(req[w])
    BY <1>3 DEF InStore
  <2>2. CASE x = w
    BY <1>3, <2>1, <2>2, EndsLeaves
  <2>3. CASE x # w
    BY <2>1, <2>3 DEF MembersIInv, Alone
  <2> QED BY <2>2, <2>3
<1> QED BY <1>3, <1>9, <1>11, <1>12, <1>13, <1>14, EndsLeaves, InvitesInv
-----------------------------------------------------------------------------
\* Steps of a request that write a cache: an entry is left alone, or what it
\* holds is as fresh as it says.
LEMMA CacheInv ==
  ASSUME MembersIInv, NEW w \in Workers, NEW q \in MemberRequests, req' = [req EXCEPT ![w] = q],
         UNCHANGED <<tables, history>>, Way(q), Names(q), WriterOK(q), ReaderOK(q), Claims(w, q),
         perm' \in [Users -> Resolutions], snap' \in [Users -> Snapshots],
         \A u \in Users : \/ perm'[u] = perm[u]
                          \/ perm'[u] = Miss
                          \/ /\ perm'[u].age < perm'[u].ttl
                             /\ \A g \in perm'[u].got : Lately(u, g, perm'[u].age + 1),
         \A u \in Users : \/ snap'[u] = snap[u]
                          \/ /\ snap'[u].ver <= version[u]
                             /\ u \notin unseen /\ snap'[u].ver = version[u] => snap'[u].got = Listed(u)
  PROVE  MembersIInv'
<1>1. UNCHANGED <<role, mapping, invite, members, version, left, taken, late, unseen>>
  BY DEF tables, history, fading
<1>2. WriterOK(q)' /\ ReaderOK(q)'
  BY <1>1, WriterKeeps, ReaderKeeps
<1>3. \A x \in Workers \ {w} : WriterOK(req[x])' /\ ReaderOK(req[x])'
  <2> TAKE x \in Workers \ {w}
  <2>1. PICK p : p = req[x]
    OBVIOUS
  <2>2. p \in MemberRequests /\ WriterOK(p) /\ ReaderOK(p)
    BY <2>1, RequestTypes
  <2>3. WriterOK(p)' /\ ReaderOK(p)'
    BY <1>1, <2>2, WriterKeeps, ReaderKeeps
  <2>4. req'[x] = p
    BY <2>1, MembersTypes
  <2> QED BY <2>3, <2>4 DEF WriterOK, ReaderOK
<1>4. \A x \in Workers \ {w} : Alone(q, req[x])
  BY ClaimsAlone
<1>5. \A u \in Users : perm'[u].age < perm'[u].ttl \/ perm'[u] = Miss
  BY MembersTypes
<1>6. MembersTypeOK'
  <2>1. \A i \in Invites : invite[i].status # "none" => invite[i].user \in Users /\ invite[i].role \in Roles
    BY DEF MembersIInv, MembersTypeOK
  <2> QED BY <1>1, <1>5, <2>1, MembersTypes, MembersTypesGive DEF MembersTypeOK, RoleRows, Mappings, Resolutions, Snapshots, LateRows,
                                                     Invitations, InviteStatuses, Miss
<1>7. ASSUME NEW u \in Users PROVE CacheOK(u)'
  <2>1. CacheOK(u) /\ RolesOf(u)' = RolesOf(u)
    BY <1>1 DEF MembersIInv, RolesOf
  <2>2. snap'[u].ver <= version[u]
    BY <2>1 DEF CacheOK
  <2>3. \A g \in perm'[u].got : Lately(u, g, perm'[u].age + 1)
    <3>1. CASE perm'[u] = Miss
      BY <3>1 DEF Miss
    <3>2. CASE perm'[u] = perm[u]
      BY <2>1, <3>2 DEF CacheOK
    <3> QED BY <3>1, <3>2
  <2> QED BY <1>1, <2>1, <2>2, <2>3 DEF CacheOK, Lately
<1>8. NoOrphans' /\ TakenOK'
  BY <1>1 DEF MembersIInv, NoOrphans, Holders, Pending, TakenOK
<1>9. SnapshotIsCurrent'
  <2>1. \A u \in Users : Listed(u)' = Listed(u)
    BY <1>1 DEF Listed
  <2> QED BY <1>1, <2>1 DEF MembersIInv, SnapshotIsCurrent
<1> QED BY <1>1, <1>2, <1>3, <1>4, <1>6, <1>7, <1>8, <1>9, RequestsInv, MembersTypes DEF MembersIInv

\* The permissions are deleted after the commit.
LEMMA UnpermInv ==
  ASSUME MembersIInv, NEW w \in Workers, Unperm(w)
  PROVE  MembersIInv'
<1>1. PICK p : p = req[w]
  OBVIOUS
<1>2. p \in MemberRequests /\ p.at = "unperm" /\ Way(p) /\ Names(p) /\ WriterOK(p)
  BY <1>1, RequestTypes DEF Unperm
<1>3. PICK q : q = [p EXCEPT !.at = "unsnap"]
  OBVIOUS
<1>4. q \in MemberRequests /\ q.op = p.op /\ q.at = "unsnap" /\ q.user = p.user /\ q.role = p.role /\ q.new = FALSE
  BY <1>2, <1>3 DEF MemberRequests, Stages, WriterOK, Open
<1>5. Way(q) /\ Names(q) /\ WriterOK(q) /\ ReaderOK(q) /\ Claims(w, q)
  BY <1>2, <1>4 DEF Way, Names, WriterOK, ReaderOK, Claims, InStore, Replaces, Open, Deciding
<1>6. Miss \in Resolutions
  BY MembersTypes DEF Miss, Resolutions, Ticks
<1>7. \A u \in Users : perm'[u] = Miss \/ perm'[u] = perm[u]
  BY DEF Unperm
<1>8. perm' \in [Users -> Resolutions]
  <2>1. \A u \in Users : perm'[u] \in Resolutions
    BY <1>6, <1>7, MembersTypes
  <2>2. perm' = [u \in Users |-> perm'[u]]
    BY Zenon DEF Unperm
  <2> QED BY <2>1, <2>2
<1>9. req' = [req EXCEPT ![w] = q] /\ UNCHANGED <<tables, history>> /\ snap' = snap
  BY <1>1, <1>3 DEF Unperm, Goes
<1> QED BY <1>4, <1>5, <1>7, <1>8, <1>9, MembersTypes, CacheInv

\* The snapshots are deleted, and an accept builds its own.
LEMMA UnsnapInv ==
  ASSUME MembersIInv, NEW w \in Workers, Unsnap(w)
  PROVE  MembersIInv'
<1>1. PICK p : p = req[w]
  OBVIOUS
<1>2. p \in MemberRequests /\ p.at = "unsnap" /\ Way(p) /\ Names(p) /\ WriterOK(p)
  BY <1>1, RequestTypes DEF Unsnap
<1>3. None \in Snapshots /\ \A u \in Users : None.ver < version[u]
  BY MembersTypes DEF None, Snapshots
<1>4. \A u \in Users : snap'[u] = None \/ snap'[u] = snap[u]
  BY DEF Unsnap
<1>5. snap' \in [Users -> Snapshots]
  <2>1. \A u \in Users : snap'[u] \in Snapshots
    BY <1>3, <1>4, MembersTypes
  <2>2. snap' = [u \in Users |-> snap'[u]]
    BY Zenon DEF Unsnap
  <2> QED BY <2>1, <2>2
<1>6. ASSUME NEW u \in Users
      PROVE  \/ snap'[u] = snap[u]
             \/ /\ snap'[u].ver <= version[u]
                /\ u \notin unseen /\ snap'[u].ver = version[u] => snap'[u].got = Listed(u)
  <2>1. version[u] \in 1 .. MaxVersion /\ None.ver = 0
    BY MembersTypes DEF None
  <2> QED BY <1>4, <2>1, MembersTypes
<1>7. \E q : /\ q \in MemberRequests /\ Way(q) /\ Names(q) /\ WriterOK(q) /\ ReaderOK(q) /\ Claims(w, q)
             /\ req' = [req EXCEPT ![w] = q]
  <2>1. CASE p.op = "accept"
    <3>1. PICK q : q = [p EXCEPT !.at = "build"]
      OBVIOUS
    <3>2. q \in MemberRequests /\ q.op = p.op /\ q.at = "build" /\ q.user = p.user /\ q.role = p.role /\ q.new = FALSE
      BY <1>2, <3>1 DEF MemberRequests, Stages, WriterOK, Open
    <3>3. Way(q) /\ Names(q) /\ WriterOK(q) /\ ReaderOK(q) /\ Claims(w, q)
      BY <1>2, <2>1, <3>2 DEF Way, Names, WriterOK, ReaderOK, Claims, InStore, Replaces, Open, Deciding
    <3>4. req' = [req EXCEPT ![w] = q]
      BY <1>1, <2>1, <3>1 DEF Unsnap, Goes
    <3> QED BY <3>2, <3>3, <3>4
  <2>2. CASE p.op # "accept"
    <3>1. req' = [req EXCEPT ![w] = Idle]
      BY <1>1, <2>2 DEF Unsnap, Ends
    <3> QED BY <3>1, IdleOK DEF Claims
  <2> QED BY <2>1, <2>2
<1>8. UNCHANGED <<tables, history>> /\ perm' = perm
  BY DEF Unsnap
<1> QED BY <1>5, <1>6, <1>7, <1>8, MembersTypes, CacheInv

\* A snapshot is filled in, perhaps long after it was read.
LEMMA BuildFillsInv ==
  ASSUME MembersIInv, NEW w \in Workers, BuildFills(w)
  PROVE  MembersIInv'
<1>1. PICK p : p = req[w]
  OBVIOUS
<1>2. p \in MemberRequests /\ p.at = "sign" /\ Way(p) /\ Names(p) /\ ReaderOK(p)
  BY <1>1, RequestTypes DEF BuildFills
<1>3. p.user \in Users /\ p.ver \in 0 .. MaxVersion /\ p.want \in SUBSET Grants
  BY <1>2 DEF Way, Names, Open, Deciding, MemberRequests
<1>4. PICK cell : cell = [ver |-> p.ver, got |-> p.want]
  OBVIOUS
<1>5. cell \in Snapshots /\ cell.ver = p.ver /\ cell.got = p.want
  BY <1>3, <1>4 DEF Snapshots
<1>6. snap' = [snap EXCEPT ![p.user] = cell]
  BY <1>1, <1>4 DEF BuildFills
<1>7. snap' \in [Users -> Snapshots] /\ snap'[p.user] = cell /\ \A u \in Users : u # p.user => snap'[u] = snap[u]
  BY <1>3, <1>5, <1>6, MembersTypes
<1>8. ASSUME NEW u \in Users
      PROVE  \/ snap'[u] = snap[u]
             \/ /\ snap'[u].ver <= version[u]
                /\ u \notin unseen /\ snap'[u].ver = version[u] => snap'[u].got = Listed(u)
  BY <1>2, <1>5, <1>7 DEF ReaderOK
<1>9. req' = [req EXCEPT ![w] = Idle] /\ UNCHANGED <<tables, history>> /\ perm' = perm
  BY DEF BuildFills, Ends
<1>10. Claims(w, Idle)
  BY IdleOK DEF Claims
<1>11. PICK q : q = Idle
  OBVIOUS
<1> QED BY <1>7, <1>8, <1>9, <1>10, <1>11, IdleOK, MembersTypes, CacheInv

\* Permissions are filled in, a tick at most after they were resolved.
LEMMA PermFillsInv ==
  ASSUME MembersIInv, NEW w \in Workers, PermFills(w)
  PROVE  MembersIInv'
<1>1. PICK p : p = req[w]
  OBVIOUS
<1>2. p \in MemberRequests /\ p.at = "fill" /\ Way(p) /\ Names(p) /\ WriterOK(p) /\ ReaderOK(p)
  BY <1>1, RequestTypes DEF PermFills
<1>3. p.op \in {"standard", "critical"} /\ p.user \in Users /\ p.want \in SUBSET Grants /\ p.new = FALSE
  BY <1>2 DEF Way, Names, Open, Deciding, MemberRequests, WriterOK
<1>4. \A g \in p.want : Lately(p.user, g, 1)
  <2> TAKE g \in p.want
  <2>1. Lately(p.user, g, Slack(p)) /\ g \in Grants
    BY <1>2, <1>3 DEF ReaderOK
  <2>2. Slack(p) \in Int /\ Slack(p) <= 1
    BY DEF Slack
  <2> QED BY <1>3, <2>1, <2>2, LatelyMore
<1>5. Ttl(p.op) \in {CriticalTtl, StandardTtl} /\ Ttl(p.op) \in Nat /\ Ttl(p.op) > 0
  BY <1>3, MembersTypes DEF Ttl
<1>6. PICK cell : cell = [got |-> p.want, age |-> 0, ttl |-> Ttl(p.op)]
  OBVIOUS
<1>7. cell \in Resolutions /\ cell.got = p.want /\ cell.age = 0 /\ cell.age < cell.ttl
  BY <1>3, <1>5, <1>6, MembersTypes DEF Resolutions, Ticks
<1>8. perm' = [perm EXCEPT ![p.user] = cell]
  BY <1>1, <1>6 DEF PermFills
<1>9. perm' \in [Users -> Resolutions] /\ perm'[p.user] = cell /\ \A u \in Users : u # p.user => perm'[u] = perm[u]
  BY <1>3, <1>7, <1>8, MembersTypes
<1>10. PICK q, no : no = FALSE /\ q = [p EXCEPT !.at = "answered", !.slow = no]
  OBVIOUS
<1>11. q \in MemberRequests /\ q.op = p.op /\ q.at = "answered" /\ q.user = p.user /\ q.role = p.role /\ q.new = FALSE
       /\ q.want = p.want
  BY <1>2, <1>3, <1>10 DEF MemberRequests, Stages
<1>12. Way(q) /\ Names(q) /\ WriterOK(q) /\ Claims(w, q)
  BY <1>2, <1>3, <1>11 DEF Way, Names, WriterOK, Claims, InStore, Replaces, Open, Deciding
<1>13. ReaderOK(q)
  <2>1. ASSUME NEW g \in p.want PROVE Lately(p.user, g, Ttl(p.op) + 1)
    <3>1. Lately(p.user, g, 1) /\ g \in Grants
      BY <1>3, <1>4
    <3>2. 1 \in Int /\ Ttl(p.op) + 1 \in Int /\ 1 <= Ttl(p.op) + 1
      BY <1>5
    <3> QED BY <1>3, <3>1, <3>2, LatelyMore
  <2> QED BY <1>11, <2>1 DEF ReaderOK
<1>14. req' = [req EXCEPT ![w] = q] /\ UNCHANGED <<tables, history>> /\ snap' = snap
  BY <1>1, <1>10 DEF PermFills
<1>15. ASSUME NEW u \in Users
       PROVE  \/ perm'[u] = perm[u]
              \/ /\ perm'[u].age < perm'[u].ttl
                 /\ \A g \in perm'[u].got : Lately(u, g, perm'[u].age + 1)
  <2>1. CASE u = p.user
    <3>1. perm'[u].age + 1 = 1 /\ perm'[u].age < perm'[u].ttl /\ perm'[u].got = p.want
      BY <1>7, <1>9, <2>1
    <3> QED BY <1>4, <2>1, <3>1
  <2>2. CASE u # p.user
    BY <1>9, <2>2
  <2> QED BY <2>1, <2>2
<1> QED BY <1>9, <1>11, <1>12, <1>13, <1>14, <1>15, MembersTypes, CacheInv

\* Time passes: a cached entry ages with what was taken away, and a
\* reading that was not filled in yet is a tick old.
LEMMA TickInv ==
  ASSUME MembersIInv, Tick
  PROVE  MembersIInv'
<1>1. UNCHANGED <<role, mapping, invite, members, version, snap, late, unseen>>
  BY DEF Tick, tables
<1>2. \A n \in Ticks : Later(n) \in Ticks /\ Later(n) <= n + 1 /\ 0 \in Ticks /\ 0 <= n
  BY MembersTypes DEF Ticks, Later
<1>3. /\ left' \in [Users \X Roles -> Ticks] /\ taken' \in [Roles \X Grants -> Ticks]
      /\ \A u \in Users : \A r \in RolesOf(u) : left'[<<u, r>>] = 0
      /\ TakenOK'
      /\ \A u \in Users, r \in Roles : left'[<<u, r>>] \in {0, Later(left[<<u, r>>])}
      /\ \A r \in Roles, g \in Grants : taken'[<<r, g>>] \in {0, Later(taken[<<r, g>>])}
  <2>1. /\ left' = [p \in Users \X Roles |-> IF p[2] \in RolesOf(p[1]) THEN 0 ELSE Later(left[p])]
        /\ taken' = [p \in Roles \X Grants |-> IF p[2] \in role[p[1]].grants THEN 0 ELSE Later(taken[p])]
    BY DEF Tick
  <2>2. 0 \in Ticks
    BY MembersTypes DEF Ticks
  <2>3. \A u \in Users : RolesOf(u) \subseteq Roles
    BY DEF RolesOf
  <2>4. \A r \in Roles : role[r].grants \subseteq Grants
    BY MembersTypes DEF RoleRows
  <2>5. left' \in [Users \X Roles -> Ticks] /\ taken' \in [Roles \X Grants -> Ticks]
    BY <1>2, <2>1, <2>2, MembersTypes
  <2>6. TakenOK'
    BY <1>1, <2>1, <2>4 DEF TakenOK
  <2> QED BY <2>1, <2>3, <2>5, <2>6
<1>14. ASSUME NEW u \in Users, NEW g \in Grants, NEW n \in Int, Lately(u, g, n)
       PROVE  Lately(u, g, n + 1)'
  <2>1. PICK r \in Roles : left[<<u, r>>] <= n /\ taken[<<r, g>>] <= n
    BY <1>14 DEF Lately
  <2>2. PICK a, b : a = left[<<u, r>>] /\ b = taken[<<r, g>>]
    OBVIOUS
  <2>3. a \in Ticks /\ b \in Ticks /\ a \in Int /\ b \in Int
    BY <2>2, MembersTypes DEF Ticks
  <2>4. PICK c, d : c = left'[<<u, r>>] /\ d = taken'[<<r, g>>]
    OBVIOUS
  <2>5. c \in {0, Later(a)} /\ d \in {0, Later(b)} /\ c \in Ticks /\ d \in Ticks
    BY <1>3, <2>2, <2>4
  <2>6. Later(a) <= a + 1 /\ Later(b) <= b + 1 /\ Later(a) \in Int /\ Later(b) \in Int /\ 0 <= a
    BY <1>2, <2>3, MembersTypes DEF Ticks
  <2>7. a <= n /\ b <= n
    BY <2>1, <2>2
  <2>8. c <= n + 1 /\ d <= n + 1
    BY <2>3, <2>5, <2>6, <2>7
  <2> QED BY <2>4, <2>8 DEF Lately
<1>4. ASSUME NEW u \in Users
      PROVE  /\ perm'[u] \in Resolutions
             /\ \/ perm'[u] = Miss
                \/ /\ perm'[u].age < perm'[u].ttl /\ perm'[u].got = perm[u].got
                   /\ perm'[u].age = perm[u].age + 1
  <2>1. PICK y : y = perm[u]
    OBVIOUS
  <2>2. y \in Resolutions /\ y.age \in 0 .. StandardTtl + 2 /\ y.ttl \in {0, CriticalTtl, StandardTtl}
    BY <2>1, MembersTypes DEF Resolutions, Ticks
  <2>3. perm'[u] = IF y.age + 1 < y.ttl THEN [y EXCEPT !.age = @ + 1] ELSE Miss
    BY <2>1 DEF Tick
  <2>4. CASE y.age + 1 < y.ttl
    <3>1. perm'[u] = [got |-> y.got, age |-> y.age + 1, ttl |-> y.ttl]
      BY <2>2, <2>3, <2>4 DEF Resolutions
    <3>2. y.age + 1 \in Ticks
      BY <2>2, <2>4, MembersTypes DEF Ticks
    <3> QED BY <2>1, <2>2, <2>4, <3>1, <3>2 DEF Resolutions
  <2>5. CASE ~(y.age + 1 < y.ttl)
    <3>1. Miss \in Resolutions
      BY MembersTypes DEF Miss, Resolutions, Ticks
    <3> QED BY <2>3, <2>5, <3>1
  <2> QED BY <2>4, <2>5
<1>5. perm' \in [Users -> Resolutions]
  <2>1. perm' = [u \in Users |-> perm'[u]]
    BY Zenon DEF Tick
  <2> QED BY <1>4, <2>1
<1>6. ASSUME NEW x \in Workers
      PROVE  /\ req'[x] \in MemberRequests
             /\ req'[x].at # "answered"
             /\ req'[x].at \in {"grants", "fill"} => req'[x].slow /\ ~req[x].slow
             /\ req'[x].op = req[x].op /\ req'[x].at = req[x].at /\ req'[x].user = req[x].user
             /\ req'[x].role = req[x].role /\ req'[x].inv = req[x].inv /\ req'[x].want = req[x].want
             /\ req'[x].roles = req[x].roles /\ req'[x].ver = req[x].ver /\ req'[x].new = req[x].new /\ req'[x].bumped = req[x].bumped
  <2>1. PICK p : p = req[x]
    OBVIOUS
  <2>2. p \in MemberRequests /\ p.at # "answered" /\ ~(p.at \in {"grants", "fill"} /\ p.slow)
    BY <2>1, MembersTypes DEF Tick, Reading
  <2>3. CASE p.at \in {"grants", "fill"}
    <3>1. PICK yes : yes = TRUE
      OBVIOUS
    <3>2. PICK q : q = [p EXCEPT !.slow = yes]
      OBVIOUS
    <3>3. req'[x] = q
      BY <2>1, <2>3, <3>1, <3>2 DEF Tick, Reading
    <3>4. q \in MemberRequests /\ q.slow = yes /\ q.op = p.op /\ q.at = p.at /\ q.user = p.user /\ q.role = p.role
          /\ q.inv = p.inv /\ q.roles = p.roles /\ q.want = p.want /\ q.ver = p.ver /\ q.new = p.new
          /\ q.bumped = p.bumped
      BY <2>2, <3>1, <3>2 DEF MemberRequests
    <3> QED BY <2>1, <2>2, <2>3, <3>1, <3>3, <3>4
  <2>4. CASE p.at \notin {"grants", "fill"}
    <3>1. req'[x] = p
      BY <2>1, <2>4 DEF Tick, Reading
    <3> QED BY <2>1, <2>2, <2>4, <3>1
  <2> QED BY <2>3, <2>4
<1>7. req' \in [Workers -> MemberRequests]
  <2>1. req' = [x \in Workers |-> req'[x]]
    BY Zenon DEF Tick
  <2> QED BY <1>6, <2>1
<1>8. ASSUME NEW x \in Workers
      PROVE  Way(req[x])' /\ Names(req[x])' /\ WriterOK(req[x])' /\ ReaderOK(req[x])'
  <2>1. PICK p, q : p = req[x] /\ q = req'[x]
    OBVIOUS
  <2>2. p \in MemberRequests /\ Way(p) /\ Names(p) /\ WriterOK(p) /\ ReaderOK(p)
    BY <2>1, RequestTypes
  <2>3. /\ q.op = p.op /\ q.at = p.at /\ q.user = p.user /\ q.role = p.role /\ q.inv = p.inv
        /\ q.want = p.want /\ q.roles = p.roles /\ q.ver = p.ver /\ q.new = p.new /\ q.bumped = p.bumped
        /\ q.at # "answered" /\ (q.at \in {"grants", "fill"} => q.slow /\ ~p.slow)
    BY <1>6, <2>1
  <2>4. Way(q) /\ Names(q) /\ WriterOK(q)
    BY <2>2, <2>3 DEF Way, Names, WriterOK
  <2>5. WriterOK(q)'
    BY <1>1, <2>4 DEF WriterOK, StillPending
  <2>6. q.at \in {"stores", "list", "sign"} => q.ver <= version'[q.user]
    BY <1>1, <2>2, <2>3 DEF ReaderOK
  <2>7. q.at = "sign" /\ q.ver = version'[q.user] /\ q.user \notin unseen' => q.want = Listed(q.user)'
    <3>1. Listed(q.user)' = Listed(q.user)
      BY <1>1 DEF Listed
    <3>2. p.at = "sign" /\ p.ver = version[p.user] /\ p.user \notin unseen => p.want = Listed(p.user)
      BY <2>2 DEF ReaderOK
    <3>3. p.user = q.user /\ p.at = q.at /\ p.ver = q.ver /\ p.want = q.want
      BY <2>3
    <3> QED BY <1>1, <3>1, <3>2, <3>3
  <2>8. ASSUME q.at = "fill", NEW g \in q.want PROVE Lately(q.user, g, Slack(q))'
    <3>1. q.user \in Users /\ g \in Grants
      BY <2>2, <2>3, <2>8 DEF Way, Names, Open, Deciding, MemberRequests
    <3>2. Lately(q.user, g, 0)
      BY <2>2, <2>3, <2>8 DEF ReaderOK, Slack
    <3>3. Lately(q.user, g, 0 + 1)'
      BY <1>14, <3>1, <3>2
    <3> QED BY <2>3, <2>8, <3>3 DEF Slack
  <2>10. ASSUME q.at = "grants", NEW r \in q.roles PROVE left'[<<q.user, r>>] <= Slack(q)
    <3>1. q.user \in Users /\ r \in Roles
      BY <2>2, <2>3, <2>10 DEF Way, Names, Open, Deciding, MemberRequests
    <3>2. left[<<q.user, r>>] <= 0
      BY <2>2, <2>3, <2>10 DEF ReaderOK, Slack
    <3>3. left[<<q.user, r>>] \in Ticks /\ left'[<<q.user, r>>] \in {0, Later(left[<<q.user, r>>])}
      BY <1>3, <3>1, MembersTypes
    <3>4. left'[<<q.user, r>>] \in {0, 1}
      BY <3>2, <3>3, MembersTypes DEF Ticks, Later
    <3> QED BY <2>3, <2>10, <3>4 DEF Slack
  <2>9. ReaderOK(q)'
    BY <2>3, <2>6, <2>7, <2>8, <2>10 DEF ReaderOK, Slack, Listed, Lately
  <2> QED BY <2>1, <2>4, <2>5, <2>9 DEF Way, Names, WriterOK, ReaderOK
<1>9. ASSUME NEW x \in Workers, NEW y \in Workers, x # y PROVE Alone(req[x], req[y])'
  <2>1. Alone(req[x], req[y])
    BY <1>9 DEF MembersIInv
  <2> QED BY <1>6, <2>1 DEF Alone, InStore, Replaces
<1>10. \A u \in Users : RolesOf(u)' = RolesOf(u) /\ Listed(u)' = Listed(u)
  BY <1>1 DEF RolesOf, Listed
<1>11. ASSUME NEW u \in Users PROVE CacheOK(u)'
  <2>1. CacheOK(u)
    BY DEF MembersIInv
  <2>2. snap'[u].ver <= version'[u]
    BY <1>1, <2>1 DEF CacheOK
  <2>3. \A r \in RolesOf(u)' : left'[<<u, r>>] = 0
    BY <1>3, <1>10
  <2>4. ASSUME NEW g \in perm'[u].got PROVE Lately(u, g, perm[u].age + 1)'
    <3>1. perm'[u] # Miss
      BY <2>4 DEF Miss
    <3>2. perm'[u].got = perm[u].got /\ perm'[u].age = perm[u].age + 1
      BY <1>4, <3>1
    <3>3. PICK n : n = perm[u].age + 1
      OBVIOUS
    <3>4. g \in Grants /\ n \in Int /\ Lately(u, g, n)
      <4>1. perm[u] \in Resolutions
        BY MembersTypes
      <4>2. perm[u].got \subseteq Grants /\ perm[u].age \in Int
        BY <4>1 DEF Resolutions, Ticks
      <4> QED BY <2>1, <2>4, <3>2, <3>3, <4>2 DEF CacheOK
    <3>5. Lately(u, g, n + 1)'
      BY <1>14, <3>4
    <3> QED BY <3>2, <3>3, <3>5 DEF Lately
  <2> QED BY <2>2, <2>3, <2>4 DEF CacheOK, Lately
<1>12. MembersTypeOK'
  <2>1. \A i \in Invites : invite[i].status # "none" => invite[i].user \in Users /\ invite[i].role \in Roles
    BY DEF MembersIInv, MembersTypeOK
  <2>2. \A u \in Users : perm'[u].age < perm'[u].ttl \/ perm'[u] = Miss
    BY <1>4
  <2> QED BY <1>1, <1>3, <1>5, <2>1, <2>2, MembersTypes, MembersTypesGive
          DEF MembersTypeOK, RoleRows, Mappings, Resolutions, Snapshots, LateRows, Invitations, InviteStatuses, Miss
<1>13. NoOrphans' /\ SnapshotIsCurrent'
  BY <1>1, <1>10 DEF MembersIInv, NoOrphans, SnapshotIsCurrent, Holders, Pending
<1> QED BY <1>1, <1>3, <1>7, <1>8, <1>9, <1>11, <1>12, <1>13, MembersTypes DEF MembersIInv
-----------------------------------------------------------------------------
\* Every step keeps the invariant.
LEMMA MembersNextInv == MembersIInv /\ [MembersNext]_membersVars => MembersIInv'
<1> SUFFICES ASSUME MembersIInv, [MembersNext]_membersVars PROVE MembersIInv'
  OBVIOUS
<1>1. CASE UNCHANGED membersVars
  <2>1. UNCHANGED <<role, mapping, invite, members, version, perm, snap, req, left, taken, late, unseen>>
    BY <1>1 DEF membersVars, tables, caches, history, fading
  <2>2. MembersTypeOK' /\ (invite \in [Invites -> Invitations])' /\ (req \in [Workers -> MemberRequests])'
    BY <2>1 DEF MembersIInv, MembersTypeOK
  <2>3. ASSUME NEW x \in Workers
        PROVE  Way(req[x])' /\ Names(req[x])' /\ WriterOK(req[x])' /\ ReaderOK(req[x])'
    <3>1. WriterOK(req[x]) /\ ReaderOK(req[x]) /\ Way(req[x]) /\ Names(req[x])
      BY RequestTypes
    <3>2. Way(req[x])' /\ Names(req[x])'
      BY <2>1, <3>1 DEF Way, Names
    <3>3. WriterOK(req[x])' /\ ReaderOK(req[x])'
      BY <2>1, <3>1 DEF WriterOK, ReaderOK, StillPending, Listed, Lately
    <3> QED BY <3>2, <3>3
  <2>4. \A x, y \in Workers : x # y => Alone(req[x], req[y])'
    BY <2>1 DEF MembersIInv, Alone, InStore, Replaces
  <2>5. \A u \in Users : CacheOK(u)'
    BY <2>1 DEF MembersIInv, CacheOK, RolesOf, Lately
  <2>6. TakenOK' /\ NoOrphans' /\ SnapshotIsCurrent'
    <3>1. \A u \in Users : Listed(u)' = Listed(u)
      BY <2>1 DEF Listed
    <3> QED BY <2>1, <3>1 DEF MembersIInv, TakenOK, NoOrphans, SnapshotIsCurrent, Holders, Pending
  <2> QED BY <2>2, <2>3, <2>4, <2>5, <2>6 DEF MembersIInv
<1>2. CASE Tick
  BY <1>2, TickInv
<1>3. CASE \E i \in Invites : Lapse(i)
  BY <1>3, LapseInv
<1>4. ASSUME NEW w \in Workers, AdminStep(w) PROVE MembersIInv'
  <2>1. CASE Bump(w) \/ AssignInserts(w) \/ AssignCommits(w) \/ RevokeStrikes(w) \/ RevokeCommits(w)
    BY <2>1, BumpInv, AssignInsertsInv, AssignCommitsInv, RevokeStrikesInv, RevokeCommitsInv
  <2>2. CASE UpdateClaims(w) \/ UpdateCommits(w) \/ DeleteCommits(w) \/ InviteInserts(w) \/ InviteCommits(w)
    BY <2>2, UpdateClaimsInv, UpdateCommitsInv, DeleteCommitsInv, InviteInsertsInv, InviteCommitsInv
  <2>3. CASE AcceptClaims(w) \/ AcceptChecksRole(w) \/ AcceptInserts(w) \/ AcceptCommits(w) \/ RejectClaims(w)
    BY <2>3, AcceptClaimsInv, AcceptChecksRoleInv, AcceptInsertsInv, AcceptCommitsInv, RejectClaimsInv
  <2>4. CASE Unperm(w) \/ Unsnap(w)
    BY <2>4, UnpermInv, UnsnapInv
  <2>5. CASE InvalidationLost(w)
    BY <2>5, EndsInv DEF InvalidationLost
  <2>6. CASE \/ \E r \in Roles : DeleteChecks(w, r) \/ \E G \in SUBSET Grants : UpdateChecks(w, r, G)
             \/ \E r \in Roles, u \in Users : AssignChecks(w, u, r) \/ RevokeChecks(w, u, r)
                                               \/ \E i \in Invites : InviteChecks(w, i, u, r)
             \/ \E i \in Invites : RejectReads(w, i) \/ \E u \in Users : AcceptReads(w, i, u)
    BY <2>6, ChecksInv
  <2> QED BY <1>4, <2>1, <2>2, <2>3, <2>4, <2>5, <2>6 DEF AdminStep
<1>5. ASSUME NEW w \in Workers, CacheStep(w) PROVE MembersIInv'
  <2>1. CASE BuildReadsVersion(w) \/ BuildReadsStores(w) \/ BuildReadsGrants(w) \/ BuildFills(w)
    BY <2>1, BuildReadsVersionInv, BuildReadsStoresInv, BuildReadsGrantsInv, BuildFillsInv
  <2>2. CASE PermReadsRoles(w) \/ PermReadsGrants(w) \/ PermFills(w)
    BY <2>2, PermReadsRolesInv, PermReadsGrantsInv, PermFillsInv
  <2>3. CASE SnapshotHit(w) \/ PermEnds(w)
    BY <2>3, EndsInv DEF SnapshotHit, PermEnds
  <2>4. CASE \E u \in Users : Snapshot(w, u) \/ \E op \in {"standard", "critical"} : PermReads(w, op, u)
    BY <2>4, SnapshotInv, PermReadsInv
  <2> QED BY <1>5, <2>1, <2>2, <2>3, <2>4 DEF CacheStep
<1> QED BY <1>1, <1>2, <1>3, <1>4, <1>5 DEF MembersNext

\* The strengthened invariant holds in every reachable state.
THEOREM MembersInvariant == MembersSpec => []MembersIInv
<1> QED BY MembersInitInv, MembersNextInv, PTL DEF MembersSpec

\* The types, no orphans on a deleted role, and no stale snapshot of the live
\* version, whatever fills and invalidations overtake one another.
THEOREM NobodyIsLeftBehind == MembersSpec => []MembersInv
<1>1. MembersIInv => MembersInv
  BY DEF MembersIInv, MembersInv
<1> QED BY <1>1, MembersInvariant, PTL

\* What was taken away fades: a role from a user and a grant from a role, each
\* within the window of the operation and a tick.
THEOREM TakenGrantsFade == MembersSpec => []GrantsCatchUp
<1>1. MembersIInv => GrantsCatchUp
  BY RequestTypes DEF GrantsCatchUp, ReaderOK
<1> QED BY <1>1, MembersInvariant, PTL

\* What a step may do to an invitation.
Once(i) ==
  /\ invite[i].status \in {"accepted", "revoked", "expired"} => invite'[i] = invite[i]
  /\ invite'[i].status = "accepted" /\ invite[i].status # "accepted" =>
        /\ invite'[i].user \in members'
        /\ mapping'[<<invite'[i].user, invite'[i].role>>] = "active"
           \/ mapping[<<invite'[i].user, invite'[i].role>>] = "revoked"

\* An accept decides an invitation nobody has decided, and its user is a member
\* with the role then, unless the role was once taken from him.
LEMMA AcceptOnce ==
  ASSUME MembersIInv, NEW w \in Workers, AcceptCommits(w), NEW i \in Invites
  PROVE  Once(i)
<1>1. PICK p : p = req[w]
  OBVIOUS
<1>2. /\ p.inv \in Invites /\ p.user \in Users /\ p.role \in Roles /\ StillPending(p.inv)
      /\ ~p.new => mapping[<<p.user, p.role>>] # "none"
      /\ p.op = "accept" /\ p.at = "commit"
  BY <1>1, AcceptKnows
<1>3. /\ invite'[p.inv].user = p.user /\ invite'[p.inv].role = p.role
      /\ \A j \in Invites : j # p.inv => invite'[j] = invite[j]
  BY <1>1, AcceptedInvitation
<1>4. p.user \in members' /\ mapping' = Joined(w)
  BY <1>1 DEF AcceptCommits, Settles
<1>5. CASE i # p.inv
  BY <1>3, <1>5 DEF Once
<1>6. CASE i = p.inv
  <2>1. invite[i].status \in {"pending", "lapsed"}
    BY <1>2, <1>6 DEF StillPending
  <2>2. mapping'[<<p.user, p.role>>] = "active" \/ mapping[<<p.user, p.role>>] = "revoked"
    <3>1. CASE p.new
      BY <1>1, <1>2, <1>4, <3>1, JoinedRow
    <3>2. CASE ~p.new
      <4>1. mapping'[<<p.user, p.role>>] = mapping[<<p.user, p.role>>]
        BY <1>1, <1>2, <1>4, <3>2, JoinedRow
      <4>2. mapping[<<p.user, p.role>>] \in {"none", "active", "revoked"}
        BY <1>2, MembersTypes DEF Mappings
      <4> QED BY <1>2, <3>2, <4>1, <4>2
    <3> QED BY <3>1, <3>2
  <2> QED BY <1>3, <1>4, <1>6, <2>1, <2>2 DEF Once
<1> QED BY <1>5, <1>6

\* The other steps that write invitations take them from pending, or from
\* nothing.
LEMMA OthersOnce ==
  ASSUME MembersIInv, NEW i \in Invites,
         \/ invite' = invite
         \/ \E j \in Invites : Lapse(j)
         \/ \E w \in Workers : RejectClaims(w) \/ InviteCommits(w)
  PROVE  Once(i)
<1>1. CASE invite' = invite
  BY <1>1 DEF Once
<1>2. ASSUME NEW j \in Invites, invite[j].status \notin {"accepted", "revoked", "expired"}, NEW s \in InviteStatuses,
             s # "accepted", invite' = [invite EXCEPT ![j].status = s]
      PROVE  Once(i)
  <2>1. PICK cell : cell = [invite[j] EXCEPT !.status = s]
    OBVIOUS
  <2>2. cell.status = s
    BY <2>1, StatusRow
  <2>3. invite'[j] = cell /\ \A k \in Invites : k # j => invite'[k] = invite[k]
    BY <1>2, <2>1, MembersTypes
  <2> QED BY <1>2, <2>2, <2>3 DEF Once
<1>3. ASSUME NEW j \in Invites, Lapse(j) PROVE Once(i)
  BY <1>2, <1>3 DEF Lapse, InviteStatuses
<1>4. ASSUME NEW w \in Workers, RejectClaims(w) PROVE Once(i)
  <2>1. req[w].inv \in Invites
    BY <1>4, RequestTypes DEF RejectClaims, At, Names
  <2>2. invite' = IF StillPending(req[w].inv) THEN [invite EXCEPT ![req[w].inv].status = "revoked"] ELSE invite
    BY <1>4 DEF RejectClaims
  <2> QED BY <1>1, <1>2, <2>1, <2>2 DEF StillPending, InviteStatuses
<1>5. ASSUME NEW w \in Workers, InviteCommits(w) PROVE Once(i)
  <2>1. PICK k, u, r : k = req[w].inv /\ u = req[w].user /\ r = req[w].role
    OBVIOUS
  <2>2. invite[k].status = "none"
    BY <1>5, <2>1, RequestTypes DEF InviteCommits, At, WriterOK
  <2>3. invite'[i] = IF i = k THEN [status |-> "pending", user |-> u, role |-> r]
                     ELSE IF i \in Pending(r, u, "lapsed") THEN [invite[i] EXCEPT !.status = "expired"] ELSE invite[i]
    BY <1>5, <2>1 DEF InviteCommits
  <2>4. CASE i = k
    <3>1. invite'[i].status = "pending"
      BY <2>3, <2>4
    <3> QED BY <2>2, <2>4, <3>1 DEF Once
  <2>5. CASE i # k /\ i \in Pending(r, u, "lapsed")
    <3>1. invite[i].status = "lapsed"
      BY <2>5 DEF Pending
    <3>2. PICK cell : cell = [invite[i] EXCEPT !.status = "expired"]
      OBVIOUS
    <3>3. cell.status = "expired"
      BY <3>2, StatusRow DEF InviteStatuses
    <3> QED BY <2>3, <2>5, <3>1, <3>2, <3>3 DEF Once
  <2>6. CASE i # k /\ i \notin Pending(r, u, "lapsed")
    BY <2>3, <2>6 DEF Once
  <2> QED BY <2>4, <2>5, <2>6
<1> QED BY <1>1, <1>3, <1>4, <1>5

\* Every step leaves the invitations alone, or is one of those.
LEMMA WhoDecides ==
  ASSUME [MembersNext]_membersVars
  PROVE  \/ invite' = invite
         \/ \E j \in Invites : Lapse(j)
         \/ \E w \in Workers : RejectClaims(w) \/ InviteCommits(w)
         \/ \E w \in Workers : AcceptCommits(w)
<1>1. CASE UNCHANGED membersVars
  BY <1>1 DEF membersVars, tables
<1>2. CASE Tick
  BY <1>2 DEF Tick, tables
<1>3. ASSUME NEW w \in Workers, AdminStep(w)
      PROVE  invite' = invite \/ RejectClaims(w) \/ InviteCommits(w) \/ AcceptCommits(w)
  <2>1. CASE Bump(w) \/ AssignInserts(w) \/ AssignCommits(w) \/ RevokeStrikes(w) \/ RevokeCommits(w)
    BY <2>1 DEF Bump, AssignInserts, AssignCommits, RevokeStrikes, RevokeCommits, tables
  <2>2. CASE UpdateClaims(w) \/ UpdateCommits(w) \/ DeleteCommits(w) \/ InviteInserts(w)
    BY <2>2 DEF UpdateClaims, UpdateCommits, DeleteCommits, InviteInserts, tables
  <2>3. CASE AcceptClaims(w) \/ AcceptChecksRole(w) \/ AcceptInserts(w)
    BY <2>3 DEF AcceptClaims, AcceptChecksRole, AcceptInserts, tables
  <2>4. CASE Unperm(w) \/ Unsnap(w) \/ InvalidationLost(w)
    BY <2>4 DEF Unperm, Unsnap, InvalidationLost, tables
  <2>5. CASE \/ \E r \in Roles : DeleteChecks(w, r) \/ \E G \in SUBSET Grants : UpdateChecks(w, r, G)
             \/ \E r \in Roles, u \in Users : AssignChecks(w, u, r) \/ RevokeChecks(w, u, r)
                                               \/ \E i \in Invites : InviteChecks(w, i, u, r)
             \/ \E i \in Invites : RejectReads(w, i) \/ \E u \in Users : AcceptReads(w, i, u)
    BY <2>5 DEF DeleteChecks, UpdateChecks, AssignChecks, RevokeChecks, InviteChecks, RejectReads, AcceptReads, tables
  <2> QED BY <1>3, <2>1, <2>2, <2>3, <2>4, <2>5 DEF AdminStep
<1>4. ASSUME NEW w \in Workers, CacheStep(w) PROVE invite' = invite
  BY <1>4 DEF CacheStep, SnapshotHit, BuildReadsVersion, BuildReadsStores, BuildReadsGrants, BuildFills,
              PermReadsRoles, PermReadsGrants, PermFills, PermEnds, Snapshot, PermReads, tables
<1> QED BY <1>1, <1>2, <1>3, <1>4 DEF MembersNext

\* An invitation is decided once, and accepting it makes a member with the
\* role.
THEOREM InvitationsAreDecidedOnce == MembersSpec => DecidedOnce
<1>1. ASSUME MembersIInv, [MembersNext]_membersVars PROVE \A i \in Invites : Once(i)
  BY <1>1, WhoDecides, AcceptOnce, OthersOnce
<1>2. MembersIInv /\ [MembersNext]_membersVars => [\A i \in Invites :
          /\ invite[i].status \in {"accepted", "revoked", "expired"} => invite'[i] = invite[i]
          /\ invite'[i].status = "accepted" /\ invite[i].status # "accepted" =>
                /\ invite'[i].user \in members'
                /\ mapping'[<<invite'[i].user, invite'[i].role>>] = "active"
                   \/ mapping[<<invite'[i].user, invite'[i].role>>] = "revoked"]_membersVars
  BY <1>1 DEF Once
<1> QED BY <1>2, MembersInvariant, PTL DEF MembersSpec, DecidedOnce
=============================================================================
