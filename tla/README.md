# Verification of ayphen-retail-pos

Offline-first point of sale: a phone records sales, customers, refunds and photos
while it has no network, queues each as a *mutation*, and pushes the queue to a
NestJS backend over PostgreSQL and Redis; a pull brings the other devices' changes
back. Accounts have plans, stores, device slots, staff with roles, and one session
per device. This directory holds TLA+ models of that system, the TLC runs that
check them, and TLAPS proofs that hold for instances of every size. Paths below are
relative to `src/`; `sync/` means `apps/backend/src/sync/`, `core/sync/` means
`apps/mobile/src/core/sync/`, other paths are below `apps/backend/src/`.

## 1. Inventory

| Component | State it keeps | Operations | Hard behaviour | What makes it correct | Module |
|---|---|---|---|---|---|
| Wave planner (`sync/push/delta.service.ts:672-777`) | none, pure | cycle detection, parents-first sort, waves | arbitrary client order, loops, repeated ids | parents and earlier edits run in an earlier wave; exactly the loops are refused | Waves |
| Push pipeline (`delta.service.ts`, `bounded.ts`) | `sync_mutation_idempotency`, `sync_mutation_failures`, entity rows; per call: clock, gates, failed guuids | find, expire, preflight, handler, claim, commit, recheck, record, bump, poll | overlapping copies of a call, two devices on one row, process death, expiring rows | a write happens once, iff its verdict is `applied`; no answer lies; every call ends | DeltaPush |
| Idempotency ledger | one row per (mutation, user, store) | find, isLive, claim, record, remove | TTL against the replay window, delete by key | an applied verdict is final | MutationLedger |
| Mobile queue and drain (`core/sync/engine/drain-queue.ts`, `mutation-queue.repository.ts`), logout (`local-reset.ts`) | SQLite `mutation_queue`, optimistic rows, cursor | enqueue, take, mark, send, reconcile, age, flush, wipe | app kill, lost answer, 4xx against 5xx, temp row against server row, a flush beside a cycle | nothing lost, hidden, unsettled or stuck | OutboundQueue |
| Cold start and delta pull (`sync/pull/*`, `core/sync/engine/cold-start.ts`, `apply-changes.ts`, `retry-failed-applies.ts`) | watermarks, progress, tombstones, dead letters | page, anchor, cutoff, apply, retry, rebase | writers open during a read, lost pages, a second cold start | no committed row is passed over, none comes back from the dead | DeltaPull |
| Refresh rotation, session cache, guards (`auth/mobile/*`, mobile `interceptors.ts`) | token family, Redis claim, blacklist, session cache with tombstones | rotate, replay, reuse detection, revoke, fill | lost answers, overlapping calls, a leader that dies | an honest phone keeps its session; a closed one is refused | Session |
| Subscription and write gate (`subscription/*`, `subscription-status.guard.ts`) | one row per account, versioned snapshot in Redis | activate, cancel, reactivate, lifecycle cron, load, fill | select-then-update cron against payments, lost invalidations | no paid window is taken; the gate closes in time | SubscriptionGate |
| Plan limits, device slots (`subscription/reconciliation.service.ts`, `devices/*`) | stores, slots, why each was closed | claim, expire, detect, restore, resolve, swap | claims against plan changes, the owner acting on an old reading | limits hold; a downgrade takes nothing for good; the owner stays in | PlanLimits |
| Sales, refunds, payments (`sync/push/handlers/*`) | sales, refunds, allocations, ledger, invoice counter | sell, refund, settle, pay a bill | sums read without locks, rounding of shares | numbers dense, refunds exact, books balanced, no debt beyond the limit | Ledger |
| Attachments (`core/sync/attachments`, `files/*`) | photo rows, temp rows, files, objects | stage, commit, undo, delete, restore, sweep, reap | storage without transactions, kills and retries at every step | a live file has its bytes; the original goes last | Attachments |
| Staff: roles, invitations, permission caches (`stores/role`, `stores/invitation`, `common/rbac`, `snapshot.service.ts`) | roles, mappings, invitations, `permissions_version`, two caches | invite, accept, decline, assign, revoke, edit, delete, resolve, snapshot | checks before locks, fills that overtake invalidations | decided once, no orphans, a withdrawn grant ends in time | Membership |
| Scheduler and store opening (`core/sync/scheduler-instance.ts`, `sync-scheduler.ts`, `sync-engine.ts`, `store-open-status.ts`) | `opening`, `current`, generation, timers, the open gate | enter, leave, open, retry, heartbeat, wake, background push, stop | slow opens after a switch, calls that outlive a stop, dropped ticks, 429 | the last choice wins; the gate is true; a store opens and its queue empties | StoreSync |
| Conflict resolver, payment accounts, login/OTP, orders, lookups, UI | own tables | see `PROJECT.json` | | | not modelled, or at the edges of the above |

How they meet: an `enqueue*` writes the optimistic row and the queue row in one
SQLite transaction; the scheduler's cycle drains the queue in batches
(`POST /sync/delta`), the push pipeline answers one result per mutation; the
client reconciles results, applies pages, pulls until `has_more` is false, and
uploads photos once their record is on the server. Every call carries a session
(Session), passes the write gate (SubscriptionGate) and a permission check
(Membership), and its handler meets the books (Ledger). A plan switch by payment
moves slots and stores (PlanLimits). `PROJECT.json` lists every component and
every hazard at its line.

## 2. Modules

```
Waves ──EXTENDS── DeltaPush ──INSTANCE── MutationLedger ──INSTANCE── OutboundQueue
  └── PushBatch ─────┴── Push_proofs                           └── OutboundQueue_proofs
StoreSync   DeltaPull   Session   Ledger   Attachments        each with <module>_proofs
SubscriptionGate   PlanLimits   Membership  ──EXTENDS──  Account_proofs
```

A module of proofs EXTENDS its module and TLAPS (section 5). Planner and pipeline of the
push share one, Push_proofs. The three models of an
account on the server have theirs in one, so their names begin with `Gate`, `Limits`
and `Members` where they would be the same (`GateInit`, `LimitsInv`, ...).

Every module has an `MC` module with the instance TLC checks. In all of them one
action is the code between two awaits that another actor can tell apart, an open
transaction shows in the actor that runs it until it commits, and a row lock is a
guard of whoever waits for it. An operator under a comment `Mutant` is a plausible
bug, unused by the specification.

**Waves** – pure operators of the planner. A batch is a sequence of
`[id, guuid, parent]`. `Walk` is the parent walk shared by
`findParentCycleMutationIds` and `topoSort`; `ComputeWaves` gives positions a
wave; `Sparse` is a hole in the array of waves, over which the `for` loop throws;
`Dispatch` is what `runMutationWaves` derives from a batch. Recursion is written
as recursive functions and folds, so that proofs may extend the module. **PushBatch**
grows any batch one mutation at a time and states what the plan of a batch promises,
against a reference definition of a parent cycle.

**DeltaPush** – the push pipeline. `call[r]` is what one request keeps in memory
(`now`, gate verdicts, waves, cyclic mutations), `exec[r][m]` the program counter
of one `processOne`: `FindLive/FindExpired/FindNothing`, `RemoveExpired`, the
preflight, `Handler*`, `Claim*`, `Commit`, `Recheck*`, `Record`, `Bump`, `Poll*`.
`RowFree` is the row lock an open transaction holds on an entity, `ClaimFree` the
index entry of the idempotency key. `ServerCrash` drops every call. A worker that
throws 503 (`PollTimesOut`) ends the call but not its other workers (`runBounded`
has no cancellation). `effects` is a history variable. Payloads are gone;
`checkGrace`/`checkSubscription` are one verdict per mutation and call, of the set
`Gates`; a handler that looks at other rows may reject at any time
(`StateGuarded`); what such handlers compute is Ledger's subject.

**MutationLedger** – what the idempotency table promises: a verdict once,
`applied` final with exactly one effect, any other verdict with none and
forgettable. DeltaPush implements it (`RefinesLedger`), and OutboundQueue uses it
as its server, so the two halves meet at a checked interface.

**OutboundQueue** – the phone. `queue[m]` is the row of `mutation_queue`, `local[m]`
which rows of the entity the local table holds (`"temp"` by guuid, `"server"` by
its real id), `cursor` what the sync cursor has passed, `drain[d]` one run of
`drainQueueFully` (a cycle, a background push or a logout flush), `net[c]` a call
under way; one given up by its client goes on (`owner = Nobody`). `account` has the
session and `alone`, which says that no logout has overlapped a cycle so far.

**StoreSync** – when the phone syncs, and for which store. Scheduler `n` is the
`n`-th `SyncScheduler` made, and its number is the generation token of
`isStillOpening`. `first` is its `openStoreOnce`, `job` what holds `running`; both go
on when it is stopped. `status` is the gate; `Wake` is
`handleReconnectOrForeground`. `loose` (history) are the schedulers that were stopped
while at work. The queue is one write per store, a pull is one step: they are the
subjects of OutboundQueue and DeltaPull.

**DeltaPull** – the way back. Writers stamp `modified_at` with the start of their
transaction and show from its commit; `ReadCutoff` is the server's answer to that.
The server's `progress` and the phone's cursor, watermarks, pages and dead letters
are separate. A page stores what it can (`AfterPage`): it passes over rows whose create by
this phone is still `queued` (creates only, the app enqueues nothing else), and a row or
tombstone that fails (any subset of `Faulty`) becomes a dead letter, which
`RetryFailedApplies` writes as it was stored, whatever the tables hold by then, and drops,
or counts as failed once more. `PushApplied` is the answer of the drain that stores a row;
the page that comes with a push is a page of a pull. History variables record what known
gaps (section 4) excuse: `late` (written before the session's anchor, committed
after), `owed` (pages of a dump that were saved as delivered and lost), `revived` (written
by a dead letter that is not what the server last told the phone of the row, `told`) and
`spared` (passed over for a queued create).

**Session** – token pairs are numbered; `PhoneStep` is the interceptor's
single-flight refresh and what it does with each answer; a refresh call claims,
follows or replays (`refresh-idempotency.service.ts`), rotates in a transaction and
publishes after it; `RevokeStep` is a logout or a remote revocation, `GuardStep`
an authenticated request through blacklist, cache and row. Device proof and token
signing are a refusal that may happen.

**SubscriptionGate** – the row with its version, payments captured once or twice,
cancel/reactivate, the cron's select and its batched update with the predicate
repeated, and a request that loads pointer, snapshot or row, fills, and decides.

**PlanLimits** – claims, removals and expiry of slots, store creation, payments
that switch the plan with detection or automatic restore, the owner's resolution
and swap. What reads before it writes is two steps with the account's lock between.

**Ledger** – append-only tables of which only sums are read, so the sums are the
state. One sale has several lines, a share on credit, refunds of parts with
prorated rounding, and settlements; a worker is one transaction with its reading.

**Attachments** – the uploader's drain and `uploadOne`, stage and commit with every
failure path, the objects as a separate store, sweeper, reaper, delete and restore.

**Membership** – one request is a worker: its checks, the statement that takes its
lock, the reading of members to bump, the commit, each invalidation. `perm` and
`snap` are the two caches. `PermReadsRoles` and `PermReadsGrants` are the two reads
of `resolveFromDb`, with other requests between them; a snapshot is built from three.
`left`, `taken`, `late`, `unseen` are history: since when a user is without a role and a role
without a grant, what landed on a deleted role, whose version was not bumped.

## 3. Runs

| Run | Asks | Instance |
|---|---|---|
| `waves` | does the plan respect cycles, parents and edits? | every batch of up to 4 mutations over 2 guuids, no guuid, any parent, repeated ids |
| `push_family` | truth of answers, cascade, poison bound, refinement, an answer for every call | two overlapping copies of `<<child, parent>>` on one worker, all gate verdicts, crashes, rejections |
| `push_edits` | exactly-once, finality, one edit of an entity at a time, the inductive invariant | two edits from one version, a delete and a second create of the same row, expiring conflict rows, two calls of two workers |
| `queue` | is every queued write kept, visible, settled, and settled once? | a good and a 4xx payload, 2 faults; or one sale, 1 fault and logouts with flush, wipe and login |
| `pull` | does the phone end with what the server has, with nothing passed over or risen? | two rows, pages of one, one writer, a lost call or a logout or a change of view or a create of the phone's own, a row whose versions and tombstone may fail to apply |
| `session` | who is let in, who is thrown out, does the phone recover? | two refresh calls, one request, one lost answer, crash or Redis failure |
| `gate` | does the gate follow payments and the cron? | two payments, two windows, lost invalidations, one request |
| `limits` | do the limits hold, is what a downgrade took given back, does the owner stay in? | two stores, two devices, plans of 1x1 and 2x2, two payments |
| `money` | invoice numbers, exact refunds, balanced books, no debt beyond the limit | two sales of 3 pieces for 10 paise, credit 0 or 4, limit 6, one bill, two transactions at once |
| `files` | are bytes, rows and budget kept together, does the original go last? | two photos, two uploads, two temp files, two commits, any one failure |
| `members` | invitations, roles and what the caches say of them | one user, role and grant, two invitations, two requests at once, invalidations lost at will |
| `scheduler` | is the store chosen last the one that syncs, does the gate tell the truth, does a store open and its queue empty? | two stores, two schedulers, two faults (outage, refusal, 429, logout) |

All pass. A run's invariant `Inv` (`GateInv`, `LimitsInv`, `MembersInv`) is the type invariant with the
safety invariants that belong together; each conjunct has its own comment.
Deadlock is checked except in `waves`, whose batch stops growing, and in
`session`, `limits` and `files`, where phone, payments and calls may be used up.

### Bounds and why they are enough

* `waves`: a loop of two, a child and an unrelated mutation is the smallest batch
  with every relation between mutations; the proofs hold for every batch.
* `push_*`: every hazard of the pipeline is pairwise (winner and loser), and the
  proofs remove this bound. `IdempotencyTtl = 2 > ReplayWindow = 1 = ConflictTtl`:
  one tick expires a conflict row and nothing else, the order of 5 min and 45 days.
  `PoisonMax = 1`: below the cap, at it, and overshooting it.
  `EditFocus`: the second create meets one edit, not the delete.
* `queue`: `MaxAttempts = 2`, `MaxBatches = 2`, two `Calls`: an attempt below and at
  the dead-letter cap; the ceiling reached; one abandoned call beside a fresh one.
  `Focus` keeps the product small: a logout meets one sale and one fault; two
  mutations and two faults are for the time before it. States outside `Focus` are
  not explored, so the liveness of a second mutation after a logout is not claimed.
* `pull`: two rows of one entity make two pages and a page boundary inside an
  entity, with one empty entity before it; `Lag = 1`, three ticks: a transaction can
  be younger and older than the lag; one event of each kind at a time. Row 1 may fail
  in every version and as a tombstone: with `PoisonCap = 2` a letter is retried once and
  then given up, with `RetryBatch = 1` not every letter is. `Focus` lets a change of
  view meet one row only: a page boundary under changed permissions is not explored (the
  proofs of `NoGap` and `Inv` have it).
* `session`: `PendingTtl 1 < Grace 2 < DoneTtl 3 = CacheTtl` keeps the order of the
  constants in the code (a claim's life, reuse grace, recovery window, cache).
* `gate`: two windows and two payments give "renewed while the cron moves on" and
  "paid twice"; five versions of the row are more than any run of these needs.
* `limits`: the small plan is exceeded by one more store or device and the large one
  is not; two payments are a downgrade and the upgrade after it. `MaxRows` and
  `MaxExpired` bound rows that are history only.
* `money`: 10 paise over 3 pieces does not divide; the limit lies between one
  credit of 4 and two. `Unraced` stops after the first race of two payments or
  refunds of one sale, which is where the statements end (section 4).
* `files`: budget 1 makes the second photo meet a full record and a record
  after a delete; two tries, one defer: below the cap and at it.
* `members`: with two requests at once every pair of operations overlaps; the
  critical window is 1 tick and the standard one 3, so an entry can be too old for
  one and good for the other. Two invitations let the sweep of one that has lapsed
  meet the answer to it. `Focus`: cached permissions and time go with assignments,
  revocations and changes of the matrix, invitations with everything else (the proofs
  have both at once). Versions go to 2: a reader at the old, a writer of the
  new. `Lapse` of an invitation is a step, not a clock.

* `scheduler`: two schedulers are enough for a slow open to end after another store,
  or the same one, was entered; `MaxRetries = 1` with two faults: a 429 that sets a
  timer and one that gives up. A fault is an outage, a refusal, a 429 or a logout. One
  store is new to the phone and one was synced before, perhaps with a push cut short. Once
  `MaxOpens` is met, a store in `error` cannot be opened again; the liveness excepts that.

### Fairness

* `DeltaPush!FairSpec`: weak fairness of every server step and of `Respond`: the
  event loop runs every promise that is ready and PostgreSQL grants released locks.
  Nothing is fair about arrivals, crashes of handlers, or time.
* `OutboundQueue!FairSpec`: weak fairness of each drain's steps, of the server and
  of the wipe (bounded by `FLUSH_TIMEOUT_MS`). Opening the store is strongly fair:
  the heartbeat is dropped while a background push holds `running`, but background
  pushes come from app-state changes and cannot meet every tick for ever. Faults
  are finite: no promise is made to a phone that stays offline.
* `StoreSync!FairSpec`: weak fairness of every call, of the binding effect, of the
  timer of a retry, of the network's return, and of the Retry button (an open that
  failed with the network up is retried by nothing else until the app is backgrounded
  and comes back); strong fairness of the heartbeat, which is dropped while a job runs.
* `DeltaPull!FairSpec`: weak fairness of the phone's cycle, of time, of the
  permission refresh, and of open transactions ending.
* `Session!FairSpec`: weak fairness of the phone, each call, guard and the revoker;
  time passes infinitely often whatever requests run (strong fairness of `Tick`,
  which waits for short requests).

## 4. Where code and comments disagree

The properties are worded around these.

*Push and queue.*
* `delta.service.ts:189` against 168-169: taking a cyclic mutation out can uncover
  another of the same guuid that closes a loop of its own; a child then precedes its
  parent, or the array of waves has a hole (`SameLookup` excuses it).
* `delta.service.ts:526` against 522-525: only `DUPLICATE_ENTRY` is rechecked against
  a race winner; a loser refused by another rule is told `rejected` for an applied
  mutation.
* `drain-queue.ts:89` against `reconcile-mutation-result.ts:9`: the duplicate of a
  *refused* mutation is confirmed; and against 75-78: the temp row stays and the
  pulled row lands beside it.
* `drain-queue.ts:101` against `delta.service.ts:558-571`: a crash is answered
  "safe to retry", and the client never retries a `rejected`.
* `AuthProvider.tsx:327` against 324-325 and `local-reset.ts:103-104`: `stopSync`
  does not stop a running cycle, and the flush timeout not the flush; both can write
  after the wipe (`alone`).

*Scheduler.*
* `sync-scheduler.ts:75-79`: `start` sets the heartbeat after its open without looking
  whether `stop` came meanwhile: a store left in that moment, by a logout too, keeps a
  heartbeat for ever, and a cycle that meets a 429 after `stop` sets a retry timer;
  against `AuthProvider.tsx:324-325` ("neither a periodic tick nor the flush below
  races the wipe"). `OneCallEach` excepts schedulers stopped at work (`loose`).
* `sync-engine.ts:36-39` says that `resetOrphanedInflight` "runs inside the scheduler's
  exclusive guard": `openStoreOnce` does not take it, and a store entered again can
  have the push of its old scheduler in flight. The write is sent twice; the
  idempotency ledger absorbs it on the server. On the phone it does not end there:
  `markInflight` (`mutation-queue.repository.ts:82-88`) updates by id whatever the
  status has become, so a second cycle takes back a result the first has settled, and
  the row of a refused write comes back to the queue after its temp row was removed.
  With two `Cycles` in OutboundQueue TLC refutes `WritesStayVisible` and
  `SettledStaysSettled`; `SettledIsDecided` survives. The theorems name the
  hypothesis (`OneCycle`).
* `scheduler-instance.ts:159-167`: a reconnect that arrives while an open is still
  failing finds it `opening` and is lost: the store stays in `error` until the user
  retries.

*Pull.*
* `initial-sync.service.ts:180` against 34-36: the first cursor is anchored at the
  session's start without the lag; writes of older transactions are passed over (`late`).
* progress is saved before a page arrives, so a lost last page counts as delivered,
  and a second cold start after a logout meets progress `completed` and gets a cursor
  and no rows (line 79; `owed`). A rebase after a grant dumps nothing again.
* `permission-rebase.ts:54-55` against 20-27 ("a revoked `view` grant must actively
  purge the matching table or the data stays fully readable on-device
  indefinitely"): without a stored version there is no purge. The version is stored
  after the cold start in a transaction of its own; an app killed in between, an
  entity revoked meanwhile, and the next open stamps the new permissions over rows
  that nothing removes: their tombstones are dropped as out of view
  (`changes.service.ts:124-127`). The same is left by a grant that comes and goes
  while one store session lasts, since the version stamped is that of the opening
  and pages are served under newer ones. Looking for an invariant for the proof
  turned this up: with `MaxEvents = 2` TLC refutes `NoResurrection` without its
  `EntityOf[r] \in granted.view`.
* `failed-applies.repository.ts:42-43` wants of a dead letter that "a newer server version
  of the same row is what we want to retry, not the stale first one". It is refreshed only
  when the newer version fails as well: a page that stores or deletes the row leaves its
  dead letter alone (`apply-with-isolation.ts:17-45`), and the retry that succeeds later
  upserts the old payload without comparing versions (`retry-failed-applies.ts:54-68`,
  `synced-table.repository.ts:73-87`). The old version is then written over
  the newer one, behind the watermark, or a deleted row comes back, also after the purge
  of its entity, which leaves the letters (TLC refutes that a retry only drops letters of
  the version last `told`). Nothing corrects such a row until the server touches it again. `NoGap`, `NoResurrection` and `Converges` except it by
  name (`revived`), and it only.
* `apply-changes.ts:53-56` says of a row that is passed over for a pending mutation that
  "the skipped value isn't lost": the push brings it. A push answered `duplicate` (its first
  answer was lost) stores nothing (`drain-queue.ts:89-91`), nor does one given up, and the watermark has passed
  the row (`spared`).

*Session.* `session-cache-invalidator.service.ts:107-113`: the invalidation is DEL
and SETEX in two commands, and `auth-logout.service.ts:112-119` reads before its
transaction: a fill in the gap resurrects the row (`torn`) until its time to live.

*Subscription and limits.*
* `subscription-cache.ts:5` says no delete-against-write race: a fill can follow the
  DEL of its own version's key; it heals by its time to live (`GateCatchesUp`).
* `isOverLimit` counts only active stores (`downgrade-detection.service.ts:60`), so an
  automatic restore can exceed the limits against `reconciliation.service.ts:252-255`.
* store creation takes an advisory lock (`store.repository.ts:73`) and not
  `lockAccount`, contrary to `downgrade-detection.service.ts:33-39`.
* a swap counts expired rows that `restoreSlot` does not restore; `restoreSlot` brings
  back the latest revoked row whatever its reason; an old `plan_downgrade` row can
  bring back a device removed later.

*Money.* Refund caps are read without a lock (`refund.handler.ts:109` against 35-37), so
overlapping refunds or payments of one sale exceed them (`raced`); a refund after a
settlement makes the outstanding sum negative; a line of total zero violates
`ck_refund_lines_amount_positive`; supplier payments lock bills in payload order.
`payment-account.handler.ts:128` clears the old default account after writing the
new one, under a unique index that is not deferrable (`schema.ts:1297`): setting a
new default while there is one always fails, against the comment at 75-79.

*Files.* A commit retried after a lost answer gets `TEMP_FILE_NOT_FOUND` and the photo
ends `failed` although the file is live (against `files.service.ts:578-583`); rows
killed at `staged` are not picked up again; an uploader that was stopped at work can put
a photo the new one gave up as `failed` back to `staged`; a photo of a draft older than 60 defers is
lost; a file of a deleted record can be restored after its bytes were reaped.

*Staff.*
* `invitation.service.ts:62-63` says that accepting "adds account membership + the role
  assignment atomically" and `role.repository.ts:235` that a conflict "just means
  'already assigned'". `user_role_mappings_uq` (`schema.ts:352`) also covers revoked rows,
  and nothing clears `revoked_at`: a user whose assignment was revoked accepts a new
  invitation, the invitation is used up, and he has no role (the exception in
  `DecidedOnce`). `assignRole` answers him 409 for ever.
* the bump reads members after the revoke, so the revoked user's own
  `permissions_version` stays (`role-assignment.service.ts:138-173`), and a user who
  joins while a matrix is replaced can miss its bump (`unseen`).
* `assignRole`, `accept` and `create` take no lock on the role, against
  `role.repository.ts:130-136`: what starts after the delete lands on a deleted role
  (`late`); `casUpdateRowVersion` does not ask for `deleted_at`.
* `resolveFromDb` reads the roles of the user (`rbac.service.ts:127`) and then what these
  roles give (144-147), not in a transaction and without looking at the assignment again. If
  he loses the role in between, and the role is then given another grant, that grant is
  cached for him for the standard 300 s though he never had it; `GrantsCatchUp` therefore
  speaks of the role and of the grant, each for itself, and not of the two together.
* `resolvedAt` is the time of the fill, not of the reading: the critical window can
  be longer by the time a reading takes (the `+ 1` in `GrantsCatchUp`).

## 5. Proofs

Every theorem holds for all values of the constants that satisfy the named `ASSUME` of
its module: any number of rows, actors, calls and versions, any time to live. The
assumptions give constants their types, say which sets are finite, and add what the
code fixes: `ReplayWindow < IdempotencyTtl` (the 45-day rule of `sync.constants.ts`),
`CriticalTtl <= StandardTtl`, amounts above zero, `Credits \subseteq 0 .. Total`. In
each module the inductive invariant is `IInv` (`Inductive` in DeltaPush; `GateIInv`,
`LimitsIInv` and `MembersIInv` in Account_proofs), the theorem `Invariant`
(`InductiveHolds`, `GateInvariant`, ...) says `Spec => []IInv`, and there is one lemma
per kind of step. TLC was run on each `IInv`, on the instance of the run, while it was
being found.

| Module | Properties of the runs that are proved | What the invariant adds, and why |
|---|---|---|
| PushBatch | `CyclesExactly`, `ParentsInEarlierWave`, `EntityEditsInOrder` | what each loop of the planner has done after k mutations (below) |
| DeltaPush | `Inductive` (with `ConflictIsForever`), `AppliedIffEffect`, `AppliedAnswerIsTrue`, `AppliedIsFinal`, `RefinesLedger`, `ChildAfterParent`, `OneEditAtATime`, `PoisonBounded` | locks have one holder, expiry meets conflicts only (below) |
| OutboundQueue | `Inv`; `WritesStayVisible`, `SettledStaysSettled` under `OneCycle` | answers on their way are true and about their own batch |
| Ledger | `Inv`, `ReturnsAreExact`, `BooksAgree`, `DebtInHand` | documents and readings of open transactions, the counter's lock |
| SubscriptionGate | `GateInv`, `GateCatchesUp` | how old an open snapshot can be, in cache and in flight |
| PlanLimits | `LimitsInv`, `LimitsHold`, `OwnerStaysIn` | what an owner's reading still means when it is applied |
| Attachments | `Inv`, `LiveHasBytes`, `ClaimProtects`, `OriginalGoesLast` | who may touch a temp file, what a commit has counted |
| Membership | `MembersInv`, `GrantsCatchUp`, `DecidedOnce` | what each request has read, against what has changed since |
| DeltaPull | `Inv`, `NoGap` | what is in the page on its way, and what has changed since it was read |
| Session | `Inv`, `HonestKeepsSession` | how long a done record outlives the use of its token, what a stale fill meets |
| StoreSync | `Inv` | which schedulers are held, which may still act |

**Waves.** What the planner computes is proved for every batch of any length, over any
entities, with any parents and repeats. `Walk`, the two `FoldLeft` loops, the filter and
the recursion of `ComputeWaves` are each shown to be the last of a chain of steps
(`IsIteration`, `IsFold`, `IsWaves`); that the chain exists, and that what every step keeps
the last one has, goes by the least number at which it fails (`MinOf`, `NatInd`), since
induction theorems with an operator parameter cannot be used. `WalkInv`: after n steps the path
has n different mutations, each the parent of the one before, or the walk has ended; a list
without repetition is no longer than the batch (`NoLonger`), so the walk of `Len(b)`
steps has always ended. `CycleInv`: of what is settled, exactly what lies on a cycle
(`OnParentCycle`) is in `inCycle`, and settled is closed under parents; a loop a walk
meets is the tail of its own path (`PathCycles`), hence no child of a loop is refused.
`SortInv`: what is out is out once, after its parent unless the walk met a loop, and in the
client's order within an entity. `WaveFacts` reads off a wave what it must exceed, and
that it is the smallest such number, so no wave is empty. `SameLookup` is needed: without
it the two uses of `byGuuid` may differ (section 4).

**DeltaPush.** `AppliedIffEffect` is not inductive alone. `Commit` needs to know that the
key is still unclaimed and the row still as the handler saw it: `Reliable` and
`Exclusive` (the two locks have one holder). `RemoveExpired` deletes by key after
an await, whatever the row has become. This is safe only because a row that can
expire while its mutation is in the pipeline is a conflict (`WithinWindow`: a
client never sends beyond the replay window and a verdict is no older than the
queueing), and a recorded conflict can never become a write, since the row version
it expected is gone (`Outdated`, `ConflictIsForever`). So the argument chains the
client's refusal to resend, the TTL and the optimistic lock. `PipelineImplementsLedger`
reads the refinement off the same lemmas. `ParentsComeFirst` and `EditsRunAlone` join the
planner to the pipeline. `Planned` carries what `Dispatch` has promised about the batch
into the call: whatever runs has a wave, edits of one entity have different ones, and the
first edit of a parent, the one `byGuuid` finds, has an earlier one than the child.
`Family`: once a mutation has started the earlier waves have ended, and past its
preflight its parent is not among the failed guuids. The assumption
`NoMutation \notin ...` says that `undefined`, what `byGuuid.get` returns for an unknown
guuid, is no mutation.
`PoisonIsBounded` adds `Bounded`: the failures counted so far and the calls in a handler are
together at most the cap, less one, plus the calls; so the check-then-act on the
counter overshoots by the calls that had passed the check and by nothing else.

**OutboundQueue.** The invariant says of a call that its answers are what the server
has decided, about mutations of its batch, and that a drain listens to one call only:
so nothing reads the late answer of an abandoned call. That gives `SettledIsDecided`
for any number of overlapping cycles and flushes. The two others need `Calm`: before
the first logout a lone cycle finds the rows of its batch as it left them (`BatchOK`).
`OneCycle` is the scheduler's `running` guard; section 4 says where it is not kept.

**Ledger.** `LockOK` and `TxOK`: whoever sells holds the store's lock and the next
number, and what is refunded or settled has been sold. A reading that was out of
date when it was used puts its target into `raced`; for all others `ExactOK` goes
from line to sale: a line that is back in pieces is back in paise, so the sum over the
lines is the total and the credit note its rounded share. The proofs need algebra of
sums over finite sets and of rounding; in place of induction theorems, a smallest set on
which a claim about sums fails is reduced by one element
(`FS_StrictSubsetOrderingWellFounded`).

**SubscriptionGate.** `CacheOK`: for an entry that still lets writes through, its
remaining life and the time since the row began to refuse add up to at most one life.
`RequestOK` says the same of a snapshot a request has loaded, and that it is filled
before time passes; so lost and overtaken invalidations cost one life and no more.

**PlanLimits.** `ApplyOK` and `SwapOK` say what the owner's choice still means when it is
written: what is kept and locked is together what is active, what is left fits, and
the owner's device is in it, though the slots to revoke were read before. `RowsOK` is about
the bound only: a held slot leaves room for the row its end will write.

**Attachments.** `CallOK` says what each stage of a commit has behind it: before the write no
row, from the copy on its object, after it the temp file consumed, and an "ok" only
for a photo that is kept (its own row or the one it collapsed onto). `WriteOK`: one call
at a time is about to insert, and the count it has made is still right. The proof
attempt showed that an uploader stopped at work can raise `tries` of a photo its
successor has given up (section 4); `tries` is therefore not bounded by its cap.

**Membership.** `WriterOK` and `ReaderOK` describe a request by where it stands: the roles
a reader has read, and what it has read of them and not yet put into the cache, have been
gone for a tick at most; a row a writer has inserted is bumped by its commit, and the role version and the
invitation it has claimed wait for it. `Alone` is the two locks.

**StoreSync.** `SchedulerOK`: a scheduler that is neither held nor stopped at work
rests, and the first opening excludes everything else; `BindingOK`: the gate is about
the bound store.

**DeltaPull.** `NoGap` speaks of a watermark and a row; what keeps it is spread over both
sides of the wire. The argument has two halves. On the wire, the invariant says what the
phone has been `told`: a row behind the watermark in its present version, a buried row
that it is gone. On the phone, `KeptOK` says what became of that: it is in the
tables or in the dead letters, unless the row is `revived` or `spared`; pages, failures,
retries and the answers of a push all keep it, so it is an invariant beside `IInv`.
`CutOK` and `MarksOK`: the cutoff of a page in hand and every
watermark stand before every open transaction, so what commits later lands ahead of
them, unless it is older than the dump of its entity (`late`). `NextOK` is `NoGap` for
the cursor the page will leave: what that cursor passes was told or is in the page.
`StaleOK` is the row that is read and changes before the page is stored: its new
version is not before the cutoff, so the pull serves it again, and the page cannot
bring back a row whose tombstone it has not seen. `DumpOK`, `PageOK` and `DumpedOK`
say the same of the cold start, whose progress is kept on both sides: what the server
has gone past was told, is in the page on its way, or will be asked for again. `Passed`,
`DeletesOK`, `OldTombs` and `StampOK` carry the tombstones: an anchor is no later than
any dump, so an older tombstone is of a row the phone was never told of. `PermsOK`: a version names
one view, and no page is served under permissions older than those stamped. Pages are
the first elements of finite sets, and the lemmas about them (`FirstIsClosed`,
`LastIsGreatest`) rest on the well-foundedness of the finite subsets.

**Session.** `RecordOK` ties the rotation to Redis: a used token whose record is not
`missing` has its done record until the recovery window ends. `LeadOK` is about a
leader that will look for reuse: its token is unused, or missing, or out of the window,
or was used less than half the grace before the call began, since otherwise the call
would have met the record. With calls of less than half the grace that leaves no reuse
to find in time. `RevokedOK` and `GuardOK`: a token is closed only after it is
blacklisted or the session revoked; a request that read the session before the
revocation fills the cache while its tombstone stands, or with a revoked row.

Model-checked only: liveness (`EveryCallAnswered`, `EverythingSettles`, `OpensAndPushes`,
`Converges`, `Recovers`), which needs `ENABLED` for its fairness and is out of this
prover's reach.

## 6. What is not modelled, and the plan

Not modelled on purpose: HTTP, validation wording, the permission matrix itself, UI,
generated migrations, seeds, reports and listings; see `PROJECT.json` for each
component's reason. A large part of the code is of this kind, screens and CRUD whose
behaviour is one statement; the models stay with the stateful core. In what is modelled:

* one clock for phone and server (skew is not modelled);
* the phone enqueues creates only, as the app does today, so the update, delete and
  conflict branches of the drain and the conflict resolver are dormant; pulls inside
  OutboundQueue have one page (DeltaPull has the paging); a decision of the server is
  one step there (its interleavings are DeltaPush's);
* DeltaPull: updates and deletes by the phone, the 410 of the sync horizon, a stale
  permission cache, and the `null` cutoff are left out;
* SubscriptionGate: amounts, order expiry and plan choice; PlanLimits: staff and
  product limits; Ledger: several allocations per request, cash movements, opening
  balances, and payment accounts; Attachments: ambiguous commits, leaked objects of
  failed best-effort deletes, `cancelStaged`, thumbnails;
* StoreSync: the rebase of `openStore` (DeltaPull has it), the manual sync icon (a
  wake), and the uploader (Attachments);
* Membership: creation of a role, `expires_at` of assignments, special actions, the
  escalation guard (a refusal), the cache of store ids (same pattern as `perm`), the
  phone's copy of the snapshot.

Planned:

1. Login and OTP: attempt counters and challenges.
