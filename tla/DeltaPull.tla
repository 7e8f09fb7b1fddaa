----------------------------- MODULE DeltaPull -----------------------------
(***************************************************************************)
(* How rows come back to a phone: the cold start (GET /sync/initial), the  *)
(* delta pull (GET /sync/changes) with its read cutoff, per-entity and     *)
(* tombstone watermarks, and on the phone the openStore rebase, the apply  *)
(* of a page and the dead-letter queue of rows that cannot be applied,     *)
(* which are applied again, one by one, when a pull has ended.             *)
(* Writers are other transactions of the backend: modified_at and          *)
(* deleted_at are stamped with the START of the transaction, and the write *)
(* is visible from its commit.                                             *)
(*                                                                         *)
(* Entities are numbered in dependencyOrder.  A row is its id, and a row   *)
(* of the phone is the version (row_version) of the server's row it holds; *)
(* the temp row of a create that is still queued is OutboundQueue's.  The  *)
(* phone makes one call at a time (the scheduler's guard).                 *)
(***************************************************************************)
EXTENDS Integers, FiniteSets

CONSTANTS
    Entities,     \* synced entity types, in dependencyOrder
    Rows,         \* ids of rows
    EntityOf,     \* the entity type of a row
    Initial,      \* rows that exist before the phone first opens the store
    Writers,      \* bound: transactions open at once
    Faulty,       \* <<row, version>> that may fail to apply; version 0: its tombstone
    PageSize,     \* INITIAL_PAGE_SIZE, DELTA_PAGE_SIZE, the per-entity limit
    Lag,          \* READ_SAFETY_LAG_MS
    PoisonCap,    \* RETRY_POISON_CAP
    RetryBatch,   \* RETRY_BATCH_SIZE
    MaxVersion,   \* bound: versions of a row
    MaxClock,     \* bound: time
    Kinds,        \* what may happen to the phone: "lost", "logout", "view", "own"
    MaxEvents,    \* bound: lost calls, logouts, permission changes, own creates
    NoCursor      \* no delta cursor stored

\* Keyset positions (timestamp, id); cursors, with a watermark for every entity
\* and one for the tombstones.
Pos == Int \X (Rows \cup {0})
Cursors == [e : [Entities -> Pos], t : Pos]

ASSUME PullAssumption ==
    /\ Entities \subseteq Nat \ {0} /\ Entities # {} /\ IsFiniteSet(Entities)
    /\ Rows \subseteq Nat \ {0} /\ IsFiniteSet(Rows) /\ Initial \subseteq Rows
    /\ EntityOf \in [Rows -> Entities]
    /\ PageSize \in Nat \ {0} /\ Lag \in Nat \ {0} /\ PoisonCap \in Nat \ {0}
    /\ RetryBatch \in Nat \ {0}
    /\ MaxVersion \in Nat \ {0} /\ MaxClock \in Nat \ {0} /\ MaxEvents \in Nat
    /\ NoCursor \notin Cursors

VARIABLES
    clock,     \* time of the database
    row,       \* the synced tables: [mod, version, alive]; version 0: no such row
    tomb,      \* sync_tombstones: deleted_at, 0 when there is none
    txn,       \* per writer: start of its open transaction, 0 when none
    granted,   \* permissions: [version, view]
    progress,  \* sync_init_progress of the server: [phase, cursor, started]
    local,     \* the phone's tables: version held, 0 when absent
    dlq,       \* failed_applies: [version, attempts], 0 attempts when absent;
               \* version 0 is operation 'delete'
    queued,    \* rows whose create by this phone is queued and not yet resolved
    lprog,     \* sync_init_progress of the phone: [phase, cursor]
    cursor,    \* sync_cursors: [e, t], or NoCursor
    meta,      \* sync_store_meta: the permissions last synced under
    snapshot,  \* the permissions the app last heard of
    phone,     \* the cycle in progress and what it holds in memory
    told,      \* history: the version of a row the server last told the phone of
    revived,   \* history: rows written by a dead letter older than that
    spared,    \* history: rows a page passed over for the sake of a queued create
    owed,      \* history: entities whose dump the phone has missed or discarded
    late,      \* history: rows written by a transaction older than their dump
    events

server == <<clock, row, tomb, txn, granted, progress>>
history == <<told, revived, spared>>
device == <<local, dlq, queued, lprog, cursor, meta, history>>
vars == <<server, device, snapshot, phone, owed, late, events>>

Versions == 0 .. MaxVersion
Times == 0 .. MaxClock
Phases == {"none", "in_progress", "completed"}
Steps == {"idle", "cold", "coldpage", "stamp", "push", "pull", "read", "page", "retry"}

\* The order of a keyset.
Before(p, q) == p[1] < q[1] \/ (p[1] = q[1] /\ p[2] < q[2])
UpTo(p, q) == p = q \/ Before(p, q)

Of(e) == {r \in Rows : EntityOf[r] = e}
At(r) == <<row[r].mod, r>>
Grave(r) == <<tomb[r], r>>

NoLetter == [version |-> 0, attempts |-> 0]
NoMeta == [version |-> 0, view |-> {}]
Idle == [pc |-> "idle", entity |-> 0, rows |-> {}, more |-> FALSE, last |-> 0,
         next |-> NoCursor, cut |-> 0, view |-> {}, todo |-> {}, deletes |-> {}, seen |-> NoMeta]

TypeOK ==
    /\ clock \in 1 .. MaxClock /\ events \in 0 .. MaxEvents
    /\ row \in [Rows -> [mod : Times, version : Versions, alive : BOOLEAN]]
    /\ tomb \in [Rows -> Times] /\ txn \in [Writers -> Times]
    /\ granted.version \in Nat /\ granted.view \subseteq Entities
    /\ progress \in [Entities -> [phase : Phases, cursor : Rows \cup {0}, started : Times]]
    /\ lprog \in [Entities -> [phase : Phases, cursor : Rows \cup {0}]]
    /\ local \in [Rows -> Versions]
    /\ dlq \in [Rows -> [version : Versions, attempts : Nat]] /\ queued \subseteq Rows
    /\ told \in [Rows -> Versions] /\ revived \subseteq Rows /\ spared \subseteq Rows
    /\ cursor \in Cursors \cup {NoCursor}
    /\ phone.pc \in Steps /\ phone.view \subseteq Entities /\ phone.deletes \subseteq Rows
    /\ owed \subseteq Entities /\ late \subseteq Rows

Fresh == [version |-> 1, view |-> Entities]

Init ==
    /\ clock = 1
    /\ row = [r \in Rows |-> IF r \in Initial THEN [mod |-> 0, version |-> 1, alive |-> TRUE]
                             ELSE [mod |-> 0, version |-> 0, alive |-> FALSE]]
    /\ tomb = [r \in Rows |-> 0] /\ txn = [w \in Writers |-> 0]
    /\ granted = Fresh /\ snapshot = Fresh /\ meta = NoMeta
    /\ progress = [e \in Entities |-> [phase |-> "none", cursor |-> 0, started |-> 0]]
    /\ lprog = [e \in Entities |-> [phase |-> "none", cursor |-> 0]]
    /\ local = [r \in Rows |-> 0] /\ dlq = [r \in Rows |-> NoLetter] /\ queued = {}
    /\ told = [r \in Rows |-> 0] /\ revived = {} /\ spared = {}
    /\ cursor = NoCursor /\ phone = Idle
    /\ owed = {} /\ late = {} /\ events = 0

Event(kind) == kind \in Kinds /\ events < MaxEvents /\ events' = events + 1
-----------------------------------------------------------------------------
\* Backend transactions.
Begin(w) ==
    /\ txn[w] = 0
    /\ txn' = [txn EXCEPT ![w] = clock]
    /\ UNCHANGED <<clock, row, tomb, granted, progress, device, snapshot, phone, owed, late, events>>

Oldest(times) == CHOOSE t \in times : \A u \in times : t <= u
Started == {progress[e].started : e \in {f \in Entities : progress[f].phase # "none"}}

\* The dump of its entity has gone past row r.
Dumped(r) == LET p == progress[EntityOf[r]] IN p.phase = "completed" \/ p.cursor >= r

\* A write of r stamped s comes too late for the dump and too early for the
\* anchor the delta pull starts from.
TooLate(r, s) == Dumped(r) /\ s < progress[EntityOf[r]].started
TooLateToDelete(r, s) == Dumped(r) /\ s < Oldest(Started)

Writes(w, r, alive, isLate) ==
    /\ txn[w] # 0 /\ row[r].version < MaxVersion
    /\ row' = [row EXCEPT ![r] = [mod |-> txn[w], version |-> row[r].version + 1, alive |-> alive]]
    /\ txn' = [txn EXCEPT ![w] = 0]
    /\ late' = IF isLate THEN late \cup {r} ELSE late \ {r}
    /\ UNCHANGED <<clock, granted, progress, snapshot, phone, owed, events>>

\* A create or an update commits; sync_touch_row has stamped it.  A create the
\* phone has queued is one of its own pushes, whose answer is lost.
Upsert(w, r) ==
    /\ row[r].version = 0 \/ row[r].alive
    /\ Writes(w, r, TRUE, TooLate(r, txn[w]))
    /\ UNCHANGED <<tomb, device>>

\* A soft delete commits, with its tombstone in the same transaction.
Delete(w, r) ==
    /\ row[r].alive
    /\ Writes(w, r, FALSE, TooLateToDelete(r, txn[w]))
    /\ tomb' = [tomb EXCEPT ![r] = txn[w]]
    /\ UNCHANGED device

\* The transaction rolls back, or ends without touching a synced row.
Rollback(w) ==
    /\ txn[w] # 0
    /\ txn' = [txn EXCEPT ![w] = 0]
    /\ UNCHANGED <<clock, row, tomb, granted, progress, device, snapshot, phone, owed, late, events>>

Tick ==
    /\ clock < MaxClock
    /\ clock' = clock + 1
    /\ UNCHANGED <<row, tomb, txn, granted, progress, device, snapshot, phone, owed, late, events>>

\* An owner changes the role: every change raises permissions_version.
ChangeView(e) ==
    /\ Event("view")
    /\ granted' = [version |-> granted.version + 1,
                   view |-> IF e \in granted.view THEN granted.view \ {e} ELSE granted.view \cup {e}]
    /\ UNCHANGED <<clock, row, tomb, txn, progress, device, snapshot, phone, owed, late>>

\* The app hears of it (snapshot refresh).
RefreshSnapshot ==
    /\ snapshot # granted
    /\ snapshot' = granted
    /\ UNCHANGED <<server, device, phone, owed, late, events>>
-----------------------------------------------------------------------------
\* The first PageSize elements of C by id, and by an injective position.
FirstById(C) == {r \in C : Cardinality({q \in C : q < r}) < PageSize}
First(C, pos) == {r \in C : Cardinality({q \in C : Before(pos[q], pos[r])}) < PageSize}
Last(C, pos) == CHOOSE r \in C : \A q \in C : UpTo(pos[q], pos[r])
LastId(C) == CHOOSE r \in C : \A q \in C : q <= r

\* rebaseOnPermissionGrant: a newer version of the permissions than the cursor
\* was synced under; rows the user may no longer see are purged.
Rebase == cursor # NoCursor /\ meta.version # 0 /\ snapshot.version > meta.version
Revoked == IF Rebase THEN meta.view \ snapshot.view ELSE {}

\* openStore: rebaseOnPermissionGrant purges what was revoked, forgets the
\* progress and the cursor; without a cursor the cold start follows.
Purged(table) == [r \in Rows |-> IF EntityOf[r] \in Revoked THEN 0 ELSE table[r]]
Open ==
    /\ phone.pc = "idle"
    /\ local' = Purged(local) /\ told' = Purged(told)
    /\ revived' = {r \in revived : EntityOf[r] \notin Revoked}
    /\ spared' = {r \in spared : EntityOf[r] \notin Revoked}
    /\ lprog' = IF Rebase THEN [e \in Entities |-> [phase |-> "none", cursor |-> 0]] ELSE lprog
    /\ cursor' = IF Rebase THEN NoCursor ELSE cursor
    /\ phone' = [Idle EXCEPT !.pc = IF cursor' = NoCursor THEN "cold" ELSE "stamp",
                             !.seen = snapshot]
    /\ owed' = owed \cup Revoked
    /\ UNCHANGED <<server, dlq, queued, meta, snapshot, late, events>>

\* The entity an initial call is about: the one the phone is in the middle of,
\* else the first the server does not hold completed; none when all are.
Resumed == {e \in Entities : lprog[e].phase = "in_progress"}
Lowest(S) == IF S = {} THEN {} ELSE {CHOOSE e \in S : \A f \in S : e <= f}
Wanted == IF Resumed # {} THEN Resumed
          ELSE Lowest({e \in Entities : progress[e].phase # "completed"})

\* buildDeltaCursor: every entity at its own session start, tombstones at the
\* oldest of them.
Anchors(p) == [e |-> [e \in Entities |-> <<p[e].started, 0>>],
               t |-> <<Oldest({p[e].started : e \in Entities}), 0>>]

\* Everything is complete already: a cursor and no rows.
InitialComplete ==
    /\ phone.pc = "cold" /\ Wanted = {}
    /\ phone' = [phone EXCEPT !.pc = "coldpage", !.entity = 0, !.rows = {},
                              !.next = Anchors(progress)]
    /\ UNCHANGED <<server, device, snapshot, owed, late, events>>

\* progress.ensure: a new row anchors its own session.
StartOf(e) == IF progress[e].phase = "none" THEN clock ELSE progress[e].started

\* GET /sync/initial: progress is saved before the response leaves.
InitialPage(e) ==
    LET after == IF e \in Resumed THEN lprog[e].cursor ELSE progress[e].cursor
        canView == e \in granted.view
        left == IF canView THEN {r \in Of(e) : row[r].alive /\ r > after} ELSE {}
        page == FirstById(left)
        more == page # left
        saved == [progress EXCEPT ![e] =
                    [phase |-> IF more THEN "in_progress" ELSE "completed",
                     cursor |-> IF page = {} THEN after ELSE LastId(page),
                     started |-> StartOf(e)]]
        all == \A f \in Entities : saved[f].phase = "completed"
    IN  /\ phone.pc = "cold" /\ e \in Wanted
        /\ progress' = saved
        /\ phone' = [phone EXCEPT !.pc = "coldpage", !.entity = e, !.more = more,
                        !.rows = {<<r, row[r].version>> : r \in page},
                        !.last = IF page = {} THEN 0 ELSE LastId(page),
                        !.next = IF all THEN Anchors(saved) ELSE NoCursor]
        /\ owed' = IF canView THEN owed ELSE owed \cup {e}
        /\ UNCHANGED <<clock, row, tomb, txn, granted, device, snapshot, late, events>>

\* upsertWithIsolation, deleteWithIsolation: a row that cannot be stored, or
\* removed, goes to the dead letters; the others and the page go on.
VersionIn(page, r) == CHOOSE v \in Versions : <<r, v>> \in page
In(page, r) == \E v \in Versions : <<r, v>> \in page
RowsIn(page) == {r \in Rows : In(page, r)}

Stored(table, page, bad) ==
    [r \in Rows |-> IF In(page, r) /\ <<r, VersionIn(page, r)>> \notin bad
                    THEN VersionIn(page, r) ELSE table[r]]

\* record: one dead letter per row, with the latest failing payload.
Failed(letters, page, bad) ==
    [r \in Rows |-> IF In(page, r) /\ <<r, VersionIn(page, r)>> \in bad
                    THEN [version |-> VersionIn(page, r), attempts |-> letters[r].attempts + 1]
                    ELSE letters[r]]

\* The progress row the page leaves behind.
ProgressAfterPage ==
    IF phone.entity = 0 THEN lprog
    ELSE [lprog EXCEPT ![phone.entity] =
            [phase |-> IF phone.more THEN "in_progress" ELSE "completed", cursor |-> phone.last]]

\* runColdStartStep: rows, progress and the final cursor in one transaction.
ApplyInitial ==
    /\ phone.pc = "coldpage"
    /\ \E bad \in SUBSET (Faulty \cap phone.rows) :
        local' = Stored(local, phone.rows, bad) /\ dlq' = Failed(dlq, phone.rows, bad)
    /\ told' = Stored(told, phone.rows, {})
    /\ revived' = revived \ RowsIn(phone.rows) /\ spared' = spared \ RowsIn(phone.rows)
    /\ lprog' = ProgressAfterPage
    /\ cursor' = IF phone.next = NoCursor THEN cursor ELSE phone.next
    /\ phone' = [Idle EXCEPT !.pc = IF phone.next = NoCursor THEN "cold" ELSE "stamp",
                             !.seen = phone.seen]
    /\ UNCHANGED <<server, queued, meta, snapshot, owed, late, events>>

\* setPermissionsVersion, with the snapshot read when the store was opened.  The
\* drain follows, if there is anything to drain.
Stamp ==
    /\ phone.pc = "stamp"
    /\ meta' = phone.seen
    /\ phone' = [Idle EXCEPT !.pc = IF queued = {} THEN "pull" ELSE "push"]
    /\ UNCHANGED <<server, local, dlq, queued, lprog, cursor, history, snapshot, owed, late, events>>
-----------------------------------------------------------------------------
\* The user makes a new row on an opened store.  No page can hold it before it is
\* pushed, so a create in the middle of a cycle is one made after it.
Enqueue(r) ==
    /\ phone.pc = "idle" /\ cursor # NoCursor
    /\ row[r].version = 0 /\ r \notin queued /\ Event("own")
    /\ queued' = queued \cup {r}
    /\ UNCHANGED <<server, local, dlq, lprog, cursor, meta, history, snapshot, phone, owed, late>>

\* A push of the drain commits a create and its answer arrives: the row as the
\* create has left it takes the place of the temp row (commit-applied).
PushApplied(w, r) ==
    /\ phone.pc = "push" /\ r \in queued /\ row[r].version = 0
    /\ Writes(w, r, TRUE, TooLate(r, txn[w]))
    /\ local' = [local EXCEPT ![r] = 1] /\ told' = [told EXCEPT ![r] = 1]
    /\ queued' = queued \ {r}
    /\ UNCHANGED <<tomb, dlq, lprog, cursor, meta, revived, spared>>

\* The other answers of the drain, which store nothing: duplicate, rejected (the
\* server has no row), or a mutation given up.  What is over the limit of a drain, or
\* answered retry_later, stays queued.
DrainEnds ==
    /\ phone.pc = "push"
    /\ queued' \in SUBSET queued
    /\ phone' = [Idle EXCEPT !.pc = "pull"]
    /\ UNCHANGED <<server, local, dlq, lprog, cursor, meta, history, snapshot, owed, late, events>>
-----------------------------------------------------------------------------
\* computeReadCutoff: older than the lag and than every open transaction.
ReadCutoff == Oldest({clock - Lag} \cup {txn[w] : w \in {v \in Writers : txn[v] # 0}})

\* SyncChangesService.pull: permissions, then the cutoff, then the reads.
Changes ==
    /\ phone.pc = "pull"
    /\ phone' = [phone EXCEPT !.pc = "read", !.cut = ReadCutoff, !.view = granted.view,
                    !.todo = granted.view, !.rows = {}, !.more = FALSE, !.next = cursor]
    /\ UNCHANGED <<server, device, snapshot, owed, late, events>>

\* Mutant: the watermark is not carried into the new cursor.
WatermarkStuck(e, page) == phone.next.e[e]

\* The no-gap advance: to the last row returned, or nowhere.
Watermark(e, page) == IF page = {} THEN phone.next.e[e]
                      ELSE At(Last(page, [r \in page |-> At(r)]))

\* Mutant: no cutoff on the rows of an entity.
PendingNoCutoff(e) == {r \in Of(e) : row[r].alive /\ Before(cursor.e[e], At(r))}

\* The rows a pull may serve: behind the watermark and under the cutoff.
Pending(e) == {r \in Of(e) : row[r].alive /\ Before(cursor.e[e], At(r)) /\ row[r].mod < phone.cut}

\* pullChanges of one entity, in (modified_at, id) order.
ReadEntity(e) ==
    LET found == Pending(e)
        page == First(found, [r \in Rows |-> At(r)])
    IN  /\ phone.pc = "read" /\ e \in phone.todo
        /\ phone' = [phone EXCEPT !.todo = @ \ {e}, !.more = @ \/ page # found,
                        !.rows = @ \cup {<<r, row[r].version>> : r \in page},
                        !.next = [e |-> [phone.next.e EXCEPT ![e] = Watermark(e, page)], t |-> phone.next.t]]
        /\ UNCHANGED <<server, device, snapshot, owed, late, events>>

\* Mutant: no cutoff on the tombstone stream.
BuriedNoLag == {r \in Rows : tomb[r] # 0 /\ Before(cursor.t, Grave(r))}

\* The tombstones a pull may serve.
Buried == {r \in Rows : tomb[r] # 0 /\ Before(cursor.t, Grave(r)) /\ tomb[r] < phone.cut}

\* pullSince, then the response: deletes of entities out of view are dropped,
\* the tombstone watermark passes them.
ReadTombstones ==
    LET page == First(Buried, [r \in Rows |-> Grave(r)])
    IN  /\ phone.pc = "read" /\ phone.todo = {}
        /\ phone' = [phone EXCEPT !.pc = "page", !.more = @ \/ page # Buried,
                        !.deletes = {r \in page : EntityOf[r] \in phone.view},
                        !.next = [e |-> phone.next.e,
                                  t |-> IF page = {} THEN phone.next.t
                                        ELSE Grave(Last(page, [r \in page |-> Grave(r)]))]]
        /\ UNCHANGED <<server, device, snapshot, owed, late, events>>

\* The pending-mutation shadow: a page does not touch a row with an unresolved
\* mutation of this phone; a tombstone does.
Taken == {p \in phone.rows : p[1] \notin queued}
Graves == phone.deletes \X {0}

\* A table after a page: upserts, then deletes (BR-SYNC-021).
AfterPage(table, upserts, bad) == Stored(Stored(table, upserts, bad), Graves, bad)

\* applyChangesPage: rows and cursor in one transaction; the drain goes on
\* until has_more is false.
ApplyChanges ==
    /\ phone.pc = "page"
    /\ \E bad \in SUBSET (Faulty \cap (Taken \cup Graves)) :
        /\ local' = AfterPage(local, Taken, bad)
        /\ dlq' = Failed(Failed(dlq, Taken, bad), Graves, bad)
    /\ told' = AfterPage(told, phone.rows, {})
    /\ revived' = revived \ RowsIn(Taken \cup Graves)
    /\ spared' = (spared \cup RowsIn(phone.rows)) \ RowsIn(Taken \cup Graves)
    /\ cursor' = phone.next
    /\ phone' = [Idle EXCEPT !.pc = IF phone.more THEN "pull" ELSE "retry"]
    /\ UNCHANGED <<server, queued, lprog, meta, snapshot, owed, late, events>>

\* listRetryable: dead letters under the poison cap, no more than a batch.
Retryable == {r \in Rows : dlq[r].attempts \in 1 .. PoisonCap - 1}
Batches == {S \in SUBSET Retryable :
                IF Cardinality(Retryable) <= RetryBatch THEN S = Retryable
                ELSE Cardinality(S) = RetryBatch}

\* retryFailedApplies: each dead letter of the batch is applied as it was stored,
\* whatever the table holds by now, and dropped; or it fails again.
RetryFailedApplies ==
    /\ phone.pc = "retry"
    /\ \E batch \in Batches : \E bad \in SUBSET {r \in batch : <<r, dlq[r].version>> \in Faulty} :
        LET done == batch \ bad
        IN  /\ local' = [r \in Rows |-> IF r \in done THEN dlq[r].version ELSE local[r]]
            /\ dlq' = [r \in Rows |->
                    IF r \in done THEN NoLetter
                    ELSE IF r \in bad THEN [dlq[r] EXCEPT !.attempts = @ + 1] ELSE dlq[r]]
            /\ revived' = (revived \ done) \cup {r \in done : dlq[r].version # told[r]}
    /\ phone' = Idle
    /\ UNCHANGED <<server, queued, lprog, cursor, meta, told, spared, snapshot, owed, late, events>>

\* A dump page on its way is lost for good when the phone has no progress row
\* of its entity to ask for it again.
LostDump == IF phone.pc = "coldpage" /\ phone.entity # 0 /\ phone.entity \notin Resumed
            THEN {phone.entity} ELSE {}

\* A call fails or the app is killed: the cycle ends, SQLite stays.
CycleFails ==
    /\ phone.pc # "idle" /\ Event("lost")
    /\ phone' = Idle
    /\ owed' = owed \cup LostDump
    /\ UNCHANGED <<server, device, snapshot, late>>

\* wipeLocalData, and a login on the same device: the server still holds its
\* progress rows.
LogoutAndLogin ==
    /\ phone.pc = "idle" /\ Event("logout")
    /\ local' = [r \in Rows |-> 0] /\ dlq' = [r \in Rows |-> NoLetter] /\ queued' = {}
    /\ told' = [r \in Rows |-> 0] /\ revived' = {} /\ spared' = {}
    /\ lprog' = [e \in Entities |-> [phase |-> "none", cursor |-> 0]]
    /\ cursor' = NoCursor /\ meta' = NoMeta
    /\ snapshot' = granted
    /\ UNCHANGED phone
    /\ owed' = owed \cup {e \in Entities : progress[e].phase # "none"}
    /\ UNCHANGED <<server, late>>

PhoneStep ==
    \/ Open \/ InitialComplete \/ (\E e \in Entities : InitialPage(e) \/ ReadEntity(e))
    \/ ApplyInitial \/ Stamp \/ DrainEnds \/ Changes \/ ReadTombstones \/ ApplyChanges \/ RetryFailedApplies

Next ==
    \/ \E w \in Writers : Begin(w) \/ Rollback(w) \/ (\E r \in Rows : Upsert(w, r) \/ Delete(w, r) \/ PushApplied(w, r))
    \/ (\E r \in Rows : Enqueue(r)) \/ Tick \/ (\E e \in Entities : ChangeView(e)) \/ RefreshSnapshot
    \/ PhoneStep \/ CycleFails \/ LogoutAndLogin

Spec == Init /\ [][Next]_vars

\* The heartbeat starts cycle after cycle, time passes, the app refreshes its
\* snapshot; a backend transaction is ended by its work or its timeout.
FairSpec ==
    /\ Spec /\ WF_vars(PhoneStep) /\ WF_vars(Tick) /\ WF_vars(RefreshSnapshot)
    /\ \A w \in Writers : WF_vars(Rollback(w) \/ \E r \in Rows : Upsert(w, r) \/ Delete(w, r) \/ PushApplied(w, r))
-----------------------------------------------------------------------------
\* What the cold start does not deliver: rows older than the anchor of an
\* entity whose dump was lost, discarded or withheld, and late writes.
Excused(r) == r \in late \/ (EntityOf[r] \in owed /\ row[r].mod < progress[EntityOf[r]].started)

\* The phone holds version v of r (0: no such row), or has it in its dead letters.
Has(r, v) == local[r] = v \/ (dlq[r].attempts # 0 /\ dlq[r].version = v)

\* The no-gap rule (BR-SYNC-005): once the watermark of its entity has passed
\* a committed row, the phone holds that version or has it in the dead
\* letters, whatever was in flight while the pages were read and whatever
\* failed to apply.  Excepted by name are the rows over which an older dead
\* letter was retried, and those passed over for a create that was queued.
NoGap ==
    cursor # NoCursor => \A r \in Rows \ (revived \cup spared) :
        row[r].alive /\ UpTo(At(r), cursor.e[EntityOf[r]]) /\ ~Excused(r) => Has(r, row[r].version)

\* A deleted row is not resurrected: once the tombstone watermark has passed,
\* the phone does not hold the row, or has its removal in the dead letters, if
\* its entity is one the user may view and the permissions are the ones the
\* phone has stamped, unless an older dead letter has brought it back.  (A
\* tombstone out of view is dropped: those rows are for the purge of openStore.)
NoResurrection ==
    cursor # NoCursor /\ meta = granted => \A r \in Rows \ revived :
        tomb[r] # 0 /\ UpTo(Grave(r), cursor.t) /\ r \notin late /\ EntityOf[r] \in granted.view =>
            Has(r, 0)

\* The types, and no deleted row comes back.
Inv == TypeOK /\ NoResurrection

\* The bound on time ends the readable history: what is written later is never
\* older than the lag.
Readable(r) == row[r].alive /\ row[r].mod < MaxClock - Lag

\* Every committed write a user may see reaches the phone or its dead letters,
\* however calls and applies fail, with the exceptions of NoGap; one poison row
\* does not hold up the others.
Converges ==
    \A r \in Rows :
        Readable(r) ~> \/ Has(r, row[r].version) \/ r \in revived \cup spared
                       \/ Excused(r) \/ EntityOf[r] \notin granted.view \/ ~Readable(r)
=============================================================================
