----------------------------- MODULE DeltaPush -----------------------------
(***************************************************************************)
(* The push half of POST /sync/delta (apps/backend/src/sync/push/          *)
(* delta.service.ts): every mutation of a batch through the idempotency    *)
(* look-up, the preflight checks, the business transaction with its        *)
(* savepoint and its same-transaction idempotency claim, and the mapping   *)
(* of each failure to a result.                                            *)
(*                                                                         *)
(* Several calls run at once: a client whose call timed out repeats it     *)
(* while the server still works on the first one, and two devices write    *)
(* the same entity.  One action is the code between two awaits that touch  *)
(* the database.  Transactions are READ COMMITTED: a statement that meets  *)
(* an uncommitted row of another transaction waits for it, and what a      *)
(* transaction wrote is visible to others when it commits.                 *)
(*                                                                         *)
(* `effects' is a history variable: how often the business write of a      *)
(* mutation has committed.  The program has no such counter.               *)
(***************************************************************************)
EXTENDS Waves, Integers

CONSTANTS
    Mutations,        \* mutation_ids of one (user, store)
    Guuids,           \* entities they write
    GuuidOf,          \* the entity each mutation names
    ParentOf,         \* its parent_guuid, or NoGuuid
    ActionOf,         \* "create", "update" or "delete"
    ExpectedOf,       \* expected_row_version of an update
    Malformed,        \* oversized, no handler, or an update without a row version
    StateGuarded,     \* handlers that check other rows: refund caps, FKs, guards
    Requests,         \* calls the server may work on at the same time
    Batches,          \* the batches clients send: sequences of mutation_ids
    Gates,            \* what the write gates may say: of "ok", "deny", "later"
    QueuedAt,         \* when the client queued each mutation
    ReplayWindow,     \* IDEMPOTENCY_TTL_DAYS as drain-queue.ts mirrors it
    IdempotencyTtl,   \* IDEMPOTENCY_TTL_MS
    ConflictTtl,      \* IDEMPOTENCY_CONFLICT_TTL_MS
    PoisonMax,        \* POISON_MUTATION_MAX_FAILURES
    WaveConcurrency,  \* WAVE_CONCURRENCY
    MaxClock,         \* bound: the clock stops here
    InitialRows       \* the row each entity may have before the first call

ASSUME MutationAssumption ==
    /\ NoGuuid \notin Guuids
    /\ NoMutation \notin [id : Mutations, guuid : Guuids, parent : Guuids \cup {NoGuuid}]
    /\ GuuidOf \in [Mutations -> Guuids]
    /\ ParentOf \in [Mutations -> Guuids \cup {NoGuuid}]
    /\ ActionOf \in [Mutations -> {"create", "update", "delete"}]
    /\ ExpectedOf \in [Mutations -> Nat]
    /\ Malformed \subseteq Mutations
    /\ StateGuarded \subseteq Mutations
    /\ QueuedAt \in [Mutations -> Nat]
    /\ Batches \subseteq Seq(Mutations)
    /\ Gates \subseteq {"ok", "deny", "later"}

\* The TTL "must OUTLIVE the longest interval after which a client can still
\* legitimately replay a mutation_id" (sync.constants.ts, S-35).
ASSUME BoundAssumption ==
    /\ ReplayWindow \in Nat /\ IdempotencyTtl \in Nat /\ ConflictTtl \in Nat
    /\ ReplayWindow < IdempotencyTtl
    /\ PoisonMax \in Nat \ {0} /\ WaveConcurrency \in Nat \ {0} /\ MaxClock \in Nat
    /\ IsFiniteSet(Requests)

Row == [version : Nat, alive : BOOLEAN]
ASSUME RowAssumption ==
    /\ InitialRows \in [Guuids -> Row]
    /\ \A g \in Guuids : InitialRows[g].alive => InitialRows[g].version > 0

VARIABLES
    clock,
    idem,      \* sync_mutation_idempotency: [status, at], status "none" = no row
    failures,  \* sync_mutation_failures.failure_count
    rows,      \* the entity tables: version 0 = never created
    effects,   \* history: committed business writes per mutation
    call,      \* per request: [phase, env now, gate per mutation, dispatch plan]
    exec       \* per request and mutation: one processOne invocation

vars == <<clock, idem, failures, rows, effects, call, exec>>

NoRow == [status |-> "none", at |-> 0]
Entering(pc, out) == [pc |-> pc, out |-> out, dup |-> FALSE, at |-> 0]
Absent == Entering("absent", "none")
IdleCall == [phase |-> "idle", now |-> 0, gate |-> [m \in {} |-> "ok"],
             wave |-> [m \in {} |-> 0], cyclic |-> {}]

Steps == {"absent", "wait", "remove", "preflight", "handler", "claim", "commit",
          "recheck", "record", "bump", "poll", "done"}
Outcomes == {"none", "applied", "rejected", "conflict", "uncached", "later", "unavailable"}

TypeOK ==
    /\ clock \in Nat
    /\ idem \in [Mutations -> [status : {"none", "applied", "rejected", "conflict"}, at : Nat]]
    /\ failures \in [Mutations -> Nat]
    /\ rows \in [Guuids -> Row]
    /\ effects \in [Mutations -> Nat]
    /\ DOMAIN call = Requests
    /\ \A r \in Requests :
        /\ DOMAIN call[r] = {"phase", "now", "gate", "wave", "cyclic"}
        /\ call[r].phase \in {"idle", "running", "aborted"} /\ call[r].now \in Nat
    /\ exec \in [Requests -> [Mutations ->
            [pc : Steps, out : Outcomes, dup : BOOLEAN, at : Nat]]]
-----------------------------------------------------------------------------
Init ==
    /\ clock = 0
    /\ idem = [m \in Mutations |-> NoRow]
    /\ failures = [m \in Mutations |-> 0]
    /\ rows = InitialRows
    /\ effects = [m \in Mutations |-> 0]
    /\ call = [r \in Requests |-> IdleCall]
    /\ exec = [r \in Requests |-> [m \in Mutations |-> Absent]]

At(r, m, pc) == exec[r][m].pc = pc

\* processOne of (r, m) moves on to step pc holding outcome out.
Goto(r, m, pc, out) ==
    exec' = [exec EXCEPT ![r][m] = [pc |-> pc, out |-> out, dup |-> FALSE, at |-> exec[r][m].at]]

\* processOne returns: a fresh result, or a `duplicate' replaying a cached one.
Answer(r, m, out, dup) ==
    exec' = [exec EXCEPT ![r][m] = [pc |-> "done", out |-> out, dup |-> dup, at |-> 0]]

\* Mutant: every row lives five minutes.
IsLiveShort(m, now) == now - idem[m].at < ConflictTtl

\* isLive: the TTL is enforced at read time, against the call's own `now'.
IsLive(m, now) ==
    now - idem[m].at < (IF idem[m].status = "conflict" THEN ConflictTtl ELSE IdempotencyTtl)

\* Mutant: only cyclic parents count as failed.
FailedGuuidsCyclic(r, m) == {GuuidOf[c] : c \in call[r].cyclic}

\* What the failed guuids of a call hold when m's wave starts: the entities of
\* cyclic mutations and of every failed mutation of an earlier wave.
FailedGuuids(r, m) ==
    {GuuidOf[c] : c \in call[r].cyclic} \cup
    {GuuidOf[p] : p \in {q \in DOMAIN call[r].wave :
        /\ call[r].wave[q] < call[r].wave[m]
        /\ exec[r][q].out \in {"rejected", "uncached"}
            \/ (exec[r][q].out = "conflict" /\ ~exec[r][q].dup)}}

\* Open business transactions.  One that has changed the entity's row holds
\* its row lock, one that has claimed the mutation_id holds its index entry.
LocksRow(r, m) == exec[r][m].pc \in {"claim", "commit"} /\ exec[r][m].out = "applied"
RowFree(r, m) ==
    \A s \in Requests, n \in Mutations :
        (GuuidOf[n] = GuuidOf[m] /\ <<s, n>> # <<r, m>>) => ~LocksRow(s, n)
ClaimFree(m) == \A s \in Requests : ~At(s, m, "commit")
-----------------------------------------------------------------------------
\* process + loadMutationEnv: the call reads its clock, its permissions and its
\* subscription once.  `gate' stands for what checkGrace and checkSubscription
\* will say: they depend on that snapshot and on the mutation's stamp only.
\* A client sends a mutation within the replay window, and an update quotes a
\* row version the server has issued.
Wire(m) == [id |-> m, guuid |-> GuuidOf[m], parent |-> ParentOf[m]]

Arrive(r, b, gate) ==
    /\ call[r].phase = "idle"
    /\ \A m \in ToSet(b) :
        /\ QueuedAt[m] <= clock /\ clock - QueuedAt[m] <= ReplayWindow
        /\ ActionOf[m] = "update" => ExpectedOf[m] <= rows[GuuidOf[m]].version
    /\ LET plan == Dispatch([i \in DOMAIN b |-> Wire(b[i])])
           run  == {m \in ToSet(b) : Wire(m) \in DOMAIN plan.wave /\ ~plan.throws}
           cyc  == {m \in ToSet(b) : Wire(m) \in plan.cyclic}
       IN  /\ call' = [call EXCEPT ![r] =
                [phase |-> IF plan.throws THEN "aborted" ELSE "running",
                 now |-> clock, gate |-> gate,
                 wave |-> [m \in run |-> plan.wave[Wire(m)]], cyclic |-> cyc]]
           /\ exec' = [exec EXCEPT ![r] = [m \in Mutations |->
                IF m \in run THEN Entering("wait", "none")
                ELSE IF m \in cyc THEN Entering("done", "uncached")
                ELSE Absent]]
    /\ UNCHANGED <<clock, idem, failures, rows, effects>>

\* The workers of a call that are busy, or that pollRaceWinner's 503 has killed.
Taken(r) == {n \in Mutations : exec[r][n].pc \notin {"absent", "wait", "done"}
                                    \/ exec[r][n].out = "unavailable"}

EarlierWavesEnded(r, m) ==
    \A n \in DOMAIN call[r].wave : call[r].wave[n] < call[r].wave[m]
        => At(r, n, "done") /\ exec[r][n].out # "unavailable"

\* Mutant: the worker count is off by one.
StartableOffByOne(r, m) ==
    /\ At(r, m, "wait") /\ EarlierWavesEnded(r, m)
    /\ Cardinality(Taken(r)) + 1 < WaveConcurrency

\* runBounded starts a mutation of the current wave on a free worker.  A worker
\* that throws ends the call, not the other workers: those finish the wave.
Startable(r, m) ==
    /\ At(r, m, "wait") /\ EarlierWavesEnded(r, m)
    /\ Cardinality(Taken(r)) < WaveConcurrency

\* Mutant: any stored verdict is replayed as `applied'.
FindLiveAsApplied(r, m) ==
    /\ Startable(r, m)
    /\ idem[m].status # "none" /\ IsLive(m, call[r].now)
    /\ Answer(r, m, "applied", TRUE)
    /\ UNCHANGED <<clock, idem, failures, rows, effects, call>>

\* Step 1: idempotency first, so a retry of a decided mutation replays.
FindLive(r, m) ==
    /\ Startable(r, m)
    /\ idem[m].status # "none" /\ IsLive(m, call[r].now)
    /\ Answer(r, m, idem[m].status, TRUE)
    /\ UNCHANGED <<clock, idem, failures, rows, effects, call>>

FindExpired(r, m) ==
    /\ Startable(r, m)
    /\ idem[m].status # "none" /\ ~IsLive(m, call[r].now)
    /\ Goto(r, m, "remove", "none")
    /\ UNCHANGED <<clock, idem, failures, rows, effects, call>>

FindNothing(r, m) ==
    /\ Startable(r, m) /\ idem[m].status = "none"
    /\ Goto(r, m, "preflight", "none")
    /\ UNCHANGED <<clock, idem, failures, rows, effects, call>>

\* The expired row is deleted by key, whatever it holds by now.
RemoveExpired(r, m) ==
    /\ At(r, m, "remove")
    /\ idem' = [idem EXCEPT ![m] = NoRow]
    /\ Goto(r, m, "preflight", "none")
    /\ UNCHANGED <<clock, failures, rows, effects, call>>

\* Mutant: the poison counter is not looked at.
RefusedUncounted(r, m) ==
    \/ m \in Malformed
    \/ ParentOf[m] \in FailedGuuids(r, m)
    \/ call[r].gate[m] = "deny"

\* Steps 1b to 8: every check that can end in terminalReject ...
Refused(r, m) ==
    \/ m \in Malformed
    \/ failures[m] >= PoisonMax
    \/ ParentOf[m] \in FailedGuuids(r, m)
    \/ call[r].gate[m] = "deny"

PreflightRejects(r, m) ==
    /\ At(r, m, "preflight") /\ Refused(r, m)
    /\ Goto(r, m, "record", "rejected")
    /\ UNCHANGED <<clock, idem, failures, rows, effects, call>>

\* ... or in retryLater, which is not cached ...
PreflightRetryLater(r, m) ==
    /\ At(r, m, "preflight") /\ ~Refused(r, m) /\ call[r].gate[m] = "later"
    /\ Answer(r, m, "later", FALSE)
    /\ UNCHANGED <<clock, idem, failures, rows, effects, call>>

\* ... and otherwise the business transaction begins.
PreflightPasses(r, m) ==
    /\ At(r, m, "preflight") /\ ~Refused(r, m) /\ call[r].gate[m] = "ok"
    /\ exec' = [exec EXCEPT ![r][m] =
                    [pc |-> "handler", out |-> "none", dup |-> FALSE, at |-> clock]]
    /\ UNCHANGED <<clock, idem, failures, rows, effects, call>>
-----------------------------------------------------------------------------
\* handler.apply inside the savepoint.  An insert meets the unique guuid, an
\* update the optimistic lock, a delete of a dead row is idempotent.
Row_(m) == rows[GuuidOf[m]]

\* Mutant: the last writer wins.
ChangesUnlocked(m) ==
    \/ ActionOf[m] = "create" /\ Row_(m).version = 0
    \/ ActionOf[m] # "create" /\ Row_(m).version > 0

Changes(m) ==
    \/ ActionOf[m] = "create" /\ Row_(m).version = 0
    \/ ActionOf[m] = "update" /\ Row_(m).alive /\ Row_(m).version = ExpectedOf[m]
    \/ ActionOf[m] = "delete" /\ Row_(m).version > 0

\* Mutant: the comparison of versions is off by one.
StaleInclusive(m) ==
    ActionOf[m] = "update" /\ Row_(m).alive /\ Row_(m).version >= ExpectedOf[m]

Stale(m) ==
    ActionOf[m] = "update" /\ Row_(m).alive /\ Row_(m).version # ExpectedOf[m]

HandlerApplies(r, m) ==
    /\ At(r, m, "handler") /\ Changes(m) /\ RowFree(r, m)
    /\ Goto(r, m, "claim", "applied")
    /\ UNCHANGED <<clock, idem, failures, rows, effects, call>>

HandlerConflicts(r, m) ==
    /\ At(r, m, "handler") /\ Stale(m)
    /\ Goto(r, m, "claim", "conflict")
    /\ UNCHANGED <<clock, idem, failures, rows, effects, call>>

\* 23505 on the guuid: DUPLICATE_ENTRY, which is rechecked for a race winner.
HandlerDuplicate(r, m) ==
    /\ At(r, m, "handler") /\ ActionOf[m] = "create" /\ Row_(m).version > 0
    /\ Goto(r, m, "recheck", "rejected")
    /\ UNCHANGED <<clock, idem, failures, rows, effects, call>>

\* Any other rejection rolls the transaction back and is recorded: NOT_FOUND,
\* or a business rule of a handler that looks at other rows.
HandlerRejects(r, m) ==
    /\ At(r, m, "handler")
    /\ \/ m \in StateGuarded
       \/ ActionOf[m] # "create" /\ Row_(m).version = 0
       \/ ActionOf[m] = "update" /\ ~Row_(m).alive
    /\ Goto(r, m, "record", "rejected")
    /\ UNCHANGED <<clock, idem, failures, rows, effects, call>>

\* An unexpected error anywhere in the transaction rolls it back.
HandlerCrashes(r, m) ==
    /\ exec[r][m].pc \in {"handler", "claim", "commit"}
    /\ Goto(r, m, "bump", "uncached")
    /\ UNCHANGED <<clock, idem, failures, rows, effects, call>>

\* INSERT ... ON CONFLICT DO NOTHING: waits for an uncommitted claim of the
\* same mutation_id; finding a committed row, this transaction has lost.
ClaimWins(r, m) ==
    /\ At(r, m, "claim") /\ ClaimFree(m) /\ idem[m].status = "none"
    /\ Goto(r, m, "commit", exec[r][m].out)
    /\ UNCHANGED <<clock, idem, failures, rows, effects, call>>

ClaimLoses(r, m) ==
    /\ At(r, m, "claim") /\ ClaimFree(m) /\ idem[m].status # "none"
    /\ Goto(r, m, "poll", "none")
    /\ UNCHANGED <<clock, idem, failures, rows, effects, call>>

\* A create inserts version 1, an update and a delete of a live row bump it.
Written(m) ==
    [version |-> Row_(m).version
                    + (IF ActionOf[m] = "delete" /\ ~Row_(m).alive THEN 0 ELSE 1),
     alive |-> ActionOf[m] # "delete"]

\* The business write and the idempotency row become visible together.
Commit(r, m) ==
    /\ At(r, m, "commit")
    /\ idem' = [idem EXCEPT ![m] = [status |-> exec[r][m].out, at |-> exec[r][m].at]]
    /\ IF exec[r][m].out = "applied"
       THEN /\ rows' = [rows EXCEPT ![GuuidOf[m]] = Written(m)]
            /\ effects' = [effects EXCEPT ![m] = @ + 1]
       ELSE UNCHANGED <<rows, effects>>
    /\ Answer(r, m, exec[r][m].out, FALSE)
    /\ UNCHANGED <<clock, failures, call>>
-----------------------------------------------------------------------------
\* mapExecuteFailure: the loser of a create race finds the winner's row ...
RecheckFindsWinner(r, m) ==
    /\ At(r, m, "recheck")
    /\ idem[m].status # "none" /\ IsLive(m, call[r].now)
    /\ Answer(r, m, idem[m].status, TRUE)
    /\ UNCHANGED <<clock, idem, failures, rows, effects, call>>

\* ... or the guuid was taken by another mutation.
RecheckFindsNone(r, m) ==
    /\ At(r, m, "recheck")
    /\ ~(idem[m].status # "none" /\ IsLive(m, call[r].now))
    /\ Goto(r, m, "record", "rejected")
    /\ UNCHANGED <<clock, idem, failures, rows, effects, call>>

\* Mutant: record overwrites the row of a race winner.
RecordOverwrites(r, m) ==
    /\ At(r, m, "record") /\ ClaimFree(m)
    /\ idem' = [idem EXCEPT ![m] = [status |-> "rejected", at |-> clock]]
    /\ Answer(r, m, "rejected", FALSE)
    /\ UNCHANGED <<clock, failures, rows, effects, call>>

\* idempotency.record, then the rejection is answered whether or not the row
\* was inserted: "an existing row (the race winner) wins".
Record(r, m) ==
    /\ At(r, m, "record") /\ ClaimFree(m)
    /\ idem' = IF idem[m].status = "none"
               THEN [idem EXCEPT ![m] = [status |-> "rejected", at |-> clock]]
               ELSE idem
    /\ Answer(r, m, "rejected", FALSE)
    /\ UNCHANGED <<clock, failures, rows, effects, call>>

\* Unknown crash: count it on the root connection, reject terminally at the
\* cap, otherwise answer an uncached `rejected'.
Bump(r, m) ==
    /\ At(r, m, "bump")
    /\ failures' = [failures EXCEPT ![m] = @ + 1]
    /\ IF failures[m] + 1 >= PoisonMax
       THEN Goto(r, m, "record", "rejected")
       ELSE Answer(r, m, "uncached", FALSE)
    /\ UNCHANGED <<clock, idem, rows, effects, call>>

\* pollRaceWinner: the winner's row, live or not ...
PollFindsWinner(r, m) ==
    /\ At(r, m, "poll") /\ idem[m].status # "none"
    /\ Answer(r, m, idem[m].status, TRUE)
    /\ UNCHANGED <<clock, idem, failures, rows, effects, call>>

\* ... or, when it stays away for the whole timeout, 503 for the whole call:
\* no later wave is started.
PollTimesOut(r, m) ==
    /\ At(r, m, "poll") /\ idem[m].status = "none"
    /\ call' = [call EXCEPT ![r].phase = "aborted"]
    /\ Answer(r, m, "unavailable", FALSE)
    /\ UNCHANGED <<clock, idem, failures, rows, effects>>

\* The response leaves, or the call has failed and its last worker has ended;
\* whether the answer reaches the client is not the server's.
Respond(r) ==
    /\ call[r].phase # "idle"
    /\ \A m \in Mutations : exec[r][m].pc \in {"absent", "wait", "done"} /\ ~Startable(r, m)
    /\ \A m \in Mutations : At(r, m, "wait") => call[r].phase = "aborted"
    /\ call' = [call EXCEPT ![r] = IdleCall]
    /\ exec' = [exec EXCEPT ![r] = [m \in Mutations |-> Absent]]
    /\ UNCHANGED <<clock, idem, failures, rows, effects>>

\* The process dies: open transactions roll back, calls are gone.
ServerCrash ==
    /\ \E r \in Requests : call[r].phase # "idle"
    /\ call' = [r \in Requests |-> IdleCall]
    /\ exec' = [r \in Requests |-> [m \in Mutations |-> Absent]]
    /\ UNCHANGED <<clock, idem, failures, rows, effects>>

Tick ==
    /\ clock < MaxClock
    /\ clock' = clock + 1
    /\ UNCHANGED <<idem, failures, rows, effects, call, exec>>

ServerStep(r, m) ==
    \/ FindLive(r, m) \/ FindExpired(r, m) \/ FindNothing(r, m) \/ RemoveExpired(r, m)
    \/ PreflightRejects(r, m) \/ PreflightRetryLater(r, m) \/ PreflightPasses(r, m)
    \/ HandlerApplies(r, m) \/ HandlerConflicts(r, m) \/ HandlerDuplicate(r, m)
    \/ HandlerRejects(r, m)
    \/ ClaimWins(r, m) \/ ClaimLoses(r, m) \/ Commit(r, m)
    \/ RecheckFindsWinner(r, m) \/ RecheckFindsNone(r, m) \/ Record(r, m) \/ Bump(r, m)
    \/ PollFindsWinner(r, m) \/ PollTimesOut(r, m)

Next ==
    \/ \E r \in Requests, b \in Batches : \E gate \in [ToSet(b) -> Gates] : Arrive(r, b, gate)
    \/ \E r \in Requests, m \in Mutations : ServerStep(r, m) \/ HandlerCrashes(r, m)
    \/ \E r \in Requests : Respond(r)
    \/ ServerCrash
    \/ Tick

Spec == Init /\ [][Next]_vars

\* The event loop runs every started promise, PostgreSQL grants every lock
\* that is released; a handler need not crash and clients need not call.
FairSpec ==
    /\ Spec
    /\ \A r \in Requests : WF_vars(Respond(r))
    /\ \A r \in Requests, m \in Mutations : WF_vars(ServerStep(r, m))
-----------------------------------------------------------------------------
\* THE invariant of section 10: the idempotency row says "applied" exactly
\* when the business write has committed, and it has committed once.
AppliedIffEffect ==
    \A m \in Mutations : effects[m] = IF idem[m].status = "applied" THEN 1 ELSE 0

\* A recorded conflict can never turn into a write: that row version is gone.
\* It is what makes the unconditional delete of an expired row harmless.
Outdated(m) ==
    /\ ActionOf[m] = "update"
    /\ Row_(m).version > ExpectedOf[m]

ConflictIsForever ==
    \A m \in Mutations : idem[m].status = "conflict" => Outdated(m)

\* Whoever is told "applied", first hand or as a duplicate, has its write.
AppliedAnswerIsTrue ==
    \A r \in Requests, m \in Mutations :
        (At(r, m, "done") /\ exec[r][m].out = "applied") => effects[m] = 1

\* What byGuuid finds for the entity of p: the first edit of it in the call.
FirstEdit(r, p) ==
    \A q \in DOMAIN call[r].wave : GuuidOf[q] = GuuidOf[p] => call[r].wave[p] <= call[r].wave[q]

\* No mutation on a cycle names an entity that another one of the call writes.
Untangled(r) ==
    \A c \in call[r].cyclic, q \in DOMAIN call[r].wave : GuuidOf[c] # GuuidOf[q]

\* A child answered `applied' by a call has its parent, when the batch holds
\* it, neither failed nor still to be executed in that call: the first edit of
\* the parent, in whatever order the client sent the two, and every edit in an
\* earlier wave.
ChildAfterParent ==
    \A r \in Requests : \A m, p \in DOMAIN call[r].wave :
        (/\ ParentOf[m] = GuuidOf[p] /\ p # m
         /\ call[r].wave[p] < call[r].wave[m] \/ (Untangled(r) /\ FirstEdit(r, p))
         /\ LocksRow(r, m) \/ (At(r, m, "done") /\ exec[r][m].out = "applied" /\ ~exec[r][m].dup))
        => /\ At(r, p, "done") /\ exec[r][p].out \notin {"rejected", "uncached"}
           /\ exec[r][p].out = "conflict" => exec[r][p].dup

\* The concurrent workers of a call never hold two edits of one entity: the
\* second would be judged by the row version the first one takes away.
Running(r, m) == exec[r][m].pc \notin {"absent", "wait", "done"}

OneEditAtATime ==
    \A r \in Requests, m, n \in Mutations :
        (Running(r, m) /\ Running(r, n) /\ GuuidOf[m] = GuuidOf[n]) => m = n

\* A poison mutation enters its handler a bounded number of times: the cap,
\* plus one for every other call that had passed the check already.
PoisonBounded ==
    \A m \in Mutations : failures[m] <= PoisonMax - 1 + Cardinality(Requests)

\* Nobody deletes or overwrites the row of an applied mutation, and rows never
\* go back: versions only grow and a deleted row stays deleted.
AppliedIsFinal ==
    [][/\ \A m \in Mutations : idem[m].status = "applied" => idem'[m].status = "applied"
       /\ \A g \in Guuids : /\ rows'[g].version >= rows[g].version
                            /\ (rows[g].version > 0 /\ ~rows[g].alive) => ~rows'[g].alive]_vars

\* Every call is answered: no wait for a lock or for a race winner is forever.
EveryCallAnswered ==
    \A r \in Requests : (call[r].phase # "idle") ~> (call[r].phase = "idle")

-----------------------------------------------------------------------------
\* What makes the invariants above inductive (proved in Push_proofs).
Active(r, m) == exec[r][m].pc \notin {"absent", "done"}

\* A call works on a mutation only within the replay window of its queueing,
\* and a verdict is never older than the queueing: so no `applied' or
\* `rejected' row can have expired when its mutation is looked up.
WithinWindow ==
    /\ \A m \in Mutations : idem[m].status # "none" => QueuedAt[m] <= idem[m].at
    /\ \A r \in Requests, m \in Mutations : Active(r, m) =>
        /\ QueuedAt[m] <= call[r].now /\ call[r].now <= clock
        /\ call[r].now - QueuedAt[m] <= ReplayWindow
        /\ exec[r][m].pc \in {"handler", "claim", "commit"} => QueuedAt[m] <= exec[r][m].at

\* What an open processOne may rely on between two of its awaits.
Reliable(r, m) ==
    /\ (Active(r, m) /\ ActionOf[m] = "update") => ExpectedOf[m] <= Row_(m).version
    /\ At(r, m, "remove") => Outdated(m) /\ idem[m].status # "applied"
    /\ exec[r][m].pc \in {"claim", "commit"} =>
        \/ exec[r][m].out = "applied" /\ Changes(m)
        \/ exec[r][m].out = "conflict" /\ Outdated(m)
    /\ At(r, m, "commit") => idem[m].status = "none"

\* The row lock and the claim of a mutation_id have one holder.
Exclusive ==
    \A r, s \in Requests, m, n \in Mutations :
        /\ (LocksRow(r, m) /\ LocksRow(s, n) /\ GuuidOf[m] = GuuidOf[n])
                => (r = s /\ m = n)
        /\ (At(r, m, "commit") /\ At(s, m, "commit")) => r = s

Inductive ==
    /\ TypeOK
    /\ \A g \in Guuids : rows[g].alive => rows[g].version > 0
    /\ WithinWindow
    /\ \A r \in Requests, m \in Mutations : Reliable(r, m)
    /\ Exclusive
    /\ AppliedIffEffect /\ ConflictIsForever /\ AppliedAnswerIsTrue

Ledger == INSTANCE MutationLedger WITH verdict <- [m \in Mutations |-> idem[m].status]
RefinesLedger == Ledger!Spec
=============================================================================
