--------------------------- MODULE OutboundQueue ---------------------------
(***************************************************************************)
(* The mobile outbound queue (apps/mobile/src/core/sync): optimistic       *)
(* creates, the drain of the queue, the reconciliation of each result with *)
(* the local row, the pages that come with it, app crashes and the logout  *)
(* wipe.  The server is the ledger that DeltaPush implements.              *)
(*                                                                         *)
(* A drain is one run of drainQueueFully: a scheduler cycle, or the flush  *)
(* of a logout.  The `running' guard keeps the cycles of ONE scheduler     *)
(* apart; nothing keeps a flush from a cycle that is still running.        *)
(* One action is the code between two awaits; a transaction is one action. *)
(*                                                                         *)
(* Every write the app enqueues today is a create of a new entity, so an   *)
(* entity is named by its mutation.  Its local table may hold two rows for *)
(* it: "temp", keyed by the guuid, and "server", keyed by the real id.     *)
(***************************************************************************)
EXTENDS Integers, Functions

CONSTANTS
    Mutations,    \* the creates the user makes
    Poison,       \* payloads the server's body validation refuses with a 4xx
    Cycles,       \* scheduler cycles that can overlap
    Flushes,      \* pre-logout flushes
    Calls,        \* bound: calls in the network or on the server at once
    MaxAttempts,  \* MAX_ATTEMPTS_BEFORE_DEAD
    MaxBatches,   \* MAX_BATCHES_PER_CYCLE, MAX_FLUSH_BATCHES
    MaxFaults,    \* bound: app kills, failed calls and retry_later answers
    Nobody,       \* the owner of a call its client has given up
    NoCursor      \* no sync cursor stored

ASSUME QueueAssumption ==
    /\ Poison \subseteq Mutations /\ Cycles \cap Flushes = {}
    /\ MaxAttempts \in Nat \ {0} /\ MaxBatches \in Nat \ {0} /\ MaxFaults \in Nat
    /\ Nobody \notin Cycles \cup Flushes

Drains == Cycles \cup Flushes

VARIABLES
    verdict, effects,  \* the server's ledger
    queue,     \* mutation_queue: [status, attempts]
    old,       \* queued longer ago than the idempotency window
    local,     \* rows of the entity in the local table
    cursor,    \* sync_cursors: the entities whose rows it has passed
    session,   \* "in", "flushing" (logout has begun) or "out" (wiped)
    alone,     \* history: no logout has begun, no flush has run beside a cycle
    drain,     \* per drain: its step and what it holds in memory
    net,       \* calls to POST /sync/delta
    faults

device == <<queue, old, local, cursor>>
ledger == <<verdict, effects>>
account == <<session, alone>>
vars == <<ledger, device, account, drain, net, faults>>

Ledger == INSTANCE MutationLedger

Statuses == {"unborn", "pending", "inflight", "applied", "rejected", "dead", "gone"}
Steps == {"idle", "cold", "coldpage", "ready", "mark", "send", "wait", "answered",
          "failed", "poisoned", "page", "pull", "pullpage"}
Answers == {"applied", "rejected", "duplicate", "later"}
Page == (SUBSET Mutations) \cup {NoCursor}

NoAnswers == [m \in {} |-> "later"]
Resting == [pc |-> "idle", pulls |-> FALSE, batch |-> {}, expired |-> {}, answers |-> NoAnswers,
            sent |-> NoCursor, page |-> NoCursor, drained |-> 0]
Free == [open |-> FALSE, owner |-> Nobody, batch |-> {}, answers |-> NoAnswers,
         sent |-> NoCursor]

TypeOK ==
    /\ verdict \in [Mutations -> Ledger!Verdicts] /\ effects \in [Mutations -> Nat]
    /\ queue \in [Mutations -> [status : Statuses, attempts : 0 .. MaxAttempts]]
    /\ old \subseteq Mutations
    /\ local \in [Mutations -> SUBSET {"temp", "server"}]
    /\ cursor \in Page /\ session \in {"in", "flushing", "out"} /\ alone \in BOOLEAN /\ faults \in 0 .. MaxFaults
    /\ \A d \in Drains : /\ drain[d].pc \in Steps /\ drain[d].pulls \in BOOLEAN
                         /\ drain[d].batch \subseteq Mutations
                         /\ drain[d].sent \in Page /\ drain[d].page \in Page
    /\ \A c \in Calls : /\ net[c].owner \in Drains \cup {Nobody}
                        /\ Range(net[c].answers) \subseteq Answers

Init ==
    /\ Ledger!Init
    /\ queue = [m \in Mutations |-> [status |-> "unborn", attempts |-> 0]]
    /\ old = {} /\ local = [m \in Mutations |-> {}]
    /\ cursor = NoCursor /\ session = "in" /\ alone = TRUE
    /\ drain = [d \in Drains |-> Resting]
    /\ net = [c \in Calls |-> Free]
    /\ faults = 0

With(status) == {m \in Mutations : queue[m].status = status}
Present(m) == queue[m].status \notin {"unborn", "gone"}

\* An UPDATE of the queue rows of S to a new status; wiped rows match nothing.
Marked(S, status) ==
    [m \in Mutations |-> IF m \in S /\ Present(m)
                         THEN [queue[m] EXCEPT !.status = status] ELSE queue[m]]

Fault == faults < MaxFaults /\ faults' = faults + 1

Move(d, pc) == drain' = [drain EXCEPT ![d].pc = pc]

\* The drain is over: a cycle goes on to pull, a push alone ends.
AfterPush(d) == IF drain[d].pulls THEN "pull" ELSE "idle"

StartCycle(d) ==
    drain' = [drain EXCEPT ![d].pulls = TRUE,
                           ![d].pc = IF cursor = NoCursor THEN "cold" ELSE "ready"]
-----------------------------------------------------------------------------
\* enqueueCreate*: the temp row and the queue row, in one transaction.  The
\* screens that call it are mounted over an opened store only.
Enqueue(m) ==
    /\ session = "in" /\ cursor # NoCursor /\ queue[m].status = "unborn"
    /\ queue' = [queue EXCEPT ![m].status = "pending"]
    /\ local' = [local EXCEPT ![m] = {"temp"}]
    /\ UNCHANGED <<ledger, old, cursor, account, drain, net, faults>>

\* 45 days pass.
Age(m) ==
    /\ queue[m].status \in {"pending", "inflight"} /\ m \notin old
    /\ old' = old \cup {m}
    /\ UNCHANGED <<ledger, queue, local, cursor, account, drain, net, faults>>

\* Mutants: orphaned rows are not reset; dead rows are reset too.
OpenWithoutReset(d) ==
    /\ d \in Cycles /\ session = "in" /\ drain[d].pc = "idle"
    /\ StartCycle(d)
    /\ UNCHANGED <<ledger, device, account, net, faults>>

OpenResetsDead(d) ==
    /\ d \in Cycles /\ session = "in" /\ drain[d].pc = "idle"
    /\ queue' = Marked(With("inflight") \cup With("dead"), "pending")
    /\ StartCycle(d)
    /\ UNCHANGED <<ledger, old, local, cursor, account, net, faults>>

\* openStore at the head of every tick: orphaned inflight rows are pending
\* again, and a store without a cursor cold-starts first.
Open(d) ==
    /\ d \in Cycles /\ session = "in" /\ drain[d].pc = "idle"
    /\ queue' = Marked(With("inflight"), "pending")
    /\ StartCycle(d)
    /\ UNCHANGED <<ledger, old, local, cursor, account, net, faults>>

\* onBackground: the queue is pushed, the store is neither opened nor pulled.
Background(d) ==
    /\ d \in Cycles /\ session = "in" /\ cursor # NoCursor /\ drain[d].pc = "idle"
    /\ Move(d, "ready")
    /\ UNCHANGED <<ledger, device, account, net, faults>>

\* takeDrainable, split by the age of each row.
TakeDrainable(d) ==
    /\ drain[d].pc = "ready" /\ With("pending") # {} /\ drain[d].drained < MaxBatches
    /\ drain' = [drain EXCEPT ![d].pc = "mark", ![d].batch = With("pending") \ old,
                              ![d].expired = With("pending") \cap old]
    /\ UNCHANGED <<ledger, device, account, net, faults>>

\* Nothing left, or the batch limit met.
DrainEnds(d) ==
    /\ drain[d].pc = "ready" /\ (With("pending") = {} \/ drain[d].drained = MaxBatches)
    /\ drain' = [drain EXCEPT ![d] = [Resting EXCEPT !.pc = AfterPush(d)]]
    /\ UNCHANGED <<ledger, device, account, net, faults>>

\* markExpiredBatch and markInflight; an empty batch counts as nothing drained.
MarkInflight(d) ==
    /\ drain[d].pc = "mark"
    /\ queue' = [m \in Mutations |->
            IF ~Present(m) THEN queue[m]
            ELSE IF m \in drain[d].expired THEN [queue[m] EXCEPT !.status = "dead"]
            ELSE IF m \in drain[d].batch THEN [queue[m] EXCEPT !.status = "inflight"]
            ELSE queue[m]]
    /\ drain' = [drain EXCEPT ![d] =
            IF drain[d].batch # {} THEN [drain[d] EXCEPT !.pc = "send"]
            ELSE [Resting EXCEPT !.pc = AfterPush(d)]]
    /\ UNCHANGED <<ledger, old, local, cursor, account, net, faults>>

\* The cursor is read and the batch leaves.
Send(d) ==
    /\ drain[d].pc = "send" /\ session # "out"
    /\ \E c \in Calls :
        /\ ~net[c].open
        /\ net' = [net EXCEPT ![c] = [open |-> TRUE, owner |-> d, batch |-> drain[d].batch,
                                      answers |-> NoAnswers, sent |-> cursor]]
    /\ drain' = [drain EXCEPT ![d].pc = "wait", ![d].sent = cursor]
    /\ UNCHANGED <<ledger, device, account, faults>>

\* Offline, timeout, 5xx or 429: the server may still be working on the call.
GiveUp(d) ==
    /\ drain[d].pc \in {"send", "wait"}
    /\ Fault
    /\ Move(d, "failed")
    /\ net' = [c \in Calls |-> IF net[c].owner = d THEN [net[c] EXCEPT !.owner = Nobody]
                               ELSE net[c]]
    /\ UNCHANGED <<ledger, device, account>>
-----------------------------------------------------------------------------
Alive(c) == net[c].open /\ net[c].batch \cap Poison = {}
Say(c, m, answer) ==
    net' = [net EXCEPT ![c].answers =
                [n \in DOMAIN @ \cup {m} |-> IF n = m THEN answer ELSE @[n]]]
Undecided(c) == net[c].batch \ DOMAIN net[c].answers

\* One mutation of a call on the server: a decided one is replayed ...
Replay(c, m) ==
    /\ Alive(c) /\ m \in Undecided(c) /\ verdict[m] # "none"
    /\ Say(c, m, "duplicate")
    /\ UNCHANGED <<ledger, device, account, drain, faults>>

\* ... an undecided one is applied or terminally refused ...
Decide(c, m) ==
    /\ Alive(c) /\ m \in Undecided(c)
    /\ \/ Ledger!Apply(m) /\ Say(c, m, "applied")
       \/ /\ Ledger!Refuse(m) /\ verdict'[m] = "rejected"
          /\ Say(c, m, "rejected")
    /\ UNCHANGED <<device, account, drain, faults>>

\* ... or its handler crashes, which is answered by an uncached `rejected'.
CrashHandler(c, m) ==
    /\ Alive(c) /\ m \in Undecided(c) /\ verdict[m] = "none"
    /\ Say(c, m, "rejected")
    /\ UNCHANGED <<ledger, device, account, drain, faults>>

\* ... or the subscription says retry_later.
Postpone(c, m) ==
    /\ Alive(c) /\ m \in Undecided(c) /\ verdict[m] = "none"
    /\ Fault
    /\ Say(c, m, "later")
    /\ UNCHANGED <<ledger, device, account, drain>>

Close(c) == net' = [net EXCEPT ![c] = Free]

\* The whole batch is answered; the delta page is read last.
Respond(c) ==
    /\ Alive(c) /\ Undecided(c) = {}
    /\ Close(c)
    /\ IF net[c].owner \in Drains
       THEN drain' = [drain EXCEPT ![net[c].owner].pc = "answered",
                ![net[c].owner].answers = net[c].answers,
                ![net[c].owner].page = IF net[c].sent = NoCursor THEN NoCursor
                                       ELSE {m \in Mutations : verdict[m] = "applied"}]
       ELSE UNCHANGED drain
    /\ UNCHANGED <<ledger, device, account, faults>>

\* Body validation refuses the batch before any mutation is looked at.
RefuseBatch(c) ==
    /\ net[c].open /\ net[c].batch \cap Poison # {}
    /\ Close(c)
    /\ IF net[c].owner \in Drains THEN Move(net[c].owner, "poisoned") ELSE UNCHANGED drain
    /\ UNCHANGED <<ledger, device, account, faults>>

\* A call its client has given up never arrives, or its server dies.
Vanish(c) ==
    /\ net[c].open /\ net[c].owner = Nobody
    /\ Close(c)
    /\ UNCHANGED <<ledger, device, account, drain, faults>>
-----------------------------------------------------------------------------
\* Mutants: retry_later is settled; the temp row goes and nothing takes its place.
NextStatusLax(answer) == IF answer = "rejected" THEN "rejected" ELSE "applied"
NextRowsNoSwap(answer, here) == IF answer \in {"applied", "rejected"} THEN {} ELSE here

\* reconcileMutationResult: what a result does to the queue row ...
NextStatus(answer) ==
    CASE answer \in {"applied", "duplicate"} -> "applied"
      [] answer = "rejected" -> "rejected"
      [] answer = "later" -> "pending"

\* ... and to the rows of the local table.
NextRows(answer, here) ==
    CASE answer = "applied" -> {"server"}
      [] answer = "rejected" -> {}
      [] OTHER -> here

\* recordPoisonFailureBatch.
Aged(row) ==
    [status |-> IF row.attempts + 1 >= MaxAttempts THEN "dead" ELSE "pending",
     attempts |-> IF row.attempts < MaxAttempts THEN row.attempts + 1 ELSE MaxAttempts]

\* One transaction for the whole batch; a row without an answer ages.
Reconcile(d) ==
    /\ drain[d].pc = "answered"
    /\ LET ans == drain[d].answers
           unanswered == drain[d].batch \ DOMAIN ans
       IN  /\ queue' = [m \in Mutations |->
                IF ~Present(m) THEN queue[m]
                ELSE IF m \in DOMAIN ans THEN [queue[m] EXCEPT !.status = NextStatus(ans[m])]
                ELSE IF m \in unanswered THEN Aged(queue[m]) ELSE queue[m]]
           /\ local' = [m \in Mutations |->
                IF m \in DOMAIN ans THEN NextRows(ans[m], local[m]) ELSE local[m]]
    /\ drain' = [drain EXCEPT ![d].pc = IF drain[d].page = NoCursor THEN "ready" ELSE "page",
                              ![d].drained = @ + 1]
    /\ UNCHANGED <<ledger, old, cursor, account, net, faults>>

\* Both end the cycle: the error is thrown on after the queue is updated.
TransportFailure(d) ==
    /\ drain[d].pc = "failed"
    /\ queue' = Marked(drain[d].batch, "pending")
    /\ drain' = [drain EXCEPT ![d] = Resting]
    /\ UNCHANGED <<ledger, old, local, cursor, account, net, faults>>

PoisonFailure(d) ==
    /\ drain[d].pc = "poisoned"
    /\ queue' = [m \in Mutations |-> IF m \in drain[d].batch /\ Present(m) THEN Aged(queue[m])
                                     ELSE queue[m]]
    /\ drain' = [drain EXCEPT ![d] = Resting]
    /\ UNCHANGED <<ledger, old, local, cursor, account, net, faults>>

\* GET /sync/changes or /sync/initial, which may fail and end the cycle.  The
\* server marks this device's initial sync complete at its first cold start,
\* before any mutation here: a later one delivers none of their rows and hands
\* out the anchor of the first, from which the delta pull goes on.
Fetch(d) ==
    /\ session # "out"
    /\ \/ /\ drain[d].pc = "pull" /\ cursor # NoCursor
          /\ drain' = [drain EXCEPT ![d].pc = "pullpage", ![d].sent = cursor,
                          ![d].page = {m \in Mutations : verdict[m] = "applied"}]
       \/ /\ drain[d].pc = "cold"
          /\ drain' = [drain EXCEPT ![d].pc = "coldpage", ![d].sent = {}, ![d].page = {}]
    /\ UNCHANGED <<ledger, device, account, net, faults>>

FetchFails(d) ==
    /\ drain[d].pc \in {"pull", "cold"}
    /\ Fault
    /\ drain' = [drain EXCEPT ![d] = Resting]
    /\ UNCHANGED <<ledger, device, account, net>>

\* After the wipe there is neither a cursor nor a token to call with.
CannotCall(d) ==
    /\ \/ drain[d].pc \in {"send", "pull", "cold"} /\ session = "out"
       \/ drain[d].pc = "pull" /\ cursor = NoCursor
    /\ drain' = [drain EXCEPT ![d] = IF drain[d].pc = "send"
                                     THEN [drain[d] EXCEPT !.pc = "failed"] ELSE Resting]
    /\ UNCHANGED <<ledger, device, account, net, faults>>

\* Rows and cursor in one transaction; the page spares entities with an
\* unresolved mutation (liveGuuids).
ApplyPage(d) ==
    /\ drain[d].pc \in {"page", "pullpage", "coldpage"}
    /\ LET rows == drain[d].page \ drain[d].sent
           live == With("pending") \cup With("inflight")
       IN  local' = [m \in Mutations |-> local[m] \cup (IF m \in rows \ live THEN {"server"} ELSE {})]
    /\ cursor' = drain[d].page
    /\ drain' = [drain EXCEPT ![d] = [Resting EXCEPT
                    !.pc = IF drain[d].pc = "pullpage" THEN "idle" ELSE "ready",
                    !.pulls = drain[d].pulls /\ drain[d].pc # "pullpage",
                    !.drained = drain[d].drained]]
    /\ UNCHANGED <<ledger, queue, old, account, net, faults>>
-----------------------------------------------------------------------------
\* The app is killed: memory is gone, SQLite and the open calls stay.
AppCrash ==
    /\ Fault
    /\ drain' = [d \in Drains |-> Resting]
    /\ net' = [c \in Calls |-> [net[c] EXCEPT !.owner = Nobody]]
    /\ session' = IF session = "flushing" THEN "in" ELSE session
    /\ UNCHANGED <<ledger, device, alone>>

\* logout: stopSync cancels timers, not a running cycle; an online device
\* flushes its queue without opening the store and without the guard ...
Logout(d) ==
    /\ session = "in" /\ d \in Flushes /\ drain[d].pc = "idle"
    /\ session' = "flushing" /\ alone' = FALSE
    /\ Move(d, "ready") \/ UNCHANGED drain
    /\ UNCHANGED <<ledger, device, net, faults>>

\* ... and wipeLocalData runs when the flush ends or after FLUSH_TIMEOUT_MS.
Wipe ==
    /\ session = "flushing"
    /\ session' = "out"
    /\ queue' = [m \in Mutations |-> [status |-> IF queue[m].status = "unborn" THEN "unborn"
                                                ELSE "gone", attempts |-> 0]]
    /\ local' = [m \in Mutations |-> {}] /\ cursor' = NoCursor
    /\ UNCHANGED <<ledger, old, alone, drain, net, faults>>

Login ==
    /\ session = "out"
    /\ session' = "in"
    /\ UNCHANGED <<ledger, device, alone, drain, net, faults>>

\* What one drain does by itself.
DrainStep(d) ==
    \/ Open(d) \/ TakeDrainable(d) \/ DrainEnds(d)
    \/ MarkInflight(d) \/ Send(d) \/ Reconcile(d) \/ TransportFailure(d)
    \/ PoisonFailure(d) \/ Fetch(d) \/ CannotCall(d) \/ ApplyPage(d)

Next ==
    \/ \E m \in Mutations : Enqueue(m) \/ Age(m)
    \/ \E d \in Drains : DrainStep(d) \/ Background(d) \/ GiveUp(d) \/ FetchFails(d)
    \/ \E c \in Calls : Respond(c) \/ RefuseBatch(c) \/ Vanish(c)
    \/ \E c \in Calls, m \in Mutations :
            Replay(c, m) \/ Decide(c, m) \/ CrashHandler(c, m) \/ Postpone(c, m)
    \/ \E d \in Flushes : Logout(d)
    \/ AppCrash \/ Wipe \/ Login

Spec == Init /\ [][Next]_vars

\* The heartbeat timer opens the store again and again, and not every time while
\* a background push is running; a cycle runs on, and the server works on every
\* call it has received.  What may fail, fails at most
\* MaxFaults times: nothing is promised to a device that stays offline.
FairSpec ==
    /\ Spec
    /\ \A d \in Drains : WF_vars(DrainStep(d)) /\ SF_vars(Open(d))
    /\ WF_vars(Wipe)
    /\ \A c \in Calls : WF_vars(Respond(c) \/ RefuseBatch(c))
    /\ \A c \in Calls, m \in Mutations : WF_vars(Replay(c, m) \/ Decide(c, m))
-----------------------------------------------------------------------------
\* The client stops resending only what the server has decided: no write is
\* lost to a crash, a lost response or a failed call.
SettledIsDecided ==
    \A m \in Mutations : queue[m].status = "applied" => verdict[m] # "none"

\* The types, and nothing is settled on the phone that is open on the server.
Inv == TypeOK /\ SettledIsDecided

\* What the user has entered stays on the screen: the optimistic row as long as
\* its mutation is queued, whatever fails (retry_later too), and a row of an
\* applied one, whichever of the swap of the temp row for the server's, the
\* pulled page and a late answer comes first, as long as no logout has begun.
WritesStayVisible ==
    alone => \A m \in Mutations :
        \/ queue[m].status \in {"pending", "inflight"}
        \/ queue[m].status = "applied" /\ verdict[m] = "applied"
        => local[m] # {}

\* A settled mutation is never queued again: neither a late answer nor a failed
\* call nor openStore takes back a result, as long as no logout has begun.
SettledStaysSettled ==
    [][alone => \A m \in Mutations : queue[m].status \in {"applied", "rejected", "dead"}
            => queue'[m].status = queue[m].status]_vars

\* Every queued write is settled at last; one poison mutation cannot block the
\* queue for ever.
EverythingSettles ==
    \A m \in Mutations :
        (queue[m].status = "pending") ~> (queue[m].status \in {"applied", "rejected", "dead", "gone"})
=============================================================================
