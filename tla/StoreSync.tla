------------------------------ MODULE StoreSync ------------------------------
(***************************************************************************)
(* When the phone syncs, and for which store                               *)
(* (apps/mobile/src/core/sync/scheduler-instance.ts, sync-scheduler.ts,    *)
(* sync-engine.ts): the store the user has entered is bound by an effect,  *)
(* opened by a scheduler of its own, then kept fresh by a heartbeat, by    *)
(* writes, reconnects and app-state changes, until another store is        *)
(* entered or the user logs out.  A scheduler that is stopped goes on with *)
(* whatever it awaits.                                                     *)
(*                                                                         *)
(* JavaScript runs one callback at a time, so an action is the code        *)
(* between two awaits.  What a cycle does to the queue is in OutboundQueue *)
(* and what a pull brings in DeltaPull; here a store has at most one write *)
(* to push, and rows once it has a cursor.                                 *)
(***************************************************************************)
EXTENDS Integers, FiniteSets

CONSTANTS
    Stores,
    Opened,     \* the stores this phone has synced before
    MaxOpens,   \* bound: schedulers made; scheduler n is the n-th
    MaxRetries, \* MAX_CONSECUTIVE_RATE_LIMIT_RETRIES
    MaxFaults,  \* bound: outages, refusals and logouts
    Nothing

ASSUME StoreSyncAssumption ==
    Opened \subseteq Stores /\ MaxOpens \in Nat /\ MaxRetries \in Nat
    /\ MaxFaults \in Nat /\ Nothing \notin Stores \cup Nat

Schedulers == 1 .. MaxOpens

VARIABLES
    selected, \* activeStoreStore.storeId
    bound,    \* the storeId the effect of useSyncStoreBinding has run for
    opening,  \* the scheduler of `opening', and of `current'
    current,
    status,   \* useStoreOpenStatus: [store, phase]
    sched,    \* the schedulers: [store, first, job, timer, retry, limits]
    used,     \* schedulers made
    cursor,   \* SQLite: stores with a sync cursor
    write,    \* SQLite: the queued mutation of a store
    session,  \* whether the calls carry a valid session
    net,      \* whether the network is there
    leaving,  \* a logout is between stopSync and clearSession
    faults,
    loose     \* history: schedulers that were stopped while at work

ui == <<selected, bound>>
binding == <<opening, current, status>>
store == <<cursor, write>>
world == <<session, net, leaving, faults>>
vars == <<ui, binding, sched, used, store, world, loose>>

\* A call of the engine: openStoreOnce (first), or what holds `running' (job).
Rest == [kind |-> "none", at |-> "done"]
Does(kind) == [kind |-> kind, at |-> IF kind = "push" THEN "push" ELSE "reset"]
Unused == [store |-> Nothing, first |-> Rest, job |-> Rest, timer |-> FALSE, retry |-> FALSE, limits |-> 0]
Idle == [store |-> Nothing, phase |-> "idle"]

TypeOK ==
    /\ selected \in Stores \cup {Nothing} /\ bound \in Stores \cup {Nothing}
    /\ opening \in Schedulers \cup {Nothing} /\ current \in Schedulers \cup {Nothing}
    /\ status \in [store : Stores \cup {Nothing}, phase : {"idle", "opening", "ready", "error"}]
    /\ \A i \in Schedulers :
          /\ sched[i].store \in Stores \cup {Nothing}
          /\ sched[i].first \in {Rest} \cup [kind : {"first"}, at : {"reset", "dump"}]
          /\ sched[i].job \in {Rest} \cup [kind : {"start", "cycle", "push"},
                                           at : {"reset", "dump", "push", "answer", "pull"}]
          /\ sched[i].timer \in BOOLEAN /\ sched[i].retry \in BOOLEAN
          /\ sched[i].limits \in 0 .. MaxRetries + 1
    /\ used \in 0 .. MaxOpens /\ cursor \subseteq Stores
    /\ write \in [Stores -> {"none", "queued", "sent"}]
    /\ {session, net, leaving} \subseteq BOOLEAN
    /\ faults \in 0 .. MaxFaults /\ loose \subseteq Schedulers

Init ==
    /\ selected = Nothing /\ bound = Nothing /\ opening = Nothing /\ current = Nothing
    /\ status = Idle /\ sched = [i \in Schedulers |-> Unused] /\ used = 0
    /\ cursor = Opened
    /\ write \in {w \in [Stores -> {"none", "sent"}] : \A s \in Stores \ Opened : w[s] = "none"}
    /\ session = TRUE /\ net \in BOOLEAN
    /\ leaving = FALSE /\ faults = 0 /\ loose = {}

Online == net /\ session
Busy(i) == sched[i].first # Rest \/ sched[i].job # Rest
-----------------------------------------------------------------------------
\* SyncScheduler.stop on what stopSync holds: timers go, calls stay.
Stopped(all, these) ==
    [i \in Schedulers |->
        IF i \in these THEN [all[i] EXCEPT !.timer = FALSE, !.retry = FALSE, !.limits = 0] ELSE all[i]]
Held == {opening, current} \ {Nothing}

\* stopSync; then startSyncForStore(s) if there is a store.
Rebind(s) ==
    /\ loose' = loose \cup {i \in Held : Busy(i)}
    /\ current' = Nothing
    /\ IF s = Nothing
       THEN opening' = Nothing /\ status' = Idle /\ sched' = Stopped(sched, Held) /\ UNCHANGED used
       ELSE /\ used < MaxOpens /\ used' = used + 1 /\ opening' = used + 1
            /\ status' = [store |-> s, phase |-> "opening"]
            /\ sched' = [Stopped(sched, Held) EXCEPT ![used + 1].store = s, ![used + 1].first = Does("first")]

\* startSyncForStore does nothing for the store that is open or opening.
Starts(s) == s \notin {sched[i].store : i \in Held} /\ Rebind(s)

\* The user enters a store or goes back to the list; the effect runs with the
\* next rendering, before he can do it again.
Select(s) ==
    /\ session /\ ~leaving /\ selected = bound /\ s # selected /\ selected' = s
    /\ s = Nothing \/ used < MaxOpens
    /\ UNCHANGED <<bound, binding, sched, used, store, world, loose>>

Bind ==
    /\ bound # selected /\ bound' = selected
    /\ Rebind(selected)
    /\ UNCHANGED <<selected, store, world>>

\* The Retry button of StoreOpenGate.
Retry ==
    /\ status.phase = "error" /\ status.store = selected /\ Starts(selected)
    /\ UNCHANGED <<ui, store, world>>

\* logout: stopSync, the flush, the wipe, clearSession.
LogoutStops ==
    /\ session /\ ~leaving /\ faults < MaxFaults /\ faults' = faults + 1
    /\ leaving' = TRUE /\ Rebind(Nothing)
    /\ UNCHANGED <<ui, store, session, net>>

LogoutWipes ==
    /\ leaving /\ leaving' = FALSE /\ session' = FALSE /\ selected' = Nothing
    /\ cursor' = {} /\ write' = [s \in Stores |-> "none"]
    /\ UNCHANGED <<bound, binding, sched, used, net, faults, loose>>

Login ==
    /\ ~session /\ bound = selected /\ session' = TRUE
    /\ UNCHANGED <<ui, binding, sched, used, store, net, leaving, faults, loose>>
-----------------------------------------------------------------------------
\* runExclusive: a call that meets `running' is dropped.
Exclusive(all, i, kind) == IF all[i].job = Rest THEN [all EXCEPT ![i].job = Does(kind)] ELSE all

\* Mutant: the token says nothing about which opening of the store it was.
IsStillOpeningStore(i) == opening # Nothing /\ sched[opening].store = sched[i].store

\* isStillOpening: `opening' is the object of this call, by its generation.
IsStillOpening(i) == opening = i

\* The end of openStoreOnce.
FirstEnds(i, ok) ==
    LET rested == [sched EXCEPT ![i].first = Rest] IN
    IF ~IsStillOpening(i)
    THEN sched' = Stopped(rested, {i}) /\ UNCHANGED binding
    ELSE /\ opening' = Nothing
         /\ IF ok
            THEN /\ current' = i /\ sched' = Exclusive(rested, i, "start")
                 /\ status' = IF status.store = sched[i].store THEN [status EXCEPT !.phase = "ready"] ELSE status
            ELSE /\ sched' = Stopped(rested, {i}) /\ UNCHANGED current
                 /\ status' = IF status.store = sched[i].store THEN [status EXCEPT !.phase = "error"] ELSE status

\* Mutant: start sets no heartbeat.
JobEndsUnbeaten(i, limits, retry) ==
    LET rested == [sched EXCEPT ![i].job = Rest, ![i].limits = limits, ![i].retry = retry]
    IN  /\ sched' = IF sched[i].job.kind = "start" THEN Exclusive(rested, i, "cycle") ELSE rested
        /\ UNCHANGED binding

\* The end of a job.  start goes on with the first tick and the heartbeat,
\* whether its scheduler has been stopped meanwhile or not.
JobEnds(i, limits, retry) ==
    LET rested == [sched EXCEPT ![i].job = Rest, ![i].limits = limits, ![i].retry = retry]
    IN  /\ sched' = IF sched[i].job.kind = "start"
                    THEN [Exclusive(rested, i, "cycle") EXCEPT ![i].timer = TRUE] ELSE rested
        /\ UNCHANGED binding

Ends(i, f) == IF f = "first" THEN FirstEnds(i, TRUE) ELSE JobEnds(i, 0, sched[i].retry)
Goes(i, f, at) == sched' = [sched EXCEPT ![i][f].at = at] /\ UNCHANGED binding
At(i, f, at) == sched[i][f].at = at

\* openStore: resetOrphanedInflight, then a cold start unless there is a cursor.
OpenResets(i, f) ==
    /\ At(i, f, "reset") /\ Goes(i, f, "dump")
    /\ write' = [write EXCEPT ![sched[i].store] = IF @ = "sent" THEN "queued" ELSE @]
    /\ UNCHANGED <<ui, used, cursor, world, loose>>

OpenDumps(i, f) ==
    /\ At(i, f, "dump") /\ (sched[i].store \in cursor \/ Online)
    /\ cursor' = cursor \cup {sched[i].store}
    /\ IF sched[i][f].kind = "cycle" THEN Goes(i, f, "push") ELSE Ends(i, f)
    /\ UNCHANGED <<ui, used, write, world, loose>>

\* drainQueueFully: batches are taken and sent until there is nothing to take.
PushTakes(i) ==
    /\ At(i, "job", "push") /\ write[sched[i].store] = "queued"
    /\ write' = [write EXCEPT ![sched[i].store] = "sent"]
    /\ Goes(i, "job", "answer")
    /\ UNCHANGED <<ui, used, cursor, world, loose>>

PushEnds(i) ==
    /\ At(i, "job", "push") /\ write[sched[i].store] # "queued"
    /\ IF sched[i].job.kind = "cycle" THEN Goes(i, "job", "pull") ELSE Ends(i, "job")
    /\ UNCHANGED <<ui, used, store, world, loose>>

PushAnswered(i) ==
    /\ At(i, "job", "answer") /\ Online /\ Goes(i, "job", "push")
    /\ write' = [write EXCEPT ![sched[i].store] = "none"]
    /\ UNCHANGED <<ui, used, cursor, world, loose>>

\* pullDeltaToCompletion: the last page stores the cursor.
Pulls(i) ==
    /\ At(i, "job", "pull") /\ Online /\ sched[i].store \in cursor
    /\ Ends(i, "job")
    /\ UNCHANGED <<ui, used, store, world, loose>>

Calling(i, f) ==
    \/ At(i, f, "dump") /\ sched[i].store \notin cursor
    \/ sched[i][f].at \in {"answer", "pull"}

\* No network, no session, or a pull without a cursor; or the server refuses.
Fails(i, f) ==
    /\ Calling(i, f)
    /\ \/ UNCHANGED faults /\ (~Online \/ (At(i, f, "pull") /\ sched[i].store \notin cursor))
       \/ Online /\ faults < MaxFaults /\ faults' = faults + 1
    /\ write' = IF At(i, f, "answer") /\ write[sched[i].store] = "sent"
                THEN [write EXCEPT ![sched[i].store] = "queued"] ELSE write
    /\ IF f = "first" THEN FirstEnds(i, FALSE) ELSE JobEnds(i, 0, sched[i].retry)
    /\ UNCHANGED <<ui, used, cursor, session, net, leaving, loose>>

\* 429: the scheduler sets a timer of its own, a few times in a row; openStoreOnce
\* reports it like any error.
RateLimited(i) ==
    /\ Calling(i, "job") /\ Online /\ faults < MaxFaults /\ faults' = faults + 1
    /\ write' = IF At(i, "job", "answer") /\ write[sched[i].store] = "sent"
                THEN [write EXCEPT ![sched[i].store] = "queued"] ELSE write
    /\ JobEnds(i, IF sched[i].limits > MaxRetries THEN sched[i].limits ELSE sched[i].limits + 1,
               sched[i].retry \/ sched[i].limits < MaxRetries)
    /\ UNCHANGED <<ui, used, cursor, session, net, leaving, loose>>
-----------------------------------------------------------------------------
\* The heartbeat and the timer of a retry.
TimerFires(i) ==
    /\ sched[i].timer /\ sched[i].job = Rest
    /\ sched' = Exclusive(sched, i, "cycle")
    /\ UNCHANGED <<ui, binding, used, store, world, loose>>

RetryFires(i) ==
    /\ sched[i].retry
    /\ sched' = Exclusive([sched EXCEPT ![i].retry = FALSE], i, "cycle")
    /\ UNCHANGED <<ui, binding, used, store, world, loose>>

\* handleReconnectOrForeground, on a reconnect and when the app comes back: an open that failed is tried again, or the open
\* store gets a cycle.
Wake ==
    IF current = Nothing /\ opening = Nothing /\ status.phase = "error" /\ used < MaxOpens
    THEN Rebind(status.store)
    ELSE /\ sched' = IF current = Nothing THEN sched ELSE Exclusive(sched, current, "cycle")
         /\ UNCHANGED <<binding, used, loose>>

NetLost ==
    /\ net /\ net' = FALSE
    /\ faults < MaxFaults /\ faults' = faults + 1
    /\ UNCHANGED <<ui, binding, sched, used, store, session, leaving, loose>>

NetBack ==
    /\ ~net /\ net' = TRUE /\ Wake
    /\ UNCHANGED <<ui, store, session, leaving, faults>>

Foreground ==
    /\ Wake
    /\ UNCHANGED <<ui, store, world>>

Background ==
    /\ current # Nothing /\ sched' = Exclusive(sched, current, "push")
    /\ UNCHANGED <<ui, binding, used, store, world, loose>>

\* A screen of the store, mounted once the store is ready, enqueues a write and
\* asks for a cycle (requestImmediateSync).
Mounted == selected # Nothing /\ status.store = selected /\ status.phase = "ready"

Enqueue ==
    /\ Mounted /\ write[selected] = "none"
    /\ write' = [write EXCEPT ![selected] = "queued"]
    /\ sched' = IF current = Nothing THEN sched ELSE Exclusive(sched, current, "cycle")
    /\ UNCHANGED <<ui, binding, used, cursor, world, loose>>

CallStep(i, f) == OpenResets(i, f) \/ OpenDumps(i, f) \/ Fails(i, f)
JobStep(i) == CallStep(i, "job") \/ PushTakes(i) \/ PushEnds(i) \/ PushAnswered(i) \/ Pulls(i) \/ RateLimited(i)

Next ==
    \/ \E s \in Stores \cup {Nothing} : Select(s)
    \/ Bind \/ Retry \/ LogoutStops \/ LogoutWipes \/ Login
    \/ NetLost \/ NetBack \/ Foreground \/ Background \/ Enqueue
    \/ \E i \in Schedulers : CallStep(i, "first") \/ JobStep(i) \/ TimerFires(i) \/ RetryFires(i)

Spec == Init /\ [][Next]_vars

\* Promises are resolved and timers fire; a heartbeat that meets a running job
\* is dropped, but not every one can.  The network and the user come back, and
\* the user who sees the Retry button presses it.
FairSpec ==
    /\ Spec /\ WF_vars(Bind) /\ WF_vars(Retry) /\ WF_vars(LogoutWipes)
    /\ WF_vars(NetBack)
    /\ \A i \in Schedulers :
          WF_vars(CallStep(i, "first")) /\ WF_vars(JobStep(i)) /\ SF_vars(TimerFires(i)) /\ WF_vars(RetryFires(i))
-----------------------------------------------------------------------------
\* The last choice wins: however slow opens end after the user has moved on,
\* what is opening or open is the store he is in, and one of the two at most.
LastChoiceWins ==
    /\ opening = Nothing \/ current = Nothing
    /\ \A i \in Held : sched[i].store = bound

\* The gate tells the truth: `ready' is shown with the scheduler of that store
\* in place, `opening' with an open under way, and an error with neither.
GateIsTrue ==
    CASE status.phase = "ready" -> current # Nothing /\ sched[current].store = status.store
      [] status.phase = "opening" -> opening # Nothing /\ sched[opening].first # Rest
      [] OTHER -> Held = {}

\* No screen queries a store before its cold start is over (INV-5), nor after
\* its rows have been wiped.
MountedHasRows == Mounted => selected \in cursor

\* One scheduler makes one call of the engine at a time, and one that has been
\* stopped at rest makes none: only what it was awaiting outlives a stop.
OneCallEach ==
    \A i \in Schedulers :
        /\ sched[i].first = Rest \/ sched[i].job = Rest
        /\ i \notin Held \cup loose => ~Busy(i) /\ ~sched[i].timer /\ ~sched[i].retry

\* The types, and who syncs what, as shown to the user.
Inv == TypeOK /\ LastChoiceWins /\ GateIsTrue /\ MountedHasRows /\ OneCallEach

Pending == current # Nothing /\ write[sched[current].store] # "none"

\* A store that is entered gets open, whatever fails on the way, unless the
\* user moves on (or the bound on schedulers is met); and while a store is
\* open, what is queued there gets to the server.
OpensAndPushes ==
    /\ (bound # Nothing) ~>
          (selected # bound \/ Mounted \/ leaving \/ (status.phase = "error" /\ used = MaxOpens))
    /\ Pending ~> ~Pending
=============================================================================
