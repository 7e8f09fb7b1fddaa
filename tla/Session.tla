------------------------------ MODULE Session ------------------------------
(***************************************************************************)
(* The session of one device: refresh token rotation behind its            *)
(* idempotency records in Redis, the phone's single-flight refresh, and    *)
(* the guard that lets access tokens in through the blacklist and the      *)
(* session cache, next to a logout or a remote revocation.                 *)
(*                                                                         *)
(* Refresh token n and access token (jti) n are issued together; 1 is the  *)
(* pair of the login.  Times are ages and times to live in a unit: Tick    *)
(* passes one.  Only refresh calls run longer than a unit.                 *)
(***************************************************************************)
EXTENDS Integers, FiniteSets

CONSTANTS
    Calls,       \* bound: POST /refresh calls running at once
    Guards,      \* bound: requests being authenticated at once
    MaxToken,    \* bound: token pairs issued
    PendingTtl,  \* PENDING_TTL_SECONDS
    DoneTtl,     \* REFRESH_IDEM_DONE_TTL_SECONDS, CACHED_RECOVERY_WINDOW_MS
    Grace,       \* REUSE_GRACE_MS
    CacheTtl,    \* SESSION_CACHE_TTL_SECONDS
    MaxCall,     \* bound: how long a refresh call can run
    Faults,      \* what may go wrong: "lost", "crash", "redis"
    MaxFaults,   \* bound: how often
    NoOne        \* the phone waits for no call

ASSUME SessionAssumption ==
    /\ MaxToken \in Nat \ {0} /\ MaxFaults \in Nat
    /\ PendingTtl \in Nat \ {0} /\ PendingTtl < Grace /\ Grace < DoneTtl
    /\ Grace \in Nat /\ DoneTtl \in Nat /\ CacheTtl \in Nat /\ MaxCall \in Nat
    /\ MaxCall < CacheTtl

VARIABLES
    issued,   \* number of token pairs issued
    used,     \* age of used_at, up to DoneTtl + 1; -1: unused
    dead,     \* refresh tokens revoked
    session,  \* device_sessions: [revoked, jti]
    idem,     \* per token, its record in Redis: [status, ttl, pair]
    black,    \* access tokens blacklisted
    cached,   \* the session in Redis: [row, ttl], ttl 0: none
    tomb,     \* time to live of its tombstone
    calls,    \* refresh calls: [pc, ans, tok, pair, jti, age]
    guards,   \* requests: [pc, jti, row, closed]
    revoker,  \* logout or remote revocation: [pc, jti]
    phone,    \* the app: [pc, tok, call]
    closed,   \* history: access tokens a finished logout or rotation has ended
    missing,  \* history: used tokens without a done record within half the grace
    wronged,  \* history: a session revoked for reuse although the phone was right
    torn,     \* history: an invalidation of the cache has failed, or has let a
              \* fill in between its two commands
    faults

tokens == <<issued, used, dead, session>>
redis == <<idem, cached, tomb>>
history == <<closed, missing, wronged, torn>>
vars == <<tokens, redis, black, calls, guards, revoker, phone, history, faults>>

Pairs == 1 .. MaxToken
Row == [revoked |-> session.revoked # "no", jti |-> session.jti]
NoRow == [revoked |-> FALSE, jti |-> 0]
NoRecord == [status |-> "none", ttl |-> 0, pair |-> 0]
Free == [pc |-> "free", ans |-> "ok", tok |-> 1, pair |-> 0, jti |-> 0, age |-> 0]
Asleep == [pc |-> "idle", jti |-> 1, row |-> NoRow, closed |-> FALSE]

Rows == [revoked : BOOLEAN, jti : 0 .. MaxToken]
Answers == {"ok", "retry", "fatal", "error"}
CallSteps == {"free", "claim", "poll", "cached", "find", "reuse", "commit", "black", "del", "tomb", "complete", "release", "delete", "answer"}

TypeOK ==
    /\ issued \in Pairs
    /\ used \in [Pairs -> -1 .. DoneTtl + 1] /\ dead \subseteq Pairs
    /\ session \in [revoked : {"no", "logout", "reuse"}, jti : Pairs]
    /\ idem \in [Pairs -> [status : {"none", "pending", "done"}, ttl : 0 .. DoneTtl, pair : 0 .. MaxToken]]
    /\ black \subseteq Pairs /\ closed \subseteq Pairs /\ missing \subseteq Pairs
    /\ cached \in [row : Rows, ttl : 0 .. CacheTtl] /\ tomb \in 0 .. CacheTtl
    /\ \A c \in Calls : calls[c].pair # 0 => calls[c].pair <= issued /\ calls[c].tok < calls[c].pair
    /\ phone.tok <= issued /\ session.jti <= issued /\ wronged \in BOOLEAN /\ torn \in BOOLEAN

Init ==
    /\ issued = 1 /\ used = [t \in Pairs |-> -1] /\ dead = {}
    /\ session = [revoked |-> "no", jti |-> 1]
    /\ idem = [t \in Pairs |-> NoRecord] /\ black = {}
    /\ cached = [row |-> NoRow, ttl |-> 0] /\ tomb = 0
    /\ calls = [c \in Calls |-> Free] /\ guards = [g \in Guards |-> Asleep]
    /\ revoker = [pc |-> "idle", jti |-> 0]
    /\ phone = [pc |-> "idle", tok |-> 1, call |-> NoOne]
    /\ closed = {} /\ missing = {} /\ wronged = FALSE /\ torn = FALSE /\ faults = 0

Fault(kind) == kind \in Faults /\ faults < MaxFaults /\ faults' = faults + 1
At(c, pc) == calls[c].pc = pc
Goes(c, pc) == calls' = [calls EXCEPT ![c].pc = pc]
Ends(c, pc, what) ==
    calls' = [calls EXCEPT ![c] = [pc |-> pc, ans |-> what, tok |-> @.tok, jti |-> 0, age |-> @.age,
                                   pair |-> IF what = "ok" THEN @.pair ELSE 0]]
Answer(c, what) == Ends(c, "answer", what)
Release(c, what) == Ends(c, "release", what)
-----------------------------------------------------------------------------
\* Time.  Ages stop counting at the end of the recovery window.
Older(t) == IF used[t] = -1 \/ used[t] > DoneTtl THEN used[t] ELSE used[t] + 1
Less(n) == IF n = 0 THEN 0 ELSE n - 1

\* Mutant: SET NX without EX, a pending claim lives until it is released.
AgedOnlyDone(r) == IF r.status = "pending" THEN r ELSE IF r.ttl <= 1 THEN NoRecord ELSE [r EXCEPT !.ttl = @ - 1]
Aged(r) == IF r.ttl <= 1 THEN NoRecord ELSE [r EXCEPT !.ttl = @ - 1]

Tick ==
    /\ \A c \in Calls : calls[c].pc # "free" => calls[c].age < MaxCall
    /\ \A g \in Guards : guards[g].pc = "idle"
    /\ revoker.pc \in {"idle", "done"}
    /\ used' = [t \in Pairs |-> Older(t)]
    /\ idem' = [t \in Pairs |-> Aged(idem[t])]
    /\ cached' = [row |-> IF cached.ttl <= 1 THEN NoRow ELSE cached.row, ttl |-> Less(cached.ttl)]
    /\ tomb' = Less(tomb)
    /\ calls' = [c \in Calls |-> IF calls[c].pc = "free" THEN Free ELSE [calls[c] EXCEPT !.age = @ + 1]]
    /\ UNCHANGED <<issued, dead, session, black, guards, revoker, phone, history, faults>>
-----------------------------------------------------------------------------
\* The phone.

\* runRefresh: the challenge first; what it refuses for good ends the session
\* on the phone.  A token used longer ago than the recovery window is refused.
Refused(t) == used[t] > DoneTtl \/ t \in dead \/ session.revoked # "no"

Challenge ==
    /\ phone.pc = "idle" /\ (phone.tok < MaxToken \/ Refused(phone.tok))
    /\ phone' = [phone EXCEPT !.pc = IF Refused(phone.tok) THEN "out" ELSE "post"]
    /\ UNCHANGED <<tokens, redis, black, calls, guards, revoker, history, faults>>

\* POST /refresh with the stored token.
Post(c) ==
    /\ phone.pc = "post" /\ At(c, "free")
    /\ phone' = [phone EXCEPT !.pc = "wait", !.call = c]
    /\ calls' = [calls EXCEPT ![c] = [Free EXCEPT !.pc = "claim", !.tok = phone.tok]]
    /\ UNCHANGED <<tokens, redis, black, guards, revoker, history, faults>>

\* The call times out or the app dies before saveTokens; the server goes on.
GiveUp ==
    /\ phone.pc = "wait" /\ Fault("lost")
    /\ phone' = [phone EXCEPT !.pc = "idle", !.call = NoOne]
    /\ UNCHANGED <<tokens, redis, black, calls, guards, revoker, history>>

\* What the phone makes of an answer: a new pair, the bounded retry of
\* REFRESH_IN_PROGRESS, the end of the session, or keep it and try later.
AfterAnswer(what, pair) ==
    CASE what = "ok" -> [pc |-> "idle", tok |-> pair, call |-> NoOne]
      [] what = "fatal" -> [phone EXCEPT !.pc = "out", !.call = NoOne]
      [] OTHER -> [phone EXCEPT !.pc = "idle", !.call = NoOne]

Deliver(c) ==
    /\ At(c, "answer")
    /\ phone' = IF phone.call = c THEN AfterAnswer(calls[c].ans, calls[c].pair) ELSE phone
    /\ calls' = [calls EXCEPT ![c] = Free]
    /\ UNCHANGED <<tokens, redis, black, guards, revoker, history, faults>>

\* postRotationWithRetry: the same token again, without a new challenge.
RetryInProgress(c) ==
    /\ At(c, "answer") /\ calls[c].ans = "retry" /\ phone.call = c
    /\ phone' = [phone EXCEPT !.pc = "post", !.call = NoOne]
    /\ calls' = [calls EXCEPT ![c] = Free]
    /\ UNCHANGED <<tokens, redis, black, guards, revoker, history, faults>>
-----------------------------------------------------------------------------
\* POST /refresh on the server: RefreshIdempotencyService around the rotation.

Record(c) == idem[calls[c].tok]

Claimable(c) == Record(c).status = "none"

\* SET NX: leader.
ClaimLeads(c) ==
    /\ calls[c].pc \in {"claim", "poll"} /\ Claimable(c)
    /\ idem' = [idem EXCEPT ![calls[c].tok] = [status |-> "pending", ttl |-> PendingTtl, pair |-> 0]]
    /\ Goes(c, "find")
    /\ UNCHANGED <<tokens, cached, tomb, black, guards, revoker, phone, history, faults>>

\* Lost to a pending claim: poll.
ClaimWaits(c) ==
    /\ At(c, "claim") /\ Record(c).status = "pending" /\ Goes(c, "poll")
    /\ UNCHANGED <<tokens, redis, black, guards, revoker, phone, history, faults>>

\* Still pending at the end of the poll: a retryable signal, never a rotation.
PollTimesOut(c) ==
    /\ At(c, "poll") /\ Record(c).status = "pending" /\ Answer(c, "retry")
    /\ UNCHANGED <<tokens, redis, black, guards, revoker, phone, history, faults>>

\* A done record: the cached pair, behind the session check and device proof.
ClaimCached(c) ==
    /\ calls[c].pc \in {"claim", "poll"} /\ Record(c).status = "done"
    /\ calls' = [calls EXCEPT ![c] = [@ EXCEPT !.pc = "cached", !.pair = Record(c).pair]]
    /\ UNCHANGED <<tokens, redis, black, guards, revoker, phone, history, faults>>

AnswerCached(c) ==
    /\ At(c, "cached")
    /\ Answer(c, IF session.revoked # "no" THEN "fatal" ELSE "ok")
    /\ UNCHANGED <<tokens, redis, black, guards, revoker, phone, history, faults>>

\* The device proof fails: its challenge has expired or was consumed.
ProofFails(c) ==
    /\ calls[c].pc \in {"cached", "commit"} /\ Fault("lost")
    /\ Ends(c, IF At(c, "cached") THEN "answer" ELSE "release", "error")
    /\ UNCHANGED <<tokens, redis, black, guards, revoker, phone, history>>

\* used_at is younger than REUSE_GRACE_MS: a concurrent duplicate, not a replay.
Recent(t) == used[t] < Grace

\* A revocation for reuse hits the phone although it still holds the token,
\* is within the recovery window, and the call took less than half the grace.
Wronged(c) == LET t == calls[c].tok
              IN  phone.tok = t /\ used[t] < DoneTtl /\ t \notin missing /\ 2 * calls[c].age < Grace

EndsSession(c) ==
    /\ session' = [session EXCEPT !.revoked = "reuse"]
    /\ wronged' = (wronged \/ Wronged(c))

\* performRotation: assertTokenUsable, on rows read in one query.
FindUsable(c) ==
    LET t == calls[c].tok
    IN  /\ At(c, "find") /\ used[t] = -1 /\ t \notin dead /\ session.revoked = "no"
        /\ calls' = [calls EXCEPT ![c] = [@ EXCEPT !.pc = "commit", !.jti = session.jti]]
        /\ UNCHANGED <<tokens, redis, black, guards, revoker, phone, history, faults>>

FindRevoked(c) ==
    /\ At(c, "find") /\ used[calls[c].tok] = -1 /\ (calls[c].tok \in dead \/ session.revoked # "no")
    /\ Release(c, "fatal")
    /\ UNCHANGED <<tokens, redis, black, guards, revoker, phone, history, faults>>

FindRecent(c) ==
    /\ At(c, "find") /\ used[calls[c].tok] # -1 /\ Recent(calls[c].tok)
    /\ Release(c, "retry")
    /\ UNCHANGED <<tokens, redis, black, guards, revoker, phone, history, faults>>

\* Reuse: the family, then the session, in two statements; the teardown of
\* blacklist and cache follows.
FindReused(c) ==
    /\ At(c, "find") /\ used[calls[c].tok] # -1 /\ ~Recent(calls[c].tok)
    /\ dead' = 1 .. issued
    /\ calls' = [calls EXCEPT ![c] = [@ EXCEPT !.pc = "reuse", !.jti = session.jti]]
    /\ UNCHANGED <<issued, used, session, redis, black, guards, revoker, phone, history, faults>>

ReuseEndsSession(c) ==
    /\ At(c, "reuse") /\ EndsSession(c) /\ Goes(c, "black")
    /\ UNCHANGED <<issued, used, dead, redis, black, guards, revoker, phone, closed, missing, torn, faults>>

Unused(t) == used[t] = -1

\* commitRotation: markUsed, the successor, current_jti, in one transaction.
Rotate(c) ==
    LET t == calls[c].tok
    IN  /\ At(c, "commit") /\ Unused(t) /\ issued < MaxToken
        /\ issued' = issued + 1 /\ used' = [used EXCEPT ![t] = 0]
        /\ session' = [session EXCEPT !.jti = issued + 1]
        /\ calls' = [calls EXCEPT ![c] = [@ EXCEPT !.pc = "black", !.pair = issued + 1]]
        /\ missing' = missing \cup {t}
        /\ UNCHANGED <<dead, redis, black, guards, revoker, phone, closed, wronged, torn, faults>>

\* The compare-and-set is lost to a rotation of a moment ago, or of long ago.
LostRecent(c) ==
    /\ At(c, "commit") /\ ~Unused(calls[c].tok) /\ Recent(calls[c].tok)
    /\ Release(c, "retry")
    /\ UNCHANGED <<tokens, redis, black, guards, revoker, phone, history, faults>>

LostLongAgo(c) ==
    /\ At(c, "commit") /\ ~Unused(calls[c].tok) /\ ~Recent(calls[c].tok)
    /\ dead' = 1 .. issued /\ EndsSession(c) /\ Goes(c, "black")
    /\ UNCHANGED <<issued, used, redis, black, guards, revoker, phone, closed, missing, torn, faults>>

\* emitBestEffortSideEffects and emitReuseSideEffects: blacklist the access
\* token read with the session, then invalidate: DEL and SETEX of the
\* tombstone are two commands.
Blacklist(c) ==
    /\ At(c, "black") /\ black' = black \cup {calls[c].jti} /\ Goes(c, "del")
    /\ UNCHANGED <<tokens, redis, guards, revoker, phone, history, faults>>

DropCache(c) ==
    /\ At(c, "del") /\ cached' = [row |-> NoRow, ttl |-> 0] /\ Goes(c, "tomb")
    /\ UNCHANGED <<tokens, idem, tomb, black, guards, revoker, phone, history, faults>>

\* A rotation goes on to its answer, a reuse to its refusal.
Invalidated(c) == IF calls[c].pair = 0 THEN Release(c, "fatal") ELSE Goes(c, "complete")

Entomb(c) ==
    /\ At(c, "tomb") /\ tomb' = CacheTtl /\ Invalidated(c)
    /\ UNCHANGED <<tokens, idem, cached, black, guards, revoker, phone, history, faults>>

\* A failing side effect is logged and the call goes on.
SideEffectFails(c) ==
    /\ calls[c].pc \in {"del", "tomb"} /\ Fault("redis") /\ Invalidated(c) /\ torn' = TRUE
    /\ UNCHANGED <<tokens, redis, black, guards, revoker, phone, closed, missing, wronged>>

\* Mutant: the record keeps the short life of a pending claim.
DoneLifePending == PendingTtl
DoneLife == DoneTtl

Complete(c) ==
    LET t == calls[c].tok
    IN  /\ At(c, "complete")
        /\ idem' = [idem EXCEPT ![t] = [status |-> "done", ttl |-> DoneLife, pair |-> calls[c].pair]]
        /\ missing' = (IF 2 * used[t] < Grace THEN missing \ {t} ELSE missing) /\ closed' = closed \cup {calls[c].jti}
        /\ Answer(c, "ok")
        /\ UNCHANGED <<tokens, cached, tomb, black, guards, revoker, phone, wronged, torn, faults>>

\* Redis is away: the committed rotation ends as an error.
CompleteFails(c) ==
    /\ At(c, "complete") /\ Fault("redis")
    /\ Release(c, "error")
    /\ UNCHANGED <<tokens, redis, black, guards, revoker, phone, history>>

\* release: a GET, and a DEL when the record read was pending, whose ever.
ReleaseReads(c) ==
    /\ At(c, "release") /\ Goes(c, IF Record(c).status = "pending" THEN "delete" ELSE "answer")
    /\ UNCHANGED <<tokens, redis, black, guards, revoker, phone, history, faults>>

ReleaseDeletes(c) ==
    LET t == calls[c].tok
    IN  /\ At(c, "delete") /\ Goes(c, "answer")
        /\ missing' = IF idem[t].status = "done" THEN missing \cup {t} ELSE missing
        /\ idem' = [idem EXCEPT ![t] = NoRecord]
        /\ UNCHANGED <<tokens, cached, tomb, black, guards, revoker, phone, closed, wronged, torn, faults>>

\* The process of a call ends.
ServerCrash(c) ==
    /\ calls[c].pc # "free" /\ Fault("crash")
    /\ calls' = [calls EXCEPT ![c] = Free]
    /\ phone' = IF phone.call = c THEN AfterAnswer("error", 0) ELSE phone
    /\ UNCHANGED <<tokens, redis, black, guards, revoker, history>>
-----------------------------------------------------------------------------
\* MobileJwtGuard.  A request carries the access token of a pair the phone
\* has; isBlacklisted comes first, and what it refuses leaves no trace.
GuardStart(g, j) ==
    /\ guards[g].pc = "idle" /\ j <= phone.tok /\ j \notin black
    /\ guards' = [guards EXCEPT ![g] = [pc |-> "cache", jti |-> j, row |-> NoRow, closed |-> j \in closed]]
    /\ UNCHANGED <<tokens, redis, black, calls, revoker, phone, history, faults>>

GuardTo(g, pc, row) == guards' = [guards EXCEPT ![g] = [@ EXCEPT !.pc = pc, !.row = row]]
Refuses(g) == guards' = [guards EXCEPT ![g] = Asleep]

\* Revoked, or replaced by a newer token: refused.
GuardDecides(g, row) ==
    IF row.revoked \/ row.jti # guards[g].jti THEN Refuses(g)
    ELSE guards' = [guards EXCEPT ![g] = [Asleep EXCEPT !.pc = "accepted", !.closed = guards[g].closed]]

\* loadSession: the cache, else the row.
GuardCache(g) ==
    /\ guards[g].pc = "cache"
    /\ IF cached.ttl > 0 THEN GuardDecides(g, cached.row) ELSE GuardTo(g, "load", NoRow)
    /\ UNCHANGED <<tokens, redis, black, calls, revoker, phone, history, faults>>

GuardLoad(g) ==
    /\ guards[g].pc = "load" /\ GuardTo(g, "fill", Row)
    /\ UNCHANGED <<tokens, redis, black, calls, revoker, phone, history, faults>>

\* Mutant: the cache is filled without a look at the tombstone.
MayFillAlways == TRUE
MayFill == tomb = 0

\* A cache has been dropped whose tombstone is not there yet.
InGap == tomb = 0 /\ (revoker.pc = "tomb" \/ \E c \in Calls : At(c, "tomb"))

\* fillIfNotTombstoned, atomic in Redis.
GuardFill(g) ==
    /\ guards[g].pc = "fill" /\ GuardDecides(g, guards[g].row)
    /\ cached' = IF MayFill THEN [row |-> guards[g].row, ttl |-> CacheTtl] ELSE cached
    /\ torn' = (torn \/ InGap)
    /\ UNCHANGED <<tokens, idem, tomb, black, calls, revoker, phone, closed, missing, wronged, faults>>

GuardEnd(g) ==
    /\ guards[g].pc = "accepted" /\ guards' = [guards EXCEPT ![g] = Asleep]
    /\ UNCHANGED <<tokens, redis, black, calls, revoker, phone, history, faults>>
-----------------------------------------------------------------------------
\* revokeSession from another device: the target is read before the
\* transaction.  A logout by the session itself is the case in which nothing
\* comes between the two.
RevokeReads ==
    /\ revoker.pc = "idle" /\ session.revoked = "no"
    /\ revoker' = [pc |-> "commit", jti |-> session.jti]
    /\ UNCHANGED <<tokens, redis, black, calls, guards, phone, history, faults>>

RevokeCommits ==
    /\ revoker.pc = "commit"
    /\ black' = black \cup {revoker.jti}
    /\ session' = [session EXCEPT !.revoked = "logout"]
    /\ dead' = 1 .. issued
    /\ revoker' = [pc |-> "del", jti |-> 0]
    /\ UNCHANGED <<issued, used, redis, calls, guards, phone, history, faults>>

RevokeDropsCache ==
    /\ revoker.pc = "del" /\ revoker' = [revoker EXCEPT !.pc = "tomb"]
    /\ cached' = [row |-> NoRow, ttl |-> 0]
    /\ UNCHANGED <<tokens, idem, tomb, black, calls, guards, phone, history, faults>>

\* The revocation answers: from here the current token of the session and
\* the blacklisted ones may not pass (one that a rotation has superseded and
\* not blacklisted yet, or never because it crashed, is not counted).
RevokeEntombs ==
    /\ revoker.pc = "tomb" /\ revoker' = [revoker EXCEPT !.pc = "done"]
    /\ tomb' = CacheTtl
    /\ closed' = closed \cup black \cup {session.jti}
    /\ UNCHANGED <<tokens, idem, cached, black, calls, guards, phone, missing, wronged, torn, faults>>

CallStep(c) ==
    \/ ClaimLeads(c) \/ ClaimWaits(c) \/ PollTimesOut(c) \/ ClaimCached(c) \/ AnswerCached(c)
    \/ FindUsable(c) \/ FindRevoked(c) \/ FindRecent(c) \/ FindReused(c) \/ ReuseEndsSession(c)
    \/ Rotate(c) \/ LostRecent(c) \/ LostLongAgo(c)
    \/ Blacklist(c) \/ DropCache(c) \/ Entomb(c) \/ Complete(c)
    \/ ReleaseReads(c) \/ ReleaseDeletes(c) \/ Deliver(c)

PhoneStep == Challenge \/ (\E c \in Calls : Post(c))

GuardStep(g) == GuardCache(g) \/ GuardLoad(g) \/ GuardFill(g) \/ GuardEnd(g)

RevokeStep == RevokeCommits \/ RevokeDropsCache \/ RevokeEntombs

Next ==
    \/ Tick \/ PhoneStep \/ GiveUp \/ RevokeReads \/ RevokeStep
    \/ \E c \in Calls : CallStep(c) \/ RetryInProgress(c) \/ ProofFails(c) \/ SideEffectFails(c)
                        \/ CompleteFails(c) \/ ServerCrash(c)
    \/ \E g \in Guards : GuardStep(g) \/ (\E j \in Pairs : GuardStart(g, j))

Spec == Init /\ [][Next]_vars

\* Time passes, requests and calls run on, the app refreshes again and again.
FairSpec ==
    /\ Spec /\ SF_vars(Tick) /\ WF_vars(PhoneStep) /\ WF_vars(RevokeStep)
    /\ \A c \in Calls : WF_vars(CallStep(c))
    /\ \A g \in Guards : WF_vars(GuardStep(g))
-----------------------------------------------------------------------------
\* Reuse detection never hits a phone that retries within the recovery window:
\* timeouts, lost answers and slow leaders end in the cached pair or in a
\* retryable signal, unless the done record itself was lost.
HonestKeepsSession == ~wronged

\* What SessionCacheInvalidatorService promises of its tombstone: no fill
\* resurrects a row, torn invalidation or not.
RefusedAtOnce == \A g \in Guards : guards[g].pc = "accepted" => ~guards[g].closed

\* Once a logout, a revocation or a rotation has answered, a request that
\* starts later with an access token it ended is refused, whatever stale
\* rows other requests put into the cache, unless an invalidation was torn
\* (the cache then heals by its time to live).
ClosedIsRefused == torn \/ RefusedAtOnce

\* The types, and no ended session comes back: what every step of the caches
\* and the rotation has to keep.
Inv == TypeOK /\ ClosedIsRefused

\* A phone that keeps refreshing gets a new pair or learns that it is out: no
\* pending claim, crash or lost answer blocks it for ever.
Recovers ==
    \A t \in Pairs \ {MaxToken} : (phone.tok = t) ~> (phone.tok # t \/ phone.pc = "out")
=============================================================================
