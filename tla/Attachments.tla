---------------------------- MODULE Attachments ----------------------------
(***************************************************************************)
(* The photos of one record, from the phone's uploader through the two     *)
(* phases of the file service (stage, commit) to the rows and the objects  *)
(* the server keeps, next to the sweeper of expired temporary files, the   *)
(* reaper of files without a parent, and a user who deletes and restores.  *)
(* Storage has no transactions: rows and objects change in separate steps, *)
(* and the server, the phone or the network may fail between any two.      *)
(***************************************************************************)
EXTENDS Integers, FiniteSets

CONSTANTS
    Photos,    \* what the phone has taken for the record; all bytes differ
    Workers,   \* uploads at work at once (MAX_CONCURRENT), of old uploaders too
    Temps,     \* bound: temporary files staged
    Commits,   \* bound: commit calls; also the keys of the copies they make
    MaxCount,  \* max_attachments_allowed of the record
    MaxTries,  \* MAX_UPLOAD_ATTEMPTS
    MaxDefers, \* MAX_DEFER_ATTEMPTS
    Faults,    \* what may fail: lost, storage, server, phone, reopen, gate
    MaxFaults, \* bound: failures in a behaviour
    NoOne

ASSUME AttachmentAssumption ==
    /\ MaxCount \in Nat /\ MaxTries \in Nat /\ MaxDefers \in Nat /\ MaxFaults \in Nat
    /\ IsFiniteSet(Commits) /\ Temps \cap Commits = {}
    /\ NoOne \notin Photos \cup Workers \cup Temps \cup Commits

VARIABLES
    create,    \* the record's create mutation on the phone
    parent,    \* the record on the server: none, live or dead
    att,       \* per photo: [status, temp, tries, defers, original]
    up,        \* per worker: [at, photo, temp, tries, defers, call, old]
    recovered, \* the uploader has run resetInFlight
    temps,     \* temporary_files: [row, photo, claim, expired, stale]
    req,       \* per commit call: [at, photo, temp, code]
    rows,      \* per commit call: the files row it inserted
    bytes,     \* the object store: temporary files and copies
    sweep,     \* candidates the sweeper has selected
    orphan,    \* the row whose object the reaper has deleted
    faults

phone  == <<att, up, recovered>>
server == <<temps, req, rows, bytes, sweep, orphan>>
vars   == <<create, parent, phone, server, faults>>

Statuses == {"pending_upload", "staging", "staged", "committing",
             "committed", "failed", "blocked", "orphaned"}
Codes == {"ok", "parent", "expired", "subscription", "transient", "fatal"}

Idle   == [at |-> "idle", photo |-> NoOne, temp |-> NoOne, tries |-> 0,
           defers |-> 0, call |-> NoOne, old |-> FALSE]
Unused == [row |-> "none", photo |-> NoOne, claim |-> NoOne, expired |-> FALSE, stale |-> FALSE]
Gone(row) == [row EXCEPT !.row = "gone", !.claim = NoOne, !.stale = FALSE]
Unsent == [at |-> "unsent", photo |-> NoOne, temp |-> NoOne, code |-> "ok"]

TypeOK ==
    /\ create \in {"none", "pending", "applied", "terminal"}
    /\ parent \in {"none", "live", "dead"}
    /\ att \in [Photos -> [status : Statuses, temp : Temps \cup {NoOne}, tries : Nat,
                           defers : 0..MaxDefers, original : BOOLEAN]]
    /\ up \in [Workers -> [at : {"idle", "stage", "reply", "staged", "commit"},
                           photo : Photos \cup {NoOne}, temp : Temps \cup {NoOne},
                           tries : Nat, defers : 0..MaxDefers,
                           call : Commits \cup {NoOne}, old : BOOLEAN]]
    /\ recovered \in BOOLEAN
    /\ temps \in [Temps -> [row : {"none", "staged", "gone"}, photo : Photos \cup {NoOne},
                            claim : Commits \cup {NoOne}, expired : BOOLEAN, stale : BOOLEAN]]
    /\ req \in [Commits -> [at : {"unsent", "resolve", "claim", "copy", "persist", "write",
                                  "undo", "finish", "answered", "dead"},
                            photo : Photos \cup {NoOne}, temp : Temps \cup {NoOne}, code : Codes]]
    /\ rows \in [Commits -> {"none", "live", "restored", "trashed"}]
    /\ bytes \subseteq Temps \cup Commits
    /\ sweep \subseteq Temps
    /\ orphan \in Commits \cup {NoOne}
    /\ faults \in 0..MaxFaults

\* The user has taken the photos for a record not saved yet (persistCapturedImage).
Init ==
    /\ create = "none" /\ parent = "none"
    /\ att = [p \in Photos |-> [status |-> "pending_upload", temp |-> NoOne, tries |-> 0,
                                defers |-> 0, original |-> TRUE]]
    /\ up = [w \in Workers |-> Idle] /\ recovered = FALSE
    /\ temps = [t \in Temps |-> Unused] /\ req = [c \in Commits |-> Unsent]
    /\ rows = [c \in Commits |-> "none"] /\ bytes = {}
    /\ sweep = {} /\ orphan = NoOne /\ faults = 0

Fault(kind) == kind \in Faults /\ faults < MaxFaults /\ faults' = faults + 1

---------------------------------------------------------------------------
(* The record.  Its create goes through the mutation queue; the phone      *)
(* learns that it is applied after the server has it.                      *)

Save ==
    /\ create = "none" /\ create' = "pending"
    /\ UNCHANGED <<parent, phone, server, faults>>

CreateApplies ==
    /\ create = "pending" /\ parent = "none" /\ parent' = "live"
    /\ UNCHANGED <<create, phone, server, faults>>

CreateIsAnswered ==
    /\ create = "pending" /\ parent # "none" /\ create' = "applied"
    /\ UNCHANGED <<parent, phone, server, faults>>

CreateIsRefused ==
    /\ create = "pending" /\ parent = "none" /\ create' = "terminal"
    /\ UNCHANGED <<parent, phone, server, faults>>

DeleteParent ==
    /\ parent = "live" /\ parent' = "dead"
    /\ UNCHANGED <<create, phone, server, faults>>

---------------------------------------------------------------------------
(* The uploader of the phone.                                              *)

\* resetInFlight: rows of a run that was cut short, except 'staged'.
InFlight == {"staging", "committing"}

Recover ==
    /\ ~recovered /\ recovered' = TRUE
    /\ att' = [p \in Photos |-> IF att[p].status \in InFlight
                                THEN [att[p] EXCEPT !.status = "pending_upload", !.temp = NoOne]
                                ELSE att[p]]
    /\ UNCHANGED <<create, parent, up, server, faults>>

\* The photo is given up: its row is soft-deleted, its files are removed.
Orphaned(row) == [row EXCEPT !.status = "orphaned", !.original = FALSE]

\* Mutant: the second look at the create mutation is dropped.
GivesUpAnyway(defers) == defers > MaxDefers

\* A photo whose record is not on the server yet waits; after MAX_DEFER_ATTEMPTS
\* it is given up unless the create is still on its way.
GivesUp(defers) == defers > MaxDefers /\ create \in {"none", "terminal"}

Deferred(row, defers) ==
    IF GivesUp(defers + 1) THEN Orphaned(row)
    ELSE [row EXCEPT !.status = "pending_upload",
                     !.defers = IF defers + 1 > MaxDefers THEN @ ELSE defers + 1]

\* handleFailure: the row that worker w leaves behind, from the counters it read
\* when it started.
AfterFailure(row, w, code) ==
    LET tries == up[w].tries + 1
    IN  CASE code = "parent" -> IF create = "terminal" THEN Orphaned(row)
                                ELSE Deferred(row, up[w].defers)
          [] code = "expired" -> [row EXCEPT !.status = "pending_upload", !.temp = NoOne]
          [] code = "subscription" -> [row EXCEPT !.status = "blocked"]
          [] code = "transient" /\ tries < MaxTries ->
                 [row EXCEPT !.status = "pending_upload", !.tries = tries]
          [] OTHER -> [row EXCEPT !.status = "failed", !.tries = tries]

Fails(w, code) ==
    /\ att' = [att EXCEPT ![up[w].photo] = AfterFailure(@, w, code)]
    /\ up' = [up EXCEPT ![w] = Idle]

\* One uploader works on a photo once; an old one may still hold it.
Mine(p) == {w \in Workers : up[w].photo = p /\ ~up[w].old}

Working(w, p, at) == [Idle EXCEPT !.at = at, !.photo = p, !.temp = att[p].temp,
                                  !.tries = att[p].tries, !.defers = att[p].defers]

\* findPending and the start of uploadOne.
Begin(w, p) ==
    /\ recovered /\ up[w].at = "idle" /\ att[p].status = "pending_upload" /\ Mine(p) = {}
    /\ \/ /\ create = "terminal"
          /\ att' = [att EXCEPT ![p] = Orphaned(@)] /\ UNCHANGED up
       \/ /\ create \in {"none", "pending"}
          /\ att' = [att EXCEPT ![p] = Deferred(@, @.defers)] /\ UNCHANGED up
       \/ /\ create = "applied" /\ att[p].temp = NoOne
          /\ att' = [att EXCEPT ![p].status = "staging"]
          /\ up' = [up EXCEPT ![w] = Working(w, p, "stage")]
       \/ /\ create = "applied" /\ att[p].temp # NoOne
          /\ up' = [up EXCEPT ![w] = Working(w, p, "staged")] /\ UNCHANGED att
    /\ UNCHANGED <<create, parent, recovered, server, faults>>

\* markStaged: the answer of the stage call.
Staged(w) ==
    /\ up[w].at = "reply"
    /\ att' = [att EXCEPT ![up[w].photo].status = "staged", ![up[w].photo].temp = up[w].temp]
    /\ up' = [up EXCEPT ![w].at = "staged"]
    /\ UNCHANGED <<create, parent, recovered, server, faults>>

SendCommit(w, c) ==
    /\ up[w].at = "staged" /\ req[c].at = "unsent"
    /\ att' = [att EXCEPT ![up[w].photo].status = "committing"]
    /\ up' = [up EXCEPT ![w].at = "commit", ![w].call = c]
    /\ req' = [req EXCEPT ![c] = [Unsent EXCEPT !.at = "resolve", !.photo = up[w].photo,
                                                !.temp = up[w].temp]]
    /\ UNCHANGED <<create, parent, recovered, temps, rows, bytes, sweep, orphan, faults>>

\* markCommitted, and only then the original is deleted; or handleFailure.
Answered(w) ==
    /\ up[w].at = "commit" /\ req[up[w].call].at = "answered"
    /\ IF req[up[w].call].code = "ok"
       THEN /\ att' = [att EXCEPT ![up[w].photo].status = "committed",
                                  ![up[w].photo].original = FALSE]
            /\ up' = [up EXCEPT ![w] = Idle]
       ELSE Fails(w, req[up[w].call].code)
    /\ UNCHANGED <<create, parent, recovered, server, faults>>

\* No answer: the call was lost on its way, or its answer was.
LostCall(w) ==
    /\ up[w].at \in {"stage", "reply", "commit"} /\ Fault("lost") /\ Fails(w, "transient")
    /\ UNCHANGED <<create, parent, recovered, server>>

\* The subscription guard refuses a stage or commit call.
Gated(w) ==
    /\ up[w].at \in {"stage", "staged"} /\ Fault("gate") /\ Fails(w, "subscription")
    /\ UNCHANGED <<create, parent, recovered, server>>

\* requeueBlocked: the subscription is active again.
RequeueBlocked ==
    /\ \E p \in Photos : att[p].status = "blocked"
    /\ att' = [p \in Photos |-> IF att[p].status = "blocked"
                                THEN [att[p] EXCEPT !.status = "pending_upload"] ELSE att[p]]
    /\ UNCHANGED <<create, parent, up, recovered, server, faults>>

\* The app dies; or the store is closed and opened again, which makes a new
\* uploader and leaves the old one's uploads running.
KillPhone ==
    /\ Fault("phone") /\ recovered' = FALSE /\ up' = [w \in Workers |-> Idle]
    /\ UNCHANGED <<create, parent, att, server>>

Reopen ==
    /\ Fault("reopen") /\ recovered' = FALSE
    /\ up' = [w \in Workers |-> [up[w] EXCEPT !.old = up[w].at # "idle"]]
    /\ UNCHANGED <<create, parent, att, server>>

---------------------------------------------------------------------------
(* The file service.                                                       *)

\* stageUpload: the object first, then its row.  The answer is a step of its own.
Stage(w, t) ==
    /\ up[w].at = "stage" /\ temps[t].row = "none"
    /\ bytes' = bytes \cup {t}
    /\ temps' = [temps EXCEPT ![t] = [Unused EXCEPT !.row = "staged", !.photo = up[w].photo]]
    /\ up' = [up EXCEPT ![w].at = "reply", ![w].temp = t]
    /\ UNCHANGED <<create, parent, att, recovered, req, rows, sweep, orphan, faults>>

Live == {c \in Commits : rows[c] \in {"live", "restored"}}

\* Assertion of the record's budget (validateAtCommit).
OverBudget == Cardinality(Live) + 1 > MaxCount

To(c, at) == req' = [req EXCEPT ![c].at = at]
Ends(c, at, code) == req' = [req EXCEPT ![c].at = at, ![c].code = code]

\* The checks in front of the claim: parent, temporary file, budget.
Resolve(c) ==
    LET t == temps[req[c].temp]
    IN  /\ req[c].at = "resolve"
        /\ \/ parent # "live" /\ Ends(c, "answered", "parent")
           \/ parent = "live" /\ (t.row # "staged" \/ t.claim # NoOne) /\ Ends(c, "answered", "fatal")
           \/ parent = "live" /\ t.row = "staged" /\ t.claim = NoOne /\ t.expired /\ Ends(c, "answered", "expired")
           \/ parent = "live" /\ t.row = "staged" /\ t.claim = NoOne /\ ~t.expired
              /\ IF OverBudget THEN Ends(c, "answered", "fatal") ELSE To(c, "claim")
        /\ UNCHANGED <<create, parent, phone, temps, rows, bytes, sweep, orphan, faults>>

\* claimTemp: one UPDATE, against the clock the call has read before it.
Claim(c) ==
    LET t == temps[req[c].temp]
    IN  /\ req[c].at = "claim"
        /\ \/ /\ t.row = "staged" /\ t.claim = NoOne /\ To(c, "copy")
              /\ temps' = [temps EXCEPT ![req[c].temp].claim = c]
           \/ /\ t.row # "staged" \/ t.claim # NoOne \/ t.expired
              /\ Ends(c, "answered", IF t.expired THEN "expired" ELSE "fatal")
              /\ UNCHANGED temps
        /\ UNCHANGED <<create, parent, phone, rows, bytes, sweep, orphan, faults>>

Copy(c) ==
    /\ req[c].at = "copy"
    /\ IF req[c].temp \in bytes
       THEN bytes' = bytes \cup {c} /\ To(c, "persist")
       ELSE UNCHANGED bytes /\ Ends(c, "undo", "transient")
    /\ UNCHANGED <<create, parent, phone, temps, rows, sweep, orphan, faults>>

\* A copy that fails may still have been made.
CopyFails(c) ==
    /\ req[c].at = "copy" /\ Fault("storage") /\ Ends(c, "undo", "transient")
    /\ bytes' \in {bytes, bytes \cup {c}}
    /\ UNCHANGED <<create, parent, phone, temps, rows, sweep, orphan>>

\* Mutant: the advisory lock is not taken.
RecordFreeAlways == TRUE

\* The transaction: the advisory lock of the record, the parent and the budget
\* again.  Other commits of the record wait for the lock until it ends.
RecordFree == \A c \in Commits : req[c].at # "write"

Persist(c) ==
    /\ req[c].at = "persist" /\ RecordFree
    /\ IF parent # "live" THEN Ends(c, "undo", "parent")
       ELSE IF OverBudget THEN Ends(c, "undo", "fatal") ELSE To(c, "write")
    /\ UNCHANGED <<create, parent, phone, temps, rows, bytes, sweep, orphan, faults>>

\* The insert, or the collapse onto the live row with the same bytes (whose
\* objects stay; the new copy goes), and the claimed temporary file is consumed:
\* if the sweeper has taken it the transaction fails.
SameBytes(c) == {d \in Live : req[d].photo = req[c].photo}

Write(c) ==
    /\ req[c].at = "write"
    /\ IF temps[req[c].temp].claim # c
       THEN /\ Ends(c, "undo", "fatal")
            /\ bytes' = IF SameBytes(c) = {} THEN bytes ELSE bytes \ {c}
            /\ UNCHANGED <<temps, rows>>
       ELSE /\ To(c, "finish")
            /\ temps' = [temps EXCEPT ![req[c].temp] = Gone(@)]
            /\ IF SameBytes(c) = {}
               THEN rows' = [rows EXCEPT ![c] = "live"] /\ UNCHANGED bytes
               ELSE bytes' = bytes \ {c} /\ UNCHANGED rows
    /\ UNCHANGED <<create, parent, phone, sweep, orphan, faults>>

\* A refused or failed commit: the copy is deleted, the claim released.
Released(c) ==
    [temps EXCEPT ![req[c].temp] = IF @.claim = c THEN [@ EXCEPT !.claim = NoOne, !.stale = FALSE] ELSE @]

Undo(c) ==
    /\ req[c].at = "undo" /\ To(c, "answered")
    /\ bytes' = bytes \ {c} /\ temps' = Released(c)
    /\ UNCHANGED <<create, parent, phone, rows, sweep, orphan, faults>>

\* After the transaction the temporary object is deleted and the answer signed.
Finish(c) ==
    /\ req[c].at = "finish" /\ To(c, "answered") /\ bytes' = bytes \ {req[c].temp}
    /\ UNCHANGED <<create, parent, phone, temps, rows, sweep, orphan, faults>>

\* Mutant: the copies are deleted as for any other failure.
SigningFailsAndUndoes(c) ==
    /\ req[c].at = "finish" /\ Fault("storage") /\ Ends(c, "undo", "transient")
    /\ UNCHANGED <<create, parent, phone, temps, rows, bytes, sweep, orphan>>

\* Signing the answer fails after the commit: 503, and only the claims (there
\* are none left) are released.
SigningFails(c) ==
    /\ req[c].at = "finish" /\ Fault("storage") /\ Ends(c, "answered", "transient")
    /\ bytes' = bytes \ {req[c].temp} /\ temps' = Released(c)
    /\ UNCHANGED <<create, parent, phone, rows, sweep, orphan>>

ServerDies ==
    /\ Fault("server") /\ sweep' = {} /\ orphan' = NoOne
    /\ req' = [c \in Commits |-> IF req[c].at \in {"unsent", "answered"} THEN req[c]
                                 ELSE [req[c] EXCEPT !.at = "dead"]]
    /\ UNCHANGED <<create, parent, phone, temps, rows, bytes>>

---------------------------------------------------------------------------
(* Users, the clock and the cron jobs.                                     *)

DeleteFile(c) ==
    /\ c \in Live /\ rows' = [rows EXCEPT ![c] = "trashed"]
    /\ UNCHANGED <<create, parent, phone, temps, req, bytes, sweep, orphan, faults>>

\* restoreFile: neither the budget, nor the parent, nor the object is looked at;
\* the same bytes live under another row answer with that one.
RestoreFile(c) ==
    /\ rows[c] = "trashed" /\ SameBytes(c) = {}
    /\ rows' = [rows EXCEPT ![c] = "restored"]
    /\ UNCHANGED <<create, parent, phone, temps, req, bytes, sweep, orphan, faults>>

Expire(t) ==
    /\ temps[t].row = "staged" /\ ~temps[t].expired /\ temps' = [temps EXCEPT ![t].expired = TRUE]
    /\ UNCHANGED <<create, parent, phone, req, rows, bytes, sweep, orphan, faults>>

\* A claim outlives its grace (TEMP_FILE_CLAIM_GRACE_MINUTES).
GraceEnds(t) ==
    /\ temps[t].claim # NoOne /\ ~temps[t].stale /\ temps' = [temps EXCEPT ![t].stale = TRUE]
    /\ UNCHANGED <<create, parent, phone, req, rows, bytes, sweep, orphan, faults>>

\* Mutant: what was selected is deleted.
ReapableOnceSelected(t) == temps[t].row = "staged" /\ temps[t].expired /\ (t \in sweep \/ temps[t].claim = NoOne)

\* deleteExpiredTempIfReapable: the predicate of the selection, once more.
Reapable(t) == temps[t].row = "staged" /\ temps[t].expired /\ (temps[t].claim = NoOne \/ temps[t].stale)

Candidates == {t \in Temps : temps[t].row = "staged" /\ temps[t].expired /\ (temps[t].claim = NoOne \/ temps[t].stale)}

SweepSelects ==
    /\ sweep = {} /\ Candidates # {} /\ sweep' = Candidates
    /\ UNCHANGED <<create, parent, phone, temps, req, rows, bytes, orphan, faults>>

Sweep(t) ==
    /\ t \in sweep /\ sweep' = sweep \ {t}
    /\ IF Reapable(t)
       THEN temps' = [temps EXCEPT ![t] = Gone(@)] /\ bytes' = bytes \ {t}
       ELSE UNCHANGED <<temps, bytes>>
    /\ UNCHANGED <<create, parent, phone, req, rows, orphan, faults>>

\* The reaper: a live row without a live parent loses its object, then its row.
ReapObject(c) ==
    /\ orphan = NoOne /\ c \in Live /\ parent # "live"
    /\ orphan' = c /\ bytes' = bytes \ {c}
    /\ UNCHANGED <<create, parent, phone, temps, req, rows, sweep, faults>>

ReapRow ==
    /\ orphan # NoOne /\ orphan' = NoOne
    /\ rows' = [rows EXCEPT ![orphan] = "trashed"]
    /\ UNCHANGED <<create, parent, phone, temps, req, bytes, sweep, faults>>

Uploader ==
    \/ Recover \/ RequeueBlocked
    \/ \E w \in Workers : \/ \E p \in Photos : Begin(w, p)
                          \/ Staged(w)
                          \/ \E c \in Commits : SendCommit(w, c)
                          \/ Answered(w)

Service ==
    \/ \E w \in Workers, t \in Temps : Stage(w, t)
    \/ \E c \in Commits : \/ Resolve(c) \/ Claim(c) \/ Copy(c) \/ Persist(c)
                          \/ Write(c) \/ Undo(c) \/ Finish(c)

Jobs ==
    \/ SweepSelects \/ ReapRow
    \/ \E t \in Temps : Expire(t) \/ GraceEnds(t) \/ Sweep(t)
    \/ \E c \in Commits : ReapObject(c)

Failures ==
    \/ KillPhone \/ Reopen \/ ServerDies
    \/ \E w \in Workers : LostCall(w) \/ Gated(w)
    \/ \E c \in Commits : CopyFails(c) \/ SigningFails(c)

Next ==
    \/ Save \/ CreateApplies \/ CreateIsAnswered \/ CreateIsRefused \/ DeleteParent
    \/ Uploader \/ Service \/ Jobs \/ Failures
    \/ \E c \in Commits : DeleteFile(c) \/ RestoreFile(c)

Spec == Init /\ [][Next]_vars

---------------------------------------------------------------------------
(* Properties.                                                             *)

\* A file that is live on a live record can be downloaded: whatever undo,
\* collapse, sweep or reap has deleted objects, it never took the ones in use.
LiveHasBytes == parent = "live" => Live \subseteq bytes

\* The budget of the record holds for overlapping commits; what a user has
\* restored is not counted against them (restoreFile asks nobody).
BudgetHolds == Cardinality({c \in Commits : rows[c] = "live"}) <= MaxCount

\* The types, and the budget of the record.
Inv == TypeOK /\ BudgetHolds

\* A claim within its grace is the claimer's: sweeper, jobs and other calls
\* leave the row and the object of the temporary file alone.
ClaimProtects ==
    [][\A t \in Temps : LET c == temps[t].claim IN
           c # NoOne /\ ~temps[t].stale /\ (temps'[t].claim # c \/ (t \in bytes /\ t \notin bytes'))
               => req'[c].at # req[c].at]_vars

\* The phone deletes the original of a photo only when the server holds its
\* bytes, when the record has been deleted there, or when there is no create on
\* its way that could still want it: a photo taken offline is not lost because
\* its record waits long for the network.
OriginalGoesLast ==
    [][\A p \in Photos : att[p].original /\ ~att'[p].original =>
           \/ create \in {"none", "terminal"} \/ parent = "dead"
           \/ \E c \in Commits : rows[c] # "none" /\ req[c].photo = p /\ c \in bytes]_vars
=============================================================================
