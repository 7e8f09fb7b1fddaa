------------------------- MODULE Attachments_proofs -------------------------
(***************************************************************************)
(* Proofs about Attachments, for any number of photos, uploads, calls,     *)
(* temporary files and failures: the files in use keep their objects, the  *)
(* budget of the record holds, a claim protects what it took, and the      *)
(* phone deletes an original last.                                         *)
(***************************************************************************)
EXTENDS Attachments, FiniteSetTheorems, TLAPS

AttRow == [status : Statuses, temp : Temps \cup {NoOne}, tries : Nat,
           defers : 0..MaxDefers, original : BOOLEAN]
UpRow == [at : {"idle", "stage", "reply", "staged", "commit"},
          photo : Photos \cup {NoOne}, temp : Temps \cup {NoOne}, tries : Nat,
          defers : 0..MaxDefers, call : Commits \cup {NoOne}, old : BOOLEAN]
TempRow == [row : {"none", "staged", "gone"}, photo : Photos \cup {NoOne},
            claim : Commits \cup {NoOne}, expired : BOOLEAN, stale : BOOLEAN]
CallRow == [at : {"unsent", "resolve", "claim", "copy", "persist", "write",
                  "undo", "finish", "answered", "dead"},
            photo : Photos \cup {NoOne}, temp : Temps \cup {NoOne}, code : Codes]
RowStates == {"none", "live", "restored", "trashed"}

\* A worker knows its photo, what was staged for it, and its own commit call.
PhoneOK ==
  \A w \in Workers :
    /\ up[w].at # "idle" => up[w].photo \in Photos
    /\ up[w].at \in {"reply", "staged"} => up[w].temp \in Temps
    /\ up[w].at = "commit" => /\ up[w].call \in Commits
                              /\ req[up[w].call].at # "unsent"
                              /\ req[up[w].call].photo = up[w].photo

\* The photo of a call has a row, the call's own or the one it collapsed onto.
Kept(c) == \E d \in Commits : rows[d] # "none" /\ req[d].photo = req[c].photo

\* A call that has not written has no row, one that is about to write has its
\* copy, one that has written has consumed the temporary file, and only a call
\* whose photo is kept answers "ok".
CallOK(c) ==
  /\ req[c].at # "unsent" => req[c].photo \in Photos /\ req[c].temp \in Temps
  /\ req[c].at \in {"unsent", "resolve", "claim", "copy", "persist", "write", "undo"} => rows[c] = "none"
  /\ req[c].at \in {"persist", "write"} => c \in bytes
  /\ req[c].at = "undo" => req[c].code # "ok"
  /\ req[c].at = "finish" => temps[req[c].temp].row = "gone" /\ Kept(c)
  /\ req[c].at = "answered" /\ req[c].code = "ok" => Kept(c)
  /\ req[c].at \notin {"unsent", "resolve", "answered", "dead"} => parent # "none"

\* Rows need a record, and while it lives every row, trashed ones too (they can
\* be restored), has its object.
RowOK(c) == rows[c] # "none" => parent # "none" /\ (parent = "live" => c \in bytes)

ClaimsOK == \A t \in Temps : temps[t].claim # NoOne => temps[t].row = "staged"
OrphanOK == orphan # NoOne => parent = "dead" /\ rows[orphan] # "none"

\* One call writes at a time, and there is room for its row.
Counted == {c \in Commits : rows[c] = "live"}
WriteOK ==
  /\ \A c, d \in Commits : req[c].at = "write" /\ req[d].at = "write" => c = d
  /\ \A c \in Commits : req[c].at = "write" => Cardinality(Counted) + 1 <= MaxCount

IInv ==
  /\ TypeOK /\ PhoneOK /\ (\A c \in Commits : CallOK(c) /\ RowOK(c))
  /\ ClaimsOK /\ OrphanOK /\ WriteOK /\ BudgetHolds
-----------------------------------------------------------------------------
PhoneTypes ==
  /\ create \in {"none", "pending", "applied", "terminal"}
  /\ att \in [Photos -> AttRow] /\ up \in [Workers -> UpRow]
  /\ recovered \in BOOLEAN /\ faults \in 0..MaxFaults

ServerTypes ==
  /\ parent \in {"none", "live", "dead"}
  /\ temps \in [Temps -> TempRow] /\ req \in [Commits -> CallRow] /\ rows \in [Commits -> RowStates]
  /\ bytes \subseteq Temps \cup Commits /\ sweep \subseteq Temps /\ orphan \in Commits \cup {NoOne}

\* The type invariant, part by part.
LEMMA Types == TypeOK <=> PhoneTypes /\ ServerTypes
BY DEF TypeOK, PhoneTypes, ServerTypes, AttRow, UpRow, TempRow, CallRow, RowStates

\* The same of the next state.
LEMMA TypesNext == TypeOK' <=> PhoneTypes' /\ ServerTypes'
BY DEF TypeOK, PhoneTypes, ServerTypes, AttRow, UpRow, TempRow, CallRow, RowStates

\* The constants.
LEMMA Numbers ==
  /\ MaxCount \in Nat /\ MaxTries \in Nat /\ MaxDefers \in Nat /\ MaxFaults \in Nat
  /\ IsFiniteSet(Commits) /\ Temps \cap Commits = {}
  /\ NoOne \notin Photos /\ NoOne \notin Workers /\ NoOne \notin Temps /\ NoOne \notin Commits
BY AttachmentAssumption

\* Fewer rows count less.
LEMMA FewerRows ==
  ASSUME NEW A, NEW B, A \subseteq B, B \subseteq Commits
  PROVE  Cardinality(A) <= Cardinality(B) /\ Cardinality(A) \in Nat /\ Cardinality(B) \in Nat
BY Numbers, FS_Subset, FS_CardinalityType

\* The budget, in terms of the rows counted.
LEMMA Budget == BudgetHolds <=> Cardinality(Counted) <= MaxCount
BY DEF BudgetHolds, Counted

\* A fault is one more.
LEMMA FaultType ==
  ASSUME faults \in 0..MaxFaults, NEW kind, Fault(kind)
  PROVE  faults' \in 0..MaxFaults
BY Numbers DEF Fault

\* Before the record is saved the invariant holds.
LEMMA InitInv == Init => IInv
<1> SUFFICES ASSUME Init PROVE IInv
  OBVIOUS
<1> USE DEF Init
<1>1. PhoneTypes
  <2>1. [status |-> "pending_upload", temp |-> NoOne, tries |-> 0, defers |-> 0, original |-> TRUE] \in AttRow
    BY Numbers DEF AttRow, Statuses
  <2>2. Idle \in UpRow
    BY Numbers DEF UpRow, Idle
  <2>3. att \in [Photos -> AttRow] /\ up \in [Workers -> UpRow]
    BY <2>1, <2>2
  <2>4. create = "none" /\ faults \in 0..MaxFaults
    BY Numbers
  <2>5. recovered \in BOOLEAN
    OBVIOUS
  <2> HIDE DEF Init
  <2> QED BY <2>3, <2>4, <2>5 DEF PhoneTypes
<1>2. ServerTypes
  <2>1. Unused \in TempRow
    BY DEF TempRow, Unused
  <2>2. Unsent \in CallRow
    BY DEF CallRow, Unsent, Codes
  <2> QED BY <2>1, <2>2 DEF ServerTypes, RowStates
<1>3. PhoneOK
  BY DEF PhoneOK, Idle
<1>4. \A c \in Commits : CallOK(c) /\ RowOK(c)
  BY DEF CallOK, RowOK, Unsent
<1>5. ClaimsOK /\ OrphanOK
  BY DEF ClaimsOK, OrphanOK, Unused
<1>6. Counted = {} /\ Cardinality(Counted) = 0
  BY FS_EmptySet DEF Counted
<1>7. WriteOK /\ BudgetHolds
  BY <1>6, Numbers, Budget DEF WriteOK, Unsent
<1> HIDE DEF Init
<1> QED BY <1>1, <1>2, <1>3, <1>4, <1>5, <1>7, Types DEF IInv
-----------------------------------------------------------------------------
\* Steps of the phone: the server is as it was.
LEMMA PhoneInv ==
  ASSUME IInv, UNCHANGED <<parent, server>>, PhoneTypes', PhoneOK'
  PROVE  IInv'
<1>1. ServerTypes'
  BY Types DEF IInv, ServerTypes, server
<1>2. (\A c \in Commits : CallOK(c) /\ RowOK(c))'
  BY DEF IInv, CallOK, RowOK, Kept, server
<1>3. ClaimsOK' /\ OrphanOK' /\ WriteOK' /\ BudgetHolds'
  BY DEF IInv, ClaimsOK, OrphanOK, WriteOK, Counted, BudgetHolds, server
<1> QED BY <1>1, <1>2, <1>3, TypesNext DEF IInv

\* Steps of users, the clock and the jobs: no call moves, no row comes or goes,
\* and objects in use go only after the record.
LEMMA JobInv ==
  ASSUME IInv, UNCHANGED <<create, phone, req>>, faults' \in 0..MaxFaults,
         parent' \in {"none", "live", "dead"}, parent # "none" => parent' # "none",
         parent' = "live" => parent # "dead",
         rows' \in [Commits -> RowStates],
         \A c \in Commits : rows'[c] = "none" <=> rows[c] = "none",
         \A c \in Commits : rows'[c] = "live" => rows[c] = "live",
         bytes' \subseteq Temps \cup Commits,
         \A c \in Commits : c \in bytes => c \in bytes' \/ (parent = "dead" /\ rows[c] # "none"),
         temps' \in [Temps -> TempRow], ClaimsOK',
         \A t \in Temps : temps[t].row = "gone" => temps'[t].row = "gone",
         sweep' \subseteq Temps, orphan' \in Commits \cup {NoOne}, OrphanOK'
  PROVE  IInv'
<1>1. PhoneTypes /\ ServerTypes
  BY Types DEF IInv
<1>2. PhoneTypes' /\ ServerTypes'
  BY <1>1 DEF PhoneTypes, ServerTypes, phone
<1>3. PhoneOK'
  BY DEF IInv, PhoneOK, phone
<1>4. ASSUME NEW c \in Commits PROVE CallOK(c)' /\ RowOK(c)'
  <2>1. CallOK(c) /\ RowOK(c)
    BY DEF IInv
  <2>2. Kept(c) => Kept(c)'
    BY DEF Kept
  <2>3. req[c].at # "unsent" => req[c].temp \in Temps
    BY <2>1 DEF CallOK
  <2>4. RowOK(c)'
    BY <2>1, <1>1 DEF RowOK, ServerTypes
  <2> QED BY <2>1, <2>2, <2>3, <2>4 DEF CallOK
<1>5. Counted' \subseteq Counted /\ Counted \subseteq Commits
  BY DEF Counted
<1>6. WriteOK' /\ BudgetHolds'
  BY <1>5, FewerRows, Budget, Numbers DEF IInv, WriteOK, BudgetHolds, Counted
<1> QED BY <1>2, <1>3, <1>4, <1>6, TypesNext DEF IInv

\* A step of a call moves the call, and touches no row and no copy but its own.
LEMMA CallInv ==
  ASSUME IInv, NEW c \in Commits, NEW q \in CallRow, req' = [req EXCEPT ![c] = q],
         q.photo = req[c].photo, q.temp = req[c].temp, req[c].at # "unsent", q.at # "unsent",
         UNCHANGED <<create, parent, phone, sweep, orphan>>, faults' \in 0..MaxFaults,
         rows' \in [Commits -> RowStates], rows[c] # "none" => rows'[c] # "none",
         \A d \in Commits : d # c => rows'[d] = rows[d],
         bytes' \subseteq Temps \cup Commits,
         \A d \in Commits : d # c /\ d \in bytes => d \in bytes',
         temps' \in [Temps -> TempRow], ClaimsOK',
         \A t \in Temps : temps[t].row = "gone" => temps'[t].row = "gone",
         CallOK(c)', RowOK(c)', WriteOK', BudgetHolds'
  PROVE  IInv'
<1>1. PhoneTypes /\ ServerTypes
  BY Types DEF IInv
<1>2. PhoneTypes' /\ ServerTypes'
  BY <1>1 DEF PhoneTypes, ServerTypes, phone
<1>3. \A d \in Commits : /\ req'[d].photo = req[d].photo /\ req'[d].temp = req[d].temp
                         /\ req[d].at # "unsent" => req'[d].at # "unsent"
                         /\ d # c => req'[d] = req[d]
  BY <1>1 DEF ServerTypes
<1>4. PhoneOK'
  BY <1>3 DEF IInv, PhoneOK, phone
<1>5. ASSUME NEW d \in Commits PROVE CallOK(d)' /\ RowOK(d)'
  <2>1. CASE d = c
    BY <2>1
  <2>2. CASE d # c
    <3>1. CallOK(d) /\ RowOK(d)
      BY DEF IInv
    <3>2. Kept(d) => Kept(d)'
      BY <1>3 DEF Kept
    <3>3. req[d].at # "unsent" => req[d].temp \in Temps
      BY <3>1 DEF CallOK
    <3>4. req'[d] = req[d] /\ rows'[d] = rows[d] /\ (d \in bytes => d \in bytes')
      BY <2>2, <1>3
    <3> QED BY <3>1, <3>2, <3>3, <3>4 DEF CallOK, RowOK
  <2> QED BY <2>1, <2>2
<1>6. OrphanOK'
  BY <1>1, Numbers DEF IInv, OrphanOK, ServerTypes
<1> QED BY <1>2, <1>4, <1>5, <1>6, TypesNext DEF IInv
-----------------------------------------------------------------------------
(* The phone. *)

\* A photo loses its original only if no create can want it.
Loses(row, new) == row.original /\ ~new.original => create \in {"none", "terminal"}

\* A photo that is given up is still a row.
LEMMA OrphanedRow ==
  ASSUME NEW row \in AttRow
  PROVE  Orphaned(row) \in AttRow
BY DEF Orphaned, AttRow, Statuses

\* A photo that waits is still a row, and loses its original only if it is
\* given up.
LEMMA DeferredRow ==
  ASSUME NEW row \in AttRow, NEW n \in 0..MaxDefers
  PROVE  Deferred(row, n) \in AttRow /\ Loses(row, Deferred(row, n))
<1>1. PICK m \in 0..MaxDefers : m = IF n + 1 > MaxDefers THEN row.defers ELSE n + 1
  BY Numbers DEF AttRow
<1>2. [[row EXCEPT !.status = "pending_upload"] EXCEPT !.defers = m] \in AttRow
  BY DEF AttRow, Statuses
<1>3. [row EXCEPT !.status = "pending_upload", !.defers = m] \in AttRow
  BY <1>2
<1>4. CASE GivesUp(n + 1)
  BY <1>4, OrphanedRow DEF Deferred, GivesUp, Loses
<1>5. CASE ~GivesUp(n + 1)
  <2>1. Deferred(row, n) = [row EXCEPT !.status = "pending_upload", !.defers = m]
    BY <1>1, <1>5 DEF Deferred
  <2>2. Deferred(row, n).original = row.original
    BY <2>1 DEF AttRow
  <2> QED BY <2>1, <2>2, <1>3 DEF Loses
<1> QED BY <1>4, <1>5

\* So is a photo whose upload failed.
LEMMA FailedRow ==
  ASSUME NEW row \in AttRow, NEW w \in Workers, up[w] \in UpRow, NEW code \in Codes
  PROVE  AfterFailure(row, w, code) \in AttRow /\ Loses(row, AfterFailure(row, w, code))
<1>1. PICK n : n = up[w].tries + 1
  OBVIOUS
<1>2. n \in Nat /\ up[w].defers \in 0..MaxDefers
  BY <1>1 DEF UpRow
<1>3. /\ [row EXCEPT !.status = "pending_upload", !.temp = NoOne] \in AttRow
      /\ [row EXCEPT !.status = "blocked"] \in AttRow
      /\ [row EXCEPT !.status = "pending_upload", !.tries = n] \in AttRow
      /\ [row EXCEPT !.status = "failed", !.tries = n] \in AttRow
  BY <1>2 DEF AttRow, Statuses
<1>4. /\ [row EXCEPT !.status = "pending_upload", !.temp = NoOne].original = row.original
      /\ [row EXCEPT !.status = "blocked"].original = row.original
      /\ [row EXCEPT !.status = "pending_upload", !.tries = n].original = row.original
      /\ [row EXCEPT !.status = "failed", !.tries = n].original = row.original
  BY DEF AttRow
<1>5. CASE code = "parent"
  BY <1>2, <1>5, OrphanedRow, DeferredRow DEF AfterFailure, Loses
<1>6. CASE code # "parent"
  BY <1>1, <1>3, <1>4, <1>6 DEF AfterFailure, Loses
<1> QED BY <1>5, <1>6

\* An upload that fails leaves its worker idle.
LEMMA FailsInv ==
  ASSUME IInv, NEW w \in Workers, up[w].at # "idle", NEW code \in Codes, Fails(w, code),
         UNCHANGED <<create, parent, recovered, server>>, faults' \in 0..MaxFaults
  PROVE  IInv' /\ \A p \in Photos : Loses(att[p], att'[p])
<1>1. PhoneTypes
  BY Types DEF IInv
<1>2. up[w].photo \in Photos /\ up[w] \in UpRow /\ att[up[w].photo] \in AttRow
  BY <1>1 DEF IInv, PhoneOK, PhoneTypes
<1>3. PICK row \in AttRow : row = AfterFailure(att[up[w].photo], w, code) /\ Loses(att[up[w].photo], row)
  BY <1>2, FailedRow
<1>4. att' = [att EXCEPT ![up[w].photo] = row] /\ up' = [up EXCEPT ![w] = Idle]
  BY <1>3 DEF Fails
<1>5. Idle \in UpRow
  BY Numbers DEF Idle, UpRow
<1>6. PhoneTypes'
  BY <1>1, <1>4, <1>5 DEF PhoneTypes
<1>7. PhoneOK'
  BY <1>1, <1>4 DEF IInv, PhoneOK, PhoneTypes, Idle, server
<1>8. \A p \in Photos : Loses(att[p], att'[p])
  BY <1>1, <1>2, <1>3, <1>4 DEF PhoneTypes, Loses
<1> QED BY <1>6, <1>7, <1>8, PhoneInv

\* Steps of the phone that move one photo and one worker.
LEMMA WorkerInv ==
  ASSUME IInv, NEW w \in Workers, NEW p \in Photos, NEW row \in AttRow, NEW q \in UpRow,
         att' = [att EXCEPT ![p] = row], up' = [up EXCEPT ![w] = q],
         UNCHANGED <<create, parent, recovered, server>>, faults' \in 0..MaxFaults,
         q.at # "idle" => q.photo \in Photos,
         q.at \in {"reply", "staged"} => q.temp \in Temps, q.at # "commit"
  PROVE  IInv'
<1>1. PhoneTypes
  BY Types DEF IInv
<1>2. PhoneTypes'
  BY <1>1 DEF PhoneTypes
<1>3. PhoneOK'
  BY <1>1 DEF IInv, PhoneOK, PhoneTypes, server
<1> QED BY <1>2, <1>3, PhoneInv

\* The record's create, on the phone.
LEMMA CreateInv == ASSUME IInv, Save \/ CreateIsAnswered \/ CreateIsRefused PROVE IInv'
<1>1. PhoneTypes /\ UNCHANGED <<parent, phone, server, faults>> /\ create' \in {"pending", "applied", "terminal"}
  BY Types DEF IInv, Save, CreateIsAnswered, CreateIsRefused
<1>2. PhoneTypes'
  BY <1>1 DEF PhoneTypes, phone
<1>3. PhoneOK'
  BY <1>1 DEF IInv, PhoneOK, phone, server
<1> QED BY <1>1, <1>2, <1>3, PhoneInv DEF phone

\* The uploader's own recovery.
LEMMA RecoverInv == ASSUME IInv, Recover \/ RequeueBlocked PROVE IInv'
<1>1. PhoneTypes
  BY Types DEF IInv
<1>2. ASSUME NEW row \in AttRow
      PROVE  /\ [row EXCEPT !.status = "pending_upload", !.temp = NoOne] \in AttRow
             /\ [row EXCEPT !.status = "pending_upload"] \in AttRow
  BY DEF AttRow, Statuses
<1>3. att' \in [Photos -> AttRow]
  <2>1. CASE Recover
    BY <1>1, <1>2, <2>1 DEF PhoneTypes, Recover
  <2>2. CASE RequeueBlocked
    BY <1>1, <1>2, <2>2 DEF PhoneTypes, RequeueBlocked
  <2> QED BY <2>1, <2>2
<1>4. UNCHANGED <<create, parent, up, server, faults>> /\ recovered' \in BOOLEAN
  BY <1>1 DEF Recover, RequeueBlocked, PhoneTypes
<1>5. PhoneTypes'
  BY <1>1, <1>3, <1>4 DEF PhoneTypes
<1>6. PhoneOK'
  BY <1>4 DEF IInv, PhoneOK, server
<1> QED BY <1>4, <1>5, <1>6, PhoneInv

\* A worker that starts.
LEMMA WorkingRow ==
  ASSUME IInv, NEW w \in Workers, NEW p \in Photos, NEW at \in {"stage", "staged"}
  PROVE  /\ Working(w, p, at) \in UpRow /\ Working(w, p, at).at = at
         /\ Working(w, p, at).photo = p /\ Working(w, p, at).temp = att[p].temp
<1>1. att[p] \in AttRow
  BY Types DEF IInv, PhoneTypes
<1> QED BY <1>1, Numbers DEF Working, Idle, UpRow, AttRow

\* findPending and the start of uploadOne.
LEMMA BeginInv ==
  ASSUME IInv, NEW w \in Workers, NEW p \in Photos, Begin(w, p)
  PROVE  IInv' /\ \A o \in Photos : Loses(att[o], att'[o])
<1>1. /\ PhoneTypes /\ att[p] \in AttRow /\ up[w] \in UpRow /\ faults' \in 0..MaxFaults
      /\ UNCHANGED <<create, parent, recovered, server>>
  BY Types DEF IInv, PhoneTypes, Begin
<1>2. ASSUME UNCHANGED up, NEW row \in AttRow, att' = [att EXCEPT ![p] = row], Loses(att[p], row)
      PROVE  IInv' /\ \A o \in Photos : Loses(att[o], att'[o])
  <2>1. up' = [up EXCEPT ![w] = up[w]]
    BY <1>1, <1>2 DEF PhoneTypes
  <2>2. up[w].at = "idle"
    BY DEF Begin
  <2>3. IInv'
    BY <1>1, <1>2, <2>1, <2>2, WorkerInv
  <2> QED BY <1>1, <1>2, <2>3 DEF PhoneTypes, Loses
<1>3. CASE create = "terminal" /\ att' = [att EXCEPT ![p] = Orphaned(@)] /\ UNCHANGED up
  <2>1. Orphaned(att[p]) \in AttRow /\ Loses(att[p], Orphaned(att[p]))
    BY <1>1, <1>3, OrphanedRow DEF Loses
  <2>2. PICK row : row = Orphaned(att[p])
    OBVIOUS
  <2> QED BY <1>2, <1>3, <2>1, <2>2
<1>4. CASE create \in {"none", "pending"} /\ att' = [att EXCEPT ![p] = Deferred(@, @.defers)] /\ UNCHANGED up
  <2>1. att[p].defers \in 0..MaxDefers
    BY <1>1 DEF AttRow
  <2>2. PICK row : row = Deferred(att[p], att[p].defers)
    OBVIOUS
  <2>3. row \in AttRow /\ Loses(att[p], row)
    BY <1>1, <2>1, <2>2, DeferredRow
  <2> QED BY <1>2, <1>4, <2>2, <2>3
<1>5. ASSUME NEW at \in {"stage", "staged"}, at = "staged" => att[p].temp \in Temps,
             NEW row \in AttRow, att' = [att EXCEPT ![p] = row], row.original = att[p].original,
             up' = [up EXCEPT ![w] = Working(w, p, at)]
      PROVE  IInv' /\ \A o \in Photos : Loses(att[o], att'[o])
  <2>1. PICK q : q = Working(w, p, at)
    OBVIOUS
  <2>2. q \in UpRow /\ q.at = at /\ q.photo = p /\ q.temp = att[p].temp
    BY <2>1, WorkingRow
  <2>3. IInv'
    BY <1>1, <1>5, <2>1, <2>2, WorkerInv
  <2> QED BY <1>1, <1>5, <2>3 DEF PhoneTypes, Loses
<1>6. CASE att' = [att EXCEPT ![p].status = "staging"] /\ up' = [up EXCEPT ![w] = Working(w, p, "stage")]
  <2>1. PICK row : row = [att[p] EXCEPT !.status = "staging"]
    OBVIOUS
  <2>2. row \in AttRow /\ row.original = att[p].original
    BY <1>1, <2>1 DEF AttRow, Statuses
  <2>3. att' = [att EXCEPT ![p] = row]
    BY <1>6, <2>1
  <2> QED BY <1>5, <1>6, <2>2, <2>3
<1>7. CASE att[p].temp # NoOne /\ up' = [up EXCEPT ![w] = Working(w, p, "staged")] /\ UNCHANGED att
  <2>1. att' = [att EXCEPT ![p] = att[p]]
    BY <1>1, <1>7 DEF PhoneTypes
  <2>2. att[p].temp \in Temps
    BY <1>1, <1>7 DEF AttRow
  <2> QED BY <1>1, <1>5, <1>7, <2>1, <2>2
<1> QED BY <1>3, <1>4, <1>6, <1>7 DEF Begin

\* The answer of the stage call.
LEMMA StagedInv ==
  ASSUME IInv, NEW w \in Workers, Staged(w)
  PROVE  IInv' /\ \A o \in Photos : att[o].original => att'[o].original
<1>1. PhoneTypes /\ up[w] \in UpRow /\ up[w].at = "reply"
  BY Types DEF IInv, PhoneTypes, Staged
<1>2. PICK p \in Photos, t \in Temps : up[w].photo = p /\ up[w].temp = t
  BY <1>1 DEF IInv, PhoneOK
<1>3. PICK mid : mid = [att[p] EXCEPT !.status = "staged"]
  OBVIOUS
<1>4. PICK row : row = [mid EXCEPT !.temp = t]
  OBVIOUS
<1>5. att[p] \in AttRow
  BY <1>1, <1>2 DEF PhoneTypes
<1>6. mid \in AttRow /\ mid.original = att[p].original
  BY <1>3, <1>5 DEF AttRow, Statuses
<1>7. row \in AttRow /\ row.original = att[p].original
  BY <1>4, <1>6 DEF AttRow
<1>8. att' = [att EXCEPT ![p] = row]
  <2>1. att' = [att EXCEPT ![p].status = "staged", ![p].temp = t]
    BY <1>2 DEF Staged
  <2> QED BY <2>1, <1>1, <1>2, <1>3, <1>4 DEF PhoneTypes
<1>9. PICK q : q = [up[w] EXCEPT !.at = "staged"]
  OBVIOUS
<1>10. q \in UpRow /\ q.at = "staged" /\ q.photo = p /\ q.temp = t
  BY <1>1, <1>2, <1>9 DEF UpRow
<1>11. UNCHANGED <<create, parent, recovered, server, faults>> /\ up' = [up EXCEPT ![w] = q]
  BY <1>9 DEF Staged
<1>12. IInv'
  BY <1>1, <1>2, <1>7, <1>8, <1>10, <1>11, WorkerInv DEF PhoneTypes
<1> QED BY <1>1, <1>2, <1>7, <1>8, <1>12 DEF PhoneTypes

\* The answer of the commit call; the original goes only with a photo kept.
LEMMA AnsweredInv ==
  ASSUME IInv, NEW w \in Workers, Answered(w)
  PROVE  IInv' /\ \A o \in Photos : Loses(att[o], att'[o]) \/ \E d \in Commits : rows[d] # "none" /\ req[d].photo = o
<1>1. PhoneTypes /\ ServerTypes /\ up[w] \in UpRow /\ up[w].at = "commit" /\ faults' \in 0..MaxFaults
  BY Types DEF IInv, PhoneTypes, Answered
<1>2. PICK p \in Photos, c \in Commits : up[w].photo = p /\ up[w].call = c /\ req[c].photo = p
  BY <1>1 DEF IInv, PhoneOK
<1>3. UNCHANGED <<create, parent, recovered, server, faults>> /\ req[c].at = "answered"
  BY <1>2 DEF Answered
<1>4. CASE req[c].code = "ok"
  <2>1. PICK mid : mid = [att[p] EXCEPT !.status = "committed"]
    OBVIOUS
  <2>2. PICK row : row = [mid EXCEPT !.original = FALSE]
    OBVIOUS
  <2>3. mid \in AttRow
    BY <1>1, <1>2, <2>1 DEF PhoneTypes, AttRow, Statuses
  <2>4. row \in AttRow
    BY <2>2, <2>3 DEF AttRow
  <2>5. att' = [att EXCEPT ![p] = row] /\ up' = [up EXCEPT ![w] = Idle]
    <3>1. att' = [att EXCEPT ![p].status = "committed", ![p].original = FALSE] /\ up' = [up EXCEPT ![w] = Idle]
      BY <1>2, <1>4 DEF Answered
    <3> QED BY <3>1, <1>1, <1>2, <2>1, <2>2 DEF PhoneTypes
  <2>6. PICK q : q = Idle
    OBVIOUS
  <2>7. q \in UpRow /\ q.at = "idle"
    BY <2>6, Numbers DEF Idle, UpRow
  <2>8. IInv'
    BY <1>1, <1>2, <1>3, <2>4, <2>5, <2>6, <2>7, WorkerInv
  <2>9. \E d \in Commits : rows[d] # "none" /\ req[d].photo = p
    BY <1>2, <1>3, <1>4 DEF IInv, CallOK, Kept
  <2>10. \A o \in Photos : o # p => Loses(att[o], att'[o])
    BY <1>1, <1>2, <2>5 DEF PhoneTypes, Loses
  <2> QED BY <2>8, <2>9, <2>10
<1>5. CASE req[c].code # "ok"
  <2>1. Fails(w, req[c].code) /\ req[c].code \in Codes
    BY <1>1, <1>2, <1>5 DEF Answered, ServerTypes, CallRow
  <2>2. PICK code : code = req[c].code
    OBVIOUS
  <2> QED BY <1>1, <1>3, <2>1, <2>2, FailsInv
<1> QED BY <1>4, <1>5

\* No answer, or a refusal of the subscription guard.
LEMMA NoAnswerInv ==
  ASSUME IInv, NEW w \in Workers, LostCall(w) \/ Gated(w)
  PROVE  IInv' /\ \A o \in Photos : Loses(att[o], att'[o])
<1>1. PICK code \in Codes : Fails(w, code)
  BY DEF LostCall, Gated, Codes
<1>2. faults' \in 0..MaxFaults
  BY FaultType, Types DEF IInv, PhoneTypes, LostCall, Gated
<1> QED BY <1>1, <1>2, FailsInv DEF LostCall, Gated

\* The app dies, or makes a new uploader.
LEMMA PhoneFaultInv == ASSUME IInv, KillPhone \/ Reopen PROVE IInv'
<1>1. PhoneTypes /\ faults' \in 0..MaxFaults
  BY FaultType, Types DEF IInv, PhoneTypes, KillPhone, Reopen
<1>2. UNCHANGED <<create, parent, att, server>> /\ recovered' = FALSE
  BY DEF KillPhone, Reopen
<1>3. up' \in [Workers -> UpRow] /\ \A w \in Workers : up'[w].at # "idle" => /\ up'[w].at = up[w].at
            /\ up'[w].photo = up[w].photo /\ up'[w].temp = up[w].temp /\ up'[w].call = up[w].call
  <2>1. CASE KillPhone
    <3>1. Idle \in UpRow /\ Idle.at = "idle"
      BY Numbers DEF Idle, UpRow
    <3> QED BY <2>1, <3>1 DEF KillPhone
  <2>2. CASE Reopen
    <3>1. ASSUME NEW w \in Workers, NEW b \in BOOLEAN
          PROVE  /\ [up[w] EXCEPT !.old = b] \in UpRow /\ [up[w] EXCEPT !.old = b].at = up[w].at
                 /\ [up[w] EXCEPT !.old = b].photo = up[w].photo /\ [up[w] EXCEPT !.old = b].temp = up[w].temp
                 /\ [up[w] EXCEPT !.old = b].call = up[w].call
      BY <1>1 DEF PhoneTypes, UpRow
    <3>2. \A w \in Workers : (up[w].at # "idle") \in BOOLEAN
      OBVIOUS
    <3>3. up' = [w \in Workers |-> [up[w] EXCEPT !.old = up[w].at # "idle"]]
      BY <2>2 DEF Reopen
    <3>4. ASSUME NEW w \in Workers
          PROVE  \E b \in BOOLEAN : up'[w] = [up[w] EXCEPT !.old = b]
      BY <3>2, <3>3
    <3>5. ASSUME NEW w \in Workers
          PROVE  /\ up'[w] \in UpRow /\ up'[w].at = up[w].at /\ up'[w].photo = up[w].photo
                 /\ up'[w].temp = up[w].temp /\ up'[w].call = up[w].call
      <4>1. PICK b \in BOOLEAN : up'[w] = [up[w] EXCEPT !.old = b]
        BY <3>4
      <4> QED BY <3>1, <4>1
    <3> QED BY <3>3, <3>5
  <2> QED BY <2>1, <2>2
<1>4. PhoneTypes'
  BY <1>1, <1>2, <1>3 DEF PhoneTypes
<1>5. PhoneOK'
  BY <1>2, <1>3 DEF IInv, PhoneOK, server
<1> QED BY <1>2, <1>4, <1>5, PhoneInv

-----------------------------------------------------------------------------
(* The file service. *)

\* A file is staged.
LEMMA StageInv ==
  ASSUME IInv, NEW w \in Workers, NEW t \in Temps, Stage(w, t)
  PROVE  IInv'
<1>1. PhoneTypes /\ ServerTypes /\ up[w] \in UpRow /\ up[w].photo \in Photos
  BY Types DEF IInv, PhoneTypes, PhoneOK, Stage
<1>2. PICK row : row = [[Unused EXCEPT !.row = "staged"] EXCEPT !.photo = up[w].photo]
  OBVIOUS
<1>3. row \in TempRow /\ row.row = "staged"
  BY <1>1, <1>2, Numbers DEF TempRow, Unused
<1>4. temps' = [temps EXCEPT ![t] = row] /\ temps[t].row = "none"
  BY <1>2 DEF Stage, Unused
<1>5. PICK q : q = [[up[w] EXCEPT !.at = "reply"] EXCEPT !.temp = t]
  OBVIOUS
<1>6. [up[w] EXCEPT !.at = "reply"] \in UpRow
  BY <1>1 DEF UpRow
<1>7. q \in UpRow /\ q.at = "reply" /\ q.photo = up[w].photo /\ q.temp = t
  BY <1>1, <1>5, <1>6 DEF UpRow
<1>8. up' = [up EXCEPT ![w] = q]
  BY <1>1, <1>5 DEF Stage, PhoneTypes
<1>9. UNCHANGED <<create, parent, att, recovered, req, rows, sweep, orphan, faults>> /\ bytes' = bytes \cup {t}
  BY DEF Stage
<1>10. PhoneTypes'
  BY <1>1, <1>7, <1>8, <1>9 DEF PhoneTypes
<1>11. ServerTypes'
  BY <1>1, <1>3, <1>4, <1>9 DEF ServerTypes
<1>12. PhoneOK'
  BY <1>1, <1>7, <1>8, <1>9 DEF IInv, PhoneOK, PhoneTypes
<1>13. ASSUME NEW c \in Commits PROVE CallOK(c)' /\ RowOK(c)'
  <2>1. CallOK(c) /\ RowOK(c)
    BY DEF IInv
  <2>2. Kept(c)' <=> Kept(c)
    BY <1>9 DEF Kept
  <2>3. req[c].at = "finish" => temps'[req[c].temp] = temps[req[c].temp]
    BY <2>1, <1>1, <1>4 DEF CallOK, ServerTypes
  <2> QED BY <1>9, <2>1, <2>2, <2>3 DEF CallOK, RowOK
<1>14. ClaimsOK'
  BY <1>1, <1>3, <1>4 DEF IInv, ClaimsOK, ServerTypes
<1>15. OrphanOK' /\ WriteOK' /\ BudgetHolds'
  BY <1>9 DEF IInv, OrphanOK, WriteOK, BudgetHolds, Counted
<1> QED BY <1>10, <1>11, <1>12, <1>13, <1>14, <1>15, TypesNext DEF IInv

\* A worker sends its commit call.
LEMMA SendInv ==
  ASSUME IInv, NEW w \in Workers, NEW c \in Commits, SendCommit(w, c)
  PROVE  IInv' /\ \A o \in Photos : att[o].original => att'[o].original
<1>1. PhoneTypes /\ ServerTypes /\ up[w] \in UpRow /\ up[w].photo \in Photos /\ up[w].temp \in Temps
  BY Types DEF IInv, PhoneTypes, PhoneOK, SendCommit
<1>2. PICK r : r = [[[Unsent EXCEPT !.at = "resolve"] EXCEPT !.photo = up[w].photo] EXCEPT !.temp = up[w].temp]
  OBVIOUS
<1>3. r \in CallRow /\ r.at = "resolve" /\ r.photo = up[w].photo /\ r.temp = up[w].temp
  BY <1>1, <1>2 DEF CallRow, Unsent, Codes
<1>4. req' = [req EXCEPT ![c] = r] /\ req[c].at = "unsent"
  BY <1>2 DEF SendCommit, Unsent
<1>5. PICK q : q = [[up[w] EXCEPT !.at = "commit"] EXCEPT !.call = c]
  OBVIOUS
<1>6. [up[w] EXCEPT !.at = "commit"] \in UpRow
  BY <1>1 DEF UpRow
<1>7. q \in UpRow /\ q.at = "commit" /\ q.photo = up[w].photo /\ q.call = c
  BY <1>1, <1>5, <1>6 DEF UpRow
<1>8. up' = [up EXCEPT ![w] = q]
  BY <1>1, <1>5 DEF SendCommit, PhoneTypes
<1>9. PICK p : p = up[w].photo
  OBVIOUS
<1>10. PICK row : row = [att[p] EXCEPT !.status = "committing"]
  OBVIOUS
<1>11. row \in AttRow /\ row.original = att[p].original
  BY <1>1, <1>9, <1>10 DEF PhoneTypes, AttRow, Statuses
<1>12. att' = [att EXCEPT ![p] = row]
  BY <1>9, <1>10 DEF SendCommit
<1>13. UNCHANGED <<create, parent, recovered, temps, rows, bytes, sweep, orphan, faults>>
  BY DEF SendCommit
<1>14. PhoneTypes' /\ ServerTypes'
  BY <1>1, <1>3, <1>4, <1>7, <1>8, <1>11, <1>12, <1>13 DEF PhoneTypes, ServerTypes
<1>15. \A d \in Commits : d # c => req'[d] = req[d]
  BY <1>1, <1>4 DEF ServerTypes
<1>16. req'[c] = r
  BY <1>1, <1>4 DEF ServerTypes
<1>17. PhoneOK'
  <2> SUFFICES ASSUME NEW v \in Workers
               PROVE  /\ up'[v].at # "idle" => up'[v].photo \in Photos
                      /\ up'[v].at \in {"reply", "staged"} => up'[v].temp \in Temps
                      /\ up'[v].at = "commit" => /\ up'[v].call \in Commits
                                                 /\ req'[up'[v].call].at # "unsent"
                                                 /\ req'[up'[v].call].photo = up'[v].photo
    BY DEF PhoneOK
  <2>1. CASE v = w
    BY <2>1, <1>1, <1>3, <1>7, <1>8, <1>16 DEF PhoneTypes
  <2>2. CASE v # w
    BY <2>2, <1>1, <1>4, <1>8, <1>15 DEF IInv, PhoneOK, PhoneTypes
  <2> QED BY <2>1, <2>2
<1>18. ASSUME NEW d \in Commits PROVE CallOK(d)' /\ RowOK(d)'
  <2>1. CallOK(d) /\ RowOK(d) /\ CallOK(c) /\ RowOK(c)
    BY DEF IInv
  <2>2. CASE d = c
    BY <1>1, <1>3, <1>4, <1>13, <1>16, <2>1, <2>2 DEF CallOK, RowOK
  <2>3. CASE d # c
    <3>1. \A e \in Commits : rows[e] # "none" => e # c
      BY <1>4, <2>1 DEF CallOK
    <3>2. Kept(d) => Kept(d)'
      BY <1>13, <1>15, <2>3, <3>1 DEF Kept
    <3> QED BY <1>13, <1>15, <2>1, <2>3, <3>2 DEF CallOK, RowOK
  <2> QED BY <2>2, <2>3
<1>19. ClaimsOK' /\ OrphanOK' /\ BudgetHolds'
  BY <1>13 DEF IInv, ClaimsOK, OrphanOK, BudgetHolds
<1>20. WriteOK'
  BY <1>3, <1>13, <1>15, <1>16 DEF IInv, WriteOK, Counted
<1>21. IInv'
  BY <1>14, <1>17, <1>18, <1>19, <1>20, TypesNext DEF IInv
<1> QED BY <1>1, <1>9, <1>11, <1>12, <1>21 DEF PhoneTypes

\* A call that moves on without writing a row keeps the budget.
LEMMA NotWriting ==
  ASSUME IInv, NEW c \in Commits, NEW q, q.at # "write", req' = [req EXCEPT ![c] = q], UNCHANGED rows
  PROVE  WriteOK' /\ BudgetHolds'
<1>1. ServerTypes
  BY Types DEF IInv
<1>2. \A d \in Commits : req'[d].at = "write" => req[d].at = "write"
  BY <1>1 DEF ServerTypes
<1> QED BY <1>2 DEF IInv, WriteOK, BudgetHolds, Counted

\* What To and Ends make of a call.
LEMMA Moved ==
  ASSUME IInv, NEW c \in Commits, req[c].at # "unsent", NEW at \in {"claim", "copy", "persist", "write",
            "undo", "finish", "answered", "dead"}, NEW code \in Codes
  PROVE  /\ To(c, at) => \E q \in CallRow :
               /\ req' = [req EXCEPT ![c] = q] /\ req'[c] = q /\ q.at = at /\ q.code = req[c].code
               /\ q.photo = req[c].photo /\ q.temp = req[c].temp
         /\ Ends(c, at, code) => \E q \in CallRow :
               /\ req' = [req EXCEPT ![c] = q] /\ req'[c] = q /\ q.at = at /\ q.code = code
               /\ q.photo = req[c].photo /\ q.temp = req[c].temp
<1>1. req \in [Commits -> CallRow] /\ req[c] \in CallRow
  BY Types DEF IInv, ServerTypes
<1>2. PICK mid : mid = [req[c] EXCEPT !.at = at]
  OBVIOUS
<1>3. mid \in CallRow /\ mid.at = at /\ mid.code = req[c].code /\ mid.photo = req[c].photo /\ mid.temp = req[c].temp
  BY <1>1, <1>2 DEF CallRow
<1>4. PICK q : q = [mid EXCEPT !.code = code]
  OBVIOUS
<1>5. q \in CallRow /\ q.at = at /\ q.code = code /\ q.photo = req[c].photo /\ q.temp = req[c].temp
  BY <1>3, <1>4 DEF CallRow
<1>6. To(c, at) => req' = [req EXCEPT ![c] = mid]
  BY <1>1, <1>2 DEF To
<1>7. Ends(c, at, code) => req' = [req EXCEPT ![c] = q]
  BY <1>1, <1>2, <1>4 DEF Ends
<1>8. req' = [req EXCEPT ![c] = mid] => req'[c] = mid
  BY <1>1
<1>9. req' = [req EXCEPT ![c] = q] => req'[c] = q
  BY <1>1
<1> QED BY <1>3, <1>5, <1>6, <1>7, <1>8, <1>9

\* A call that changes nothing but its own record.
LEMMA CallOnly ==
  ASSUME IInv, NEW c \in Commits, NEW q \in CallRow, req' = [req EXCEPT ![c] = q], req'[c] = q,
         q.photo = req[c].photo, q.temp = req[c].temp,
         UNCHANGED <<create, parent, phone, temps, rows, bytes, sweep, orphan>>, faults' \in 0..MaxFaults,
         req[c].at \in {"resolve", "claim", "copy", "persist", "write"},
         \/ q.at = "answered" /\ q.code # "ok"
         \/ q.at = "undo" /\ q.code # "ok" /\ req[c].at \in {"copy", "persist", "write"}
         \/ q.at = "claim" /\ parent = "live"
  PROVE  IInv'
<1>1. ServerTypes /\ CallOK(c) /\ RowOK(c)
  BY Types DEF IInv
<1>2. CallOK(c)' /\ RowOK(c)'
  BY <1>1 DEF CallOK, RowOK
<1>3. WriteOK' /\ BudgetHolds'
  BY NotWriting
<1>4. ClaimsOK'
  BY DEF IInv, ClaimsOK
<1> QED BY <1>1, <1>2, <1>3, <1>4, CallInv DEF ServerTypes

\* The checks in front of the claim.
LEMMA ResolveInv ==
  ASSUME IInv, NEW c \in Commits, Resolve(c)
  PROVE  IInv'
<1>1. /\ req[c].at = "resolve" /\ UNCHANGED <<create, parent, phone, temps, rows, bytes, sweep, orphan, faults>>
      /\ \/ \E code \in Codes : code # "ok" /\ Ends(c, "answered", code)
         \/ parent = "live" /\ To(c, "claim")
  BY DEF Resolve, Codes
<1>2. faults' \in 0..MaxFaults
  BY <1>1, Types DEF IInv, PhoneTypes
<1>3. ASSUME NEW code \in Codes, code # "ok", Ends(c, "answered", code) PROVE IInv'
  BY <1>1, <1>2, <1>3, Moved, CallOnly
<1>4. ASSUME parent = "live", To(c, "claim") PROVE IInv'
  <2>1. "ok" \in Codes
    BY DEF Codes
  <2> QED BY <1>1, <1>2, <1>4, <2>1, Moved, CallOnly
<1> QED BY <1>1, <1>3, <1>4

\* The claim: one UPDATE.
LEMMA ClaimInv ==
  ASSUME IInv, NEW c \in Commits, Claim(c)
  PROVE  IInv'
<1>1. /\ req[c].at = "claim" /\ UNCHANGED <<create, parent, phone, rows, bytes, sweep, orphan, faults>>
      /\ ServerTypes /\ CallOK(c) /\ RowOK(c) /\ faults' \in 0..MaxFaults
  BY Types DEF Claim, IInv, PhoneTypes
<1>2. PICK t \in Temps : t = req[c].temp
  BY <1>1 DEF CallOK
<1>3. CASE temps[t].row = "staged" /\ To(c, "copy") /\ temps' = [temps EXCEPT ![req[c].temp].claim = c]
  <2>1. PICK row : row = [temps[t] EXCEPT !.claim = c]
    OBVIOUS
  <2>2. row \in TempRow /\ row.row = "staged"
    BY <1>1, <1>3, <2>1 DEF ServerTypes, TempRow
  <2>3. temps' = [temps EXCEPT ![t] = row]
    BY <1>2, <1>3, <2>1
  <2>4. "ok" \in Codes
    BY DEF Codes
  <2>5. PICK q \in CallRow : /\ req' = [req EXCEPT ![c] = q] /\ req'[c] = q /\ q.at = "copy"
                             /\ q.photo = req[c].photo /\ q.temp = req[c].temp
    BY <1>1, <1>3, <2>4, Moved
  <2>6. /\ temps' \in [Temps -> TempRow] /\ ClaimsOK'
        /\ \A o \in Temps : temps[o].row = "gone" => temps'[o].row = "gone"
    BY <1>1, <1>3, <2>2, <2>3 DEF ServerTypes, IInv, ClaimsOK
  <2>7. CallOK(c)' /\ RowOK(c)'
    BY <1>1, <2>5 DEF CallOK, RowOK
  <2>8. WriteOK' /\ BudgetHolds'
    BY <1>1, <2>5, NotWriting
  <2> QED BY <1>1, <2>5, <2>6, <2>7, <2>8, CallInv DEF ServerTypes
<1>4. CASE \E code \in Codes : code # "ok" /\ Ends(c, "answered", code) /\ UNCHANGED temps
  BY <1>1, <1>4, Moved, CallOnly
<1> QED BY <1>2, <1>3, <1>4 DEF Claim, Codes

\* The copy, made or not.
LEMMA CopyInv ==
  ASSUME IInv, NEW c \in Commits, Copy(c) \/ CopyFails(c)
  PROVE  IInv'
<1>1. /\ req[c].at = "copy" /\ UNCHANGED <<create, parent, phone, temps, rows, sweep, orphan>>
      /\ ServerTypes /\ CallOK(c) /\ RowOK(c) /\ faults' \in 0..MaxFaults
  BY Types, FaultType DEF Copy, CopyFails, IInv, PhoneTypes
<1>2. bytes' \in {bytes, bytes \cup {c}}
  BY DEF Copy, CopyFails
<1>3. "transient" \in Codes
  BY DEF Codes
<1>4. ClaimsOK' /\ rows' = rows /\ parent' = parent /\ (c \in bytes => c \in bytes')
  BY <1>1, <1>2 DEF IInv, ClaimsOK
<1>5. ASSUME NEW q \in CallRow, req' = [req EXCEPT ![c] = q], req'[c] = q, q.at \notin {"unsent", "write"},
             q.photo = req[c].photo, q.temp = req[c].temp, CallOK(c)'
      PROVE  IInv'
  <2>1. WriteOK' /\ BudgetHolds'
    BY <1>4, <1>5, NotWriting
  <2>2. RowOK(c)'
    BY <1>1, <1>4 DEF RowOK
  <2>3. bytes' \subseteq Temps \cup Commits /\ \A d \in Commits : d \in bytes => d \in bytes'
    BY <1>1, <1>2 DEF ServerTypes
  <2>4. /\ temps' \in [Temps -> TempRow] /\ \A t \in Temps : temps[t].row = "gone" => temps'[t].row = "gone"
        /\ rows' \in [Commits -> RowStates] /\ req[c].at # "unsent" /\ q.at # "unsent"
    BY <1>1, <1>4, <1>5 DEF ServerTypes, CallOK
  <2> QED BY <1>1, <1>4, <1>5, <2>1, <2>2, <2>3, <2>4, CallInv
<1>6. CASE To(c, "persist") /\ bytes' = bytes \cup {c}
  <2>1. PICK q \in CallRow : /\ req' = [req EXCEPT ![c] = q] /\ req'[c] = q /\ q.at = "persist"
                             /\ q.photo = req[c].photo /\ q.temp = req[c].temp
    BY <1>1, <1>3, <1>6, Moved
  <2>2. CallOK(c)'
    BY <1>1, <1>4, <1>6, <2>1 DEF CallOK
  <2> QED BY <1>5, <2>1, <2>2
<1>7. CASE Ends(c, "undo", "transient")
  <2>1. PICK q \in CallRow : /\ req' = [req EXCEPT ![c] = q] /\ req'[c] = q /\ q.at = "undo" /\ q.code = "transient"
                             /\ q.photo = req[c].photo /\ q.temp = req[c].temp
    BY <1>1, <1>3, <1>7, Moved
  <2>2. CallOK(c)'
    BY <1>1, <1>4, <2>1 DEF CallOK
  <2> QED BY <1>5, <2>1, <2>2
<1> QED BY <1>6, <1>7 DEF Copy, CopyFails

\* The budget is asserted while no other call is about to write.
LEMMA PersistInv ==
  ASSUME IInv, NEW c \in Commits, Persist(c)
  PROVE  IInv'
<1>1. /\ req[c].at = "persist" /\ UNCHANGED <<create, parent, phone, temps, rows, bytes, sweep, orphan, faults>>
      /\ RecordFree /\ ServerTypes /\ CallOK(c) /\ RowOK(c) /\ faults' \in 0..MaxFaults
  BY Types DEF Persist, IInv, PhoneTypes
<1>2. CASE \E code \in Codes : code # "ok" /\ Ends(c, "undo", code)
  BY <1>1, <1>2, Moved, CallOnly
<1>3. CASE ~OverBudget /\ To(c, "write")
  <2>1. "ok" \in Codes
    BY DEF Codes
  <2>2. PICK q \in CallRow : /\ req' = [req EXCEPT ![c] = q] /\ req'[c] = q /\ q.at = "write"
                             /\ q.photo = req[c].photo /\ q.temp = req[c].temp
    BY <1>1, <1>3, <2>1, Moved
  <2>3. CallOK(c)' /\ RowOK(c)'
    BY <1>1, <2>2 DEF CallOK, RowOK
  <2>4. ClaimsOK' /\ BudgetHolds' /\ Counted' = Counted
    BY <1>1 DEF IInv, ClaimsOK, BudgetHolds, Counted
  <2>5. Cardinality(Counted) + 1 <= MaxCount
    <3>1. Counted \subseteq Live /\ Live \subseteq Commits
      BY DEF Counted, Live
    <3> QED BY <1>3, <3>1, FewerRows, Numbers DEF OverBudget
  <2>6. \A d \in Commits : req'[d].at = "write" => d = c
    BY <1>1, <2>2 DEF RecordFree, ServerTypes
  <2>7. WriteOK'
    BY <1>1, <2>4, <2>5, <2>6 DEF WriteOK
  <2> QED BY <1>1, <2>2, <2>3, <2>4, <2>7, CallInv DEF ServerTypes
<1> QED BY <1>2, <1>3 DEF Persist, Codes

\* A temporary file that is consumed or swept.
LEMMA GoneRow ==
  ASSUME NEW row \in TempRow
  PROVE  Gone(row) \in TempRow /\ Gone(row).row = "gone" /\ Gone(row).claim = NoOne
<1>1. PICK mid : mid = [row EXCEPT !.row = "gone"]
  OBVIOUS
<1>2. PICK end : end = [mid EXCEPT !.claim = NoOne]
  OBVIOUS
<1>3. mid \in TempRow /\ mid.row = "gone"
  BY <1>1 DEF TempRow
<1>4. end \in TempRow /\ end.row = "gone" /\ end.claim = NoOne
  BY <1>2, <1>3 DEF TempRow
<1>5. Gone(row) = [end EXCEPT !.stale = FALSE]
  BY <1>1, <1>2 DEF Gone, TempRow
<1> QED BY <1>4, <1>5 DEF TempRow

\* The row is written, or the call collapses onto a live one.
LEMMA WriteInv ==
  ASSUME IInv, NEW c \in Commits, Write(c)
  PROVE  IInv'
<1>1. /\ req[c].at = "write" /\ UNCHANGED <<create, parent, phone, sweep, orphan, faults>>
      /\ ServerTypes /\ CallOK(c) /\ RowOK(c) /\ faults' \in 0..MaxFaults
  BY Types DEF Write, IInv, PhoneTypes
<1>2. PICK t \in Temps : t = req[c].temp
  BY <1>1 DEF CallOK
<1>3. "ok" \in Codes /\ "fatal" \in Codes
  BY DEF Codes
<1>4. bytes' \in {bytes, bytes \ {c}}
  BY DEF Write
<1>5. CASE temps[t].claim # c
  <2>1. UNCHANGED <<temps, rows>> /\ Ends(c, "undo", "fatal")
    BY <1>2, <1>5 DEF Write
  <2>2. PICK q \in CallRow : /\ req' = [req EXCEPT ![c] = q] /\ req'[c] = q /\ q.at = "undo" /\ q.code = "fatal"
                             /\ q.photo = req[c].photo /\ q.temp = req[c].temp
    BY <1>1, <1>3, <2>1, Moved
  <2>3. CallOK(c)' /\ RowOK(c)'
    BY <1>1, <2>1, <2>2 DEF CallOK, RowOK
  <2>4. WriteOK' /\ BudgetHolds'
    BY <2>1, <2>2, NotWriting
  <2>5. ClaimsOK'
    BY <2>1 DEF IInv, ClaimsOK
  <2> QED BY <1>1, <1>4, <2>1, <2>2, <2>3, <2>4, <2>5, CallInv DEF ServerTypes
<1>6. CASE temps[t].claim = c
  <2>1. To(c, "finish") /\ temps' = [temps EXCEPT ![t] = Gone(temps[t])]
    BY <1>2, <1>6 DEF Write
  <2>2. PICK q \in CallRow : /\ req' = [req EXCEPT ![c] = q] /\ req'[c] = q /\ q.at = "finish"
                             /\ q.photo = req[c].photo /\ q.temp = req[c].temp
    BY <1>1, <1>3, <2>1, Moved
  <2>3. /\ temps' \in [Temps -> TempRow] /\ ClaimsOK' /\ temps'[t].row = "gone"
        /\ \A o \in Temps : temps[o].row = "gone" => temps'[o].row = "gone"
    <3>1. PICK row \in TempRow : row = Gone(temps[t]) /\ row.row = "gone" /\ row.claim = NoOne
      BY <1>1, GoneRow DEF ServerTypes
    <3>2. temps' = [temps EXCEPT ![t] = row]
      BY <2>1, <3>1
    <3> QED BY <1>1, <3>1, <3>2 DEF ServerTypes, IInv, ClaimsOK
  <2>4. \A d \in Commits : req'[d].photo = req[d].photo /\ (req'[d].at = "write" => d # c /\ req[d].at = "write")
    BY <1>1, <2>2 DEF ServerTypes
  <2>5. \A d \in Commits : req'[d].at # "write"
    BY <1>1, <2>4 DEF IInv, WriteOK
  <2>6. WriteOK'
    BY <2>5 DEF WriteOK
  <2>7. Counted \subseteq Commits /\ IsFiniteSet(Counted)
    BY Numbers, FS_Subset DEF Counted
  <2>8. CASE SameBytes(c) = {}
    <3>1. rows' = [rows EXCEPT ![c] = "live"] /\ UNCHANGED bytes
      BY <1>2, <1>6, <2>8 DEF Write
    <3>2. /\ rows' \in [Commits -> RowStates] /\ rows'[c] = "live"
          /\ \A d \in Commits : d # c => rows'[d] = rows[d]
      BY <1>1, <3>1 DEF ServerTypes, RowStates
    <3>3. Kept(c)'
      BY <3>2 DEF Kept
    <3>4. CallOK(c)' /\ RowOK(c)'
      BY <1>1, <2>2, <2>3, <3>1, <3>2, <3>3, <1>2 DEF CallOK, RowOK
    <3>5. Counted' = Counted \cup {c}
      BY <3>2 DEF Counted
    <3>6. Cardinality(Counted') <= Cardinality(Counted) + 1
      <4>1. PICK C, D : C = Counted /\ D = Counted'
        OBVIOUS
      <4>2. D = C \cup {c} /\ IsFiniteSet(C)
        BY <4>1, <2>7, <3>5
      <4>3. Cardinality(C) \in Nat
        BY <4>2, FS_CardinalityType
      <4>4. Cardinality(D) = Cardinality(C) \/ Cardinality(D) = Cardinality(C) + 1
        BY <4>2, FS_AddElement, Zenon
      <4>5. Cardinality(D) <= Cardinality(C) + 1
        BY <4>3, <4>4
      <4> QED BY <4>1, <4>5
    <3>7. Cardinality(Counted) + 1 <= MaxCount
      BY <1>1 DEF IInv, WriteOK
    <3>8. BudgetHolds'
      <4>1. Cardinality(Counted') \in Nat /\ Cardinality(Counted) \in Nat
        BY <2>7, <3>5, FS_AddElement, FS_CardinalityType
      <4>2. Cardinality(Counted') <= MaxCount
        BY <3>6, <3>7, <4>1, Numbers
      <4> QED BY <4>2 DEF BudgetHolds, Counted
    <3> QED BY <1>1, <1>4, <2>2, <2>3, <2>6, <3>1, <3>2, <3>4, <3>8, CallInv DEF ServerTypes
  <2>9. CASE SameBytes(c) # {}
    <3>1. UNCHANGED rows
      BY <1>2, <1>6, <2>9 DEF Write
    <3>2. Kept(c)
      BY <2>9 DEF Kept, SameBytes, Live
    <3>3. Kept(c)'
      BY <2>4, <3>1, <3>2 DEF Kept
    <3>4. CallOK(c)' /\ RowOK(c)'
      BY <1>1, <2>2, <2>3, <3>1, <3>3, <1>2 DEF CallOK, RowOK
    <3>5. BudgetHolds'
      BY <3>1 DEF IInv, BudgetHolds
    <3> QED BY <1>1, <1>4, <2>2, <2>3, <2>6, <3>1, <3>4, <3>5, CallInv DEF ServerTypes
  <2> QED BY <2>8, <2>9
<1> QED BY <1>5, <1>6

\* A claim is released, or is another call's by now.
LEMMA ReleasedRows ==
  ASSUME IInv, NEW c \in Commits, req[c].at # "unsent", temps' = Released(c)
  PROVE  /\ temps' \in [Temps -> TempRow] /\ ClaimsOK'
         /\ \A o \in Temps : temps'[o].row = temps[o].row
         /\ \A o \in Temps : temps[o].claim # c => temps'[o] = temps[o]
<1>1. PICK t \in Temps : t = req[c].temp
  BY DEF IInv, CallOK
<1>2. temps \in [Temps -> TempRow]
  BY Types DEF IInv, ServerTypes
<1>3. PICK mid : mid = [temps[t] EXCEPT !.claim = NoOne]
  OBVIOUS
<1>4. PICK free : free = [mid EXCEPT !.stale = FALSE]
  OBVIOUS
<1>5. mid \in TempRow /\ mid.row = temps[t].row /\ mid.claim = NoOne
  BY <1>2, <1>3 DEF TempRow
<1>6. free \in TempRow /\ free.row = temps[t].row /\ free.claim = NoOne
  BY <1>4, <1>5 DEF TempRow
<1>7. temps' = [temps EXCEPT ![t] = IF temps[t].claim = c THEN free ELSE temps[t]]
  BY <1>1, <1>2, <1>3, <1>4 DEF Released
<1> QED BY <1>2, <1>6, <1>7 DEF IInv, ClaimsOK

\* A refused or failed commit is undone.
LEMMA UndoInv ==
  ASSUME IInv, NEW c \in Commits, Undo(c)
  PROVE  IInv'
<1>1. /\ req[c].at = "undo" /\ UNCHANGED <<create, parent, phone, rows, sweep, orphan, faults>>
      /\ bytes' = bytes \ {c} /\ temps' = Released(c) /\ To(c, "answered")
      /\ ServerTypes /\ CallOK(c) /\ RowOK(c) /\ faults' \in 0..MaxFaults
  BY Types DEF Undo, IInv, PhoneTypes
<1>2. "ok" \in Codes
  BY DEF Codes
<1>3. PICK q \in CallRow : /\ req' = [req EXCEPT ![c] = q] /\ req'[c] = q /\ q.at = "answered"
                           /\ q.code = req[c].code /\ q.photo = req[c].photo /\ q.temp = req[c].temp
  BY <1>1, <1>2, Moved
<1>4. /\ temps' \in [Temps -> TempRow] /\ ClaimsOK'
      /\ \A o \in Temps : temps'[o].row = temps[o].row
  BY <1>1, ReleasedRows
<1>5. CallOK(c)' /\ RowOK(c)'
  BY <1>1, <1>3 DEF CallOK, RowOK
<1>6. WriteOK' /\ BudgetHolds'
  BY <1>1, <1>3, NotWriting
<1> QED BY <1>1, <1>3, <1>4, <1>5, <1>6, CallInv DEF ServerTypes

\* After the transaction: the temporary object goes, the answer is signed or not.
LEMMA FinishInv ==
  ASSUME IInv, NEW c \in Commits, Finish(c) \/ SigningFails(c)
  PROVE  IInv'
<1>1. /\ req[c].at = "finish" /\ UNCHANGED <<create, parent, phone, rows, sweep, orphan>>
      /\ bytes' = bytes \ {req[c].temp} /\ temps' \in {temps, Released(c)}
      /\ ServerTypes /\ CallOK(c) /\ RowOK(c) /\ faults' \in 0..MaxFaults
  BY Types, FaultType DEF Finish, SigningFails, IInv, PhoneTypes
<1>2. "transient" \in Codes /\ (To(c, "answered") \/ Ends(c, "answered", "transient"))
  BY DEF Codes, Finish, SigningFails
<1>3. PICK q \in CallRow : /\ req' = [req EXCEPT ![c] = q] /\ req'[c] = q /\ q.at = "answered"
                           /\ q.photo = req[c].photo /\ q.temp = req[c].temp
  BY <1>1, <1>2, Moved
<1>4. /\ temps' \in [Temps -> TempRow] /\ ClaimsOK'
      /\ \A o \in Temps : temps'[o].row = temps[o].row
  <2>1. CASE temps' = temps
    BY <1>1, <2>1 DEF ServerTypes, IInv, ClaimsOK
  <2>2. CASE temps' = Released(c)
    BY <1>1, <2>2, ReleasedRows
  <2> QED BY <1>1, <2>1, <2>2
<1>5. \A d \in Commits : req'[d].photo = req[d].photo
  BY <1>1, <1>3 DEF ServerTypes
<1>6. Kept(c)'
  BY <1>1, <1>5 DEF CallOK, Kept
<1>7. \A d \in Commits : d \in bytes => d \in bytes'
  BY <1>1, Numbers DEF CallOK
<1>8. CallOK(c)' /\ RowOK(c)'
  BY <1>1, <1>3, <1>6, <1>7 DEF CallOK, RowOK
<1>9. WriteOK' /\ BudgetHolds'
  BY <1>1, <1>3, NotWriting
<1> QED BY <1>1, <1>3, <1>4, <1>7, <1>8, <1>9, CallInv DEF ServerTypes

\* The server dies: whatever was under way stays where it was.
LEMMA DiesInv == ASSUME IInv, ServerDies PROVE IInv'
<1>1. /\ PhoneTypes /\ ServerTypes /\ faults' \in 0..MaxFaults
      /\ UNCHANGED <<create, parent, phone, temps, rows, bytes>> /\ sweep' = {} /\ orphan' = NoOne
  BY Types, FaultType DEF ServerDies, IInv, PhoneTypes
<1>2. ASSUME NEW c \in Commits
      PROVE  /\ req'[c] \in CallRow /\ req'[c].photo = req[c].photo /\ req'[c].temp = req[c].temp
             /\ \/ req'[c] = req[c] /\ req[c].at \in {"unsent", "answered"}
                \/ req'[c].at = "dead" /\ req[c].at # "unsent"
  <2>1. PICK q : q = [req[c] EXCEPT !.at = "dead"]
    OBVIOUS
  <2>2. q \in CallRow /\ q.at = "dead" /\ q.photo = req[c].photo /\ q.temp = req[c].temp
    BY <1>1, <2>1 DEF ServerTypes, CallRow
  <2>3. req'[c] = IF req[c].at \in {"unsent", "answered"} THEN req[c] ELSE q
    BY <2>1 DEF ServerDies
  <2>4. req[c] \in CallRow
    BY <1>1 DEF ServerTypes
  <2>5. CASE req[c].at \in {"unsent", "answered"}
    BY <2>3, <2>4, <2>5
  <2>6. CASE req[c].at \notin {"unsent", "answered"}
    BY <2>2, <2>3, <2>6
  <2> QED BY <2>5, <2>6
<1>3. req' \in [Commits -> CallRow]
  <2>1. req' = [c \in Commits |-> req'[c]]
    BY DEF ServerDies
  <2> QED BY <1>2, <2>1
<1>4. PhoneTypes' /\ ServerTypes'
  BY <1>1, <1>3 DEF PhoneTypes, ServerTypes, phone
<1>5. PhoneOK'
  BY <1>1, <1>2 DEF IInv, PhoneOK, phone
<1>6. ASSUME NEW c \in Commits PROVE CallOK(c)' /\ RowOK(c)'
  <2>1. CallOK(c) /\ RowOK(c)
    BY DEF IInv
  <2>2. Kept(c) => Kept(c)'
    BY <1>1, <1>2 DEF Kept
  <2> QED BY <1>1, <1>2, <2>1, <2>2 DEF CallOK, RowOK
<1>7. ClaimsOK' /\ OrphanOK' /\ BudgetHolds'
  BY <1>1 DEF IInv, ClaimsOK, OrphanOK, BudgetHolds
<1>8. WriteOK'
  BY <1>2 DEF WriteOK
<1> QED BY <1>4, <1>5, <1>6, <1>7, <1>8, TypesNext DEF IInv
-----------------------------------------------------------------------------
(* Users, the clock and the jobs. *)

\* The record comes and goes.
LEMMA ParentInv == ASSUME IInv, CreateApplies \/ DeleteParent PROVE IInv'
<1>1. /\ PhoneTypes /\ ServerTypes /\ UNCHANGED <<create, phone, server, faults>>
      /\ parent' \in {"live", "dead"} /\ (parent' = "live" => parent = "none")
  BY Types DEF IInv, CreateApplies, DeleteParent
<1>2. ClaimsOK' /\ OrphanOK'
  BY <1>1 DEF IInv, ClaimsOK, OrphanOK, server, CreateApplies, DeleteParent
<1> QED BY <1>1, <1>2, JobInv DEF PhoneTypes, ServerTypes, server

\* A user deletes or restores a file.
LEMMA FileInv ==
  ASSUME IInv, NEW c \in Commits, DeleteFile(c) \/ RestoreFile(c)
  PROVE  IInv'
<1>1. /\ PhoneTypes /\ ServerTypes /\ UNCHANGED <<create, parent, phone, temps, req, bytes, sweep, orphan, faults>>
      /\ rows[c] # "none" /\ \E r \in {"trashed", "restored"} : rows' = [rows EXCEPT ![c] = r]
  BY Types DEF IInv, DeleteFile, RestoreFile, Live
<1>2. PICK r \in {"trashed", "restored"} : rows' = [rows EXCEPT ![c] = r]
  BY <1>1
<1>3. /\ rows' \in [Commits -> RowStates] /\ rows'[c] = r
      /\ \A d \in Commits : d # c => rows'[d] = rows[d]
  BY <1>1, <1>2 DEF ServerTypes, RowStates
<1>4. ClaimsOK' /\ OrphanOK'
  BY <1>1, <1>3 DEF IInv, ClaimsOK, OrphanOK, ServerTypes
<1> QED BY <1>1, <1>3, <1>4, JobInv DEF PhoneTypes, ServerTypes

\* The clock: temporary files expire, claims outlive their grace.
LEMMA ClockInv ==
  ASSUME IInv, NEW t \in Temps, Expire(t) \/ GraceEnds(t)
  PROVE  IInv'
<1>1. /\ PhoneTypes /\ ServerTypes
      /\ UNCHANGED <<create, parent, phone, req, rows, bytes, sweep, orphan, faults>>
  BY Types DEF IInv, Expire, GraceEnds
<1>2. PICK row : /\ row \in TempRow /\ row.row = temps[t].row /\ row.claim = temps[t].claim
                 /\ temps' = [temps EXCEPT ![t] = row]
  <2>1. PICK a, b : a = [temps[t] EXCEPT !.expired = TRUE] /\ b = [temps[t] EXCEPT !.stale = TRUE]
    OBVIOUS
  <2>2. /\ a \in TempRow /\ a.row = temps[t].row /\ a.claim = temps[t].claim
        /\ b \in TempRow /\ b.row = temps[t].row /\ b.claim = temps[t].claim
    BY <1>1, <2>1 DEF ServerTypes, TempRow
  <2>3. temps' = [temps EXCEPT ![t] = a] \/ temps' = [temps EXCEPT ![t] = b]
    BY <2>1 DEF Expire, GraceEnds
  <2> QED BY <2>2, <2>3
<1>3. /\ temps' \in [Temps -> TempRow] /\ ClaimsOK' /\ OrphanOK'
      /\ \A o \in Temps : temps[o].row = "gone" => temps'[o].row = "gone"
  BY <1>1, <1>2 DEF ServerTypes, IInv, ClaimsOK, OrphanOK
<1> QED BY <1>1, <1>3, JobInv DEF PhoneTypes, ServerTypes

\* The sweeper.
LEMMA SweepInv == ASSUME IInv, SweepSelects \/ \E t \in Temps : Sweep(t) PROVE IInv'
<1>1. /\ PhoneTypes /\ ServerTypes
      /\ UNCHANGED <<create, parent, phone, req, rows, orphan, faults>> /\ sweep' \subseteq Temps
  BY Types DEF IInv, SweepSelects, Sweep, Candidates, ServerTypes
<1>2. CASE UNCHANGED <<temps, bytes>>
  <2>1. ClaimsOK' /\ OrphanOK'
    BY <1>1, <1>2 DEF IInv, ClaimsOK, OrphanOK
  <2> QED BY <1>1, <1>2, <2>1, JobInv DEF PhoneTypes, ServerTypes
<1>3. ASSUME NEW t \in Temps, temps' = [temps EXCEPT ![t] = Gone(@)], bytes' = bytes \ {t}
      PROVE  IInv'
  <2>1. PICK row \in TempRow : row = Gone(temps[t]) /\ row.row = "gone" /\ row.claim = NoOne
    BY <1>1, GoneRow DEF ServerTypes
  <2>2. temps' = [temps EXCEPT ![t] = row]
    BY <1>3, <2>1
  <2>3. /\ temps' \in [Temps -> TempRow] /\ ClaimsOK' /\ OrphanOK'
        /\ \A o \in Temps : temps[o].row = "gone" => temps'[o].row = "gone"
    BY <1>1, <2>1, <2>2 DEF ServerTypes, IInv, ClaimsOK, OrphanOK
  <2>4. bytes' \subseteq Temps \cup Commits /\ \A c \in Commits : c \in bytes => c \in bytes'
    BY <1>1, <1>3, Numbers DEF ServerTypes
  <2> QED BY <1>1, <2>3, <2>4, JobInv DEF PhoneTypes, ServerTypes
<1> QED BY <1>2, <1>3 DEF SweepSelects, Sweep

\* The reaper.
LEMMA ReapInv == ASSUME IInv, ReapRow \/ \E c \in Commits : ReapObject(c) PROVE IInv'
<1>1. PhoneTypes /\ ServerTypes
  BY Types DEF IInv
<1>2. ASSUME NEW c \in Commits, ReapObject(c) PROVE IInv'
  <2>1. /\ UNCHANGED <<create, parent, phone, temps, req, rows, sweep, faults>> /\ orphan' = c
        /\ bytes' = bytes \ {c} /\ rows[c] # "none" /\ parent # "live"
    BY <1>2 DEF ReapObject, Live
  <2>2. parent = "dead"
    BY <1>1, <2>1 DEF IInv, RowOK, ServerTypes
  <2>3. ClaimsOK' /\ OrphanOK'
    BY <2>1, <2>2 DEF IInv, ClaimsOK, OrphanOK
  <2> QED BY <1>1, <2>1, <2>2, <2>3, JobInv DEF PhoneTypes, ServerTypes
<1>3. ASSUME ReapRow PROVE IInv'
  <2>1. /\ UNCHANGED <<create, parent, phone, temps, req, bytes, sweep, faults>> /\ orphan' = NoOne
        /\ orphan \in Commits /\ rows[orphan] # "none" /\ parent = "dead"
    BY <1>1, <1>3 DEF ReapRow, ServerTypes, IInv, OrphanOK
  <2>2. PICK c \in Commits : c = orphan
    BY <2>1
  <2>3. rows' = [rows EXCEPT ![c] = "trashed"]
    BY <1>3, <2>2 DEF ReapRow
  <2>4. /\ rows' \in [Commits -> RowStates] /\ rows'[c] = "trashed"
        /\ \A d \in Commits : d # c => rows'[d] = rows[d]
    BY <1>1, <2>3 DEF ServerTypes, RowStates
  <2>5. ClaimsOK' /\ OrphanOK'
    BY <2>1 DEF IInv, ClaimsOK, OrphanOK
  <2> QED BY <1>1, <2>1, <2>2, <2>4, <2>5, JobInv DEF PhoneTypes, ServerTypes
<1> QED BY <1>2, <1>3
-----------------------------------------------------------------------------
\* Every step keeps the invariant.
LEMMA NextInv == IInv /\ [Next]_vars => IInv'
<1> SUFFICES ASSUME IInv, [Next]_vars PROVE IInv'
  OBVIOUS
<1>1. CASE UNCHANGED vars
  <2>1. UNCHANGED <<parent, server, create, att, up, recovered, faults, req>>
    BY <1>1 DEF vars, phone, server
  <2>2. PhoneTypes' /\ PhoneOK'
    BY <2>1, Types DEF IInv, PhoneTypes, PhoneOK
  <2> QED BY <2>1, <2>2, PhoneInv
<1>2. CASE Save \/ CreateIsAnswered \/ CreateIsRefused
  BY <1>2, CreateInv
<1>3. CASE CreateApplies \/ DeleteParent
  BY <1>3, ParentInv
<1>4. CASE Uploader
  BY <1>4, RecoverInv, BeginInv, StagedInv, SendInv, AnsweredInv DEF Uploader
<1>5. CASE Service
  BY <1>5, StageInv, ResolveInv, ClaimInv, CopyInv, PersistInv, WriteInv, UndoInv, FinishInv DEF Service
<1>6. CASE Jobs
  BY <1>6, SweepInv, ReapInv, ClockInv DEF Jobs
<1>7. CASE Failures
  BY <1>7, PhoneFaultInv, DiesInv, NoAnswerInv, CopyInv, FinishInv DEF Failures
<1>8. CASE \E c \in Commits : DeleteFile(c) \/ RestoreFile(c)
  BY <1>8, FileInv
<1> QED BY <1>1, <1>2, <1>3, <1>4, <1>5, <1>6, <1>7, <1>8 DEF Next

\* The invariant holds in every reachable state.
THEOREM Invariant == Spec => []IInv
BY InitInv, NextInv, PTL DEF Spec

\* The budget of the record: overlapping commit calls, from old uploaders too,
\* never make more rows live than max_attachments_allowed
\* (AttachmentService.validateAtCommit under the advisory lock).
THEOREM BudgetIsKept == Spec => []Inv
<1>1. IInv => Inv
  BY DEF IInv, Inv
<1> QED BY <1>1, Invariant, PTL

\* A file that is live on a live record has its object, whatever undo,
\* collapse, sweep and reap have deleted.
THEOREM FilesKeepTheirBytes == Spec => []LiveHasBytes
<1>1. IInv => LiveHasBytes
  BY DEF IInv, RowOK, LiveHasBytes, Live
<1> QED BY <1>1, Invariant, PTL
-----------------------------------------------------------------------------
\* What a step may do to a temporary file t that call c has claimed.
Protected(t, c) == temps'[t].claim = c /\ (t \in bytes => t \in bytes')

\* A claim within its grace is lost, or its object gone, only by a step of the
\* claimer.
LEMMA ClaimStep ==
  ASSUME IInv, [Next]_vars, NEW t \in Temps, NEW c, c = temps[t].claim, c # NoOne, ~temps[t].stale
  PROVE  Protected(t, c) \/ req'[c].at # req[c].at
<1>1. PhoneTypes /\ ServerTypes /\ c \in Commits /\ temps[t] \in TempRow /\ temps[t].row = "staged"
  BY Types DEF IInv, ServerTypes, TempRow, ClaimsOK
<1>2. ASSUME UNCHANGED <<temps, bytes>> PROVE Protected(t, c)
  BY <1>2 DEF Protected
<1>3. ASSUME UNCHANGED vars PROVE Protected(t, c)
  BY <1>2, <1>3 DEF vars, server
<1>4. CASE Save \/ CreateApplies \/ CreateIsAnswered \/ CreateIsRefused \/ DeleteParent
  BY <1>2, <1>4 DEF server, Save, CreateApplies, CreateIsAnswered, CreateIsRefused, DeleteParent
<1>5. CASE Uploader
  BY <1>2, <1>5 DEF server, Uploader, Recover, RequeueBlocked, Begin, Staged, SendCommit, Answered
<1>6. CASE Service
  <2>1. ASSUME NEW w \in Workers, NEW o \in Temps, Stage(w, o) PROVE Protected(t, c)
    BY <1>1, <2>1 DEF Stage, Protected, ServerTypes
  <2>2. ASSUME NEW d \in Commits, Resolve(d) \/ Persist(d) PROVE Protected(t, c)
    BY <1>2, <2>2 DEF Resolve, Persist
  <2>3. ASSUME NEW d \in Commits, Claim(d) PROVE Protected(t, c)
    BY <1>1, <2>3 DEF Claim, Protected, ServerTypes
  <2>4. ASSUME NEW d \in Commits, Copy(d) PROVE Protected(t, c)
    BY <2>4 DEF Copy, Protected
  <2>5. ASSUME NEW d \in Commits, Write(d) PROVE Protected(t, c) \/ req'[c].at # req[c].at
    <3>1. t \in bytes => t \in bytes'
      BY <2>5, Numbers DEF Write
    <3>2. CASE temps[req[d].temp].claim # d
      BY <2>5, <3>1, <3>2 DEF Write, Protected
    <3>3. CASE temps[req[d].temp].claim = d /\ req[d].temp # t
      BY <2>5, <3>1, <3>3, <1>1 DEF Write, Protected, ServerTypes
    <3>4. CASE temps[req[d].temp].claim = d /\ req[d].temp = t
      <4>1. To(c, "finish") /\ req[c].at = "write"
        BY <2>5, <3>4 DEF Write
      <4> QED BY <4>1, <1>1 DEF To, ServerTypes, CallRow
    <3> QED BY <3>2, <3>3, <3>4
  <2>6. ASSUME NEW d \in Commits, Undo(d) PROVE Protected(t, c) \/ req'[c].at # req[c].at
    <3>1. t \in bytes => t \in bytes'
      BY <2>6, Numbers DEF Undo
    <3>2. CASE d = c
      BY <2>6, <3>2, <1>1 DEF Undo, To, ServerTypes, CallRow
    <3>3. CASE d # c
      BY <2>6, <3>1, <3>3, <1>1, ReleasedRows DEF Undo, Protected
    <3> QED BY <3>2, <3>3
  <2>7. ASSUME NEW d \in Commits, Finish(d) PROVE Protected(t, c)
    BY <1>1, <2>7 DEF Finish, Protected, IInv, CallOK
  <2> QED BY <1>6, <2>1, <2>2, <2>3, <2>4, <2>5, <2>6, <2>7 DEF Service
<1>7. CASE Jobs
  <2>1. ASSUME SweepSelects \/ ReapRow PROVE Protected(t, c)
    BY <1>2, <2>1 DEF SweepSelects, ReapRow
  <2>2. ASSUME NEW o \in Temps, Expire(o) \/ GraceEnds(o) PROVE Protected(t, c)
    <3>1. ASSUME NEW row \in TempRow
          PROVE  [row EXCEPT !.expired = TRUE].claim = row.claim /\ [row EXCEPT !.stale = TRUE].claim = row.claim
      BY DEF TempRow
    <3>2. temps[o] \in TempRow
      BY <1>1 DEF ServerTypes
    <3> QED BY <1>1, <2>2, <3>1, <3>2 DEF Expire, GraceEnds, Protected, ServerTypes
  <2>3. ASSUME NEW o \in Temps, Sweep(o) PROVE Protected(t, c)
    <3>1. CASE o = t
      <4>1. ~Reapable(t)
        BY <1>1 DEF Reapable
      <4> QED BY <1>2, <2>3, <3>1, <4>1 DEF Sweep
    <3>2. CASE o # t
      BY <1>1, <2>3, <3>2 DEF Sweep, Protected, ServerTypes
    <3> QED BY <3>1, <3>2
  <2>4. ASSUME NEW d \in Commits, ReapObject(d) PROVE Protected(t, c)
    BY <2>4, Numbers DEF ReapObject, Protected
  <2> QED BY <1>7, <2>1, <2>2, <2>3, <2>4 DEF Jobs
<1>8. CASE Failures
  <2>1. ASSUME KillPhone \/ Reopen \/ ServerDies PROVE Protected(t, c)
    BY <1>2, <2>1 DEF KillPhone, Reopen, ServerDies, server
  <2>2. ASSUME NEW w \in Workers, LostCall(w) \/ Gated(w) PROVE Protected(t, c)
    BY <1>2, <2>2 DEF LostCall, Gated, server
  <2>3. ASSUME NEW d \in Commits, CopyFails(d) PROVE Protected(t, c)
    BY <2>3 DEF CopyFails, Protected
  <2>4. ASSUME NEW d \in Commits, SigningFails(d) PROVE Protected(t, c)
    <3>1. temps[req[d].temp].row = "gone" /\ req[d].temp \in Temps
      BY <2>4 DEF SigningFails, IInv, CallOK
    <3>2. req[d].temp # t /\ temps[req[d].temp].claim = NoOne
      BY <1>1, <3>1 DEF IInv, ClaimsOK
    <3>3. temps'[t] = temps[t]
      BY <1>1, <2>4, <3>2 DEF SigningFails, Released, ServerTypes
    <3> QED BY <2>4, <3>2, <3>3 DEF SigningFails, Protected
  <2> QED BY <1>8, <2>1, <2>2, <2>3, <2>4 DEF Failures
<1>9. CASE \E d \in Commits : DeleteFile(d) \/ RestoreFile(d)
  BY <1>2, <1>9 DEF DeleteFile, RestoreFile
<1> QED BY <1>3, <1>4, <1>5, <1>6, <1>7, <1>8, <1>9 DEF Next

\* A claim within its grace is the claimer's: neither the sweeper nor another
\* call nor a job takes the row or the object of the temporary file away.
THEOREM ClaimsProtect == Spec => ClaimProtects
<1>1. ASSUME IInv, [Next]_vars,
             NEW t \in Temps, NEW c, c = temps[t].claim, c # NoOne, ~temps[t].stale,
             temps'[t].claim # c \/ (t \in bytes /\ t \notin bytes')
      PROVE  req'[c].at # req[c].at
  BY <1>1, ClaimStep DEF Protected
<1>2. IInv /\ [Next]_vars =>
        [\A t \in Temps : LET c == temps[t].claim IN
           c # NoOne /\ ~temps[t].stale /\ (temps'[t].claim # c \/ (t \in bytes /\ t \notin bytes'))
               => req'[c].at # req[c].at]_vars
  BY <1>1
<1> QED BY <1>2, Invariant, PTL DEF Spec, ClaimProtects

\* The original of a photo goes only when no create can want it or the photo
\* has a row on the server.
LEMMA OriginalStep ==
  ASSUME IInv, [Next]_vars, NEW p \in Photos, att[p].original, ~att'[p].original
  PROVE  create \in {"none", "terminal"} \/ \E d \in Commits : rows[d] # "none" /\ req[d].photo = p
<1>1. PhoneTypes
  BY Types DEF IInv
<1>2. ~UNCHANGED att
  OBVIOUS
<1>3. ~Save /\ ~CreateApplies /\ ~CreateIsAnswered /\ ~CreateIsRefused /\ ~DeleteParent /\ ~UNCHANGED vars
  BY <1>2 DEF phone, vars, Save, CreateApplies, CreateIsAnswered, CreateIsRefused, DeleteParent
<1>4. ~Jobs /\ ~Service /\ ~\E c \in Commits : DeleteFile(c) \/ RestoreFile(c)
  BY <1>2 DEF phone, Jobs, SweepSelects, ReapRow, Expire, GraceEnds, Sweep, ReapObject, Service, Stage,
              Resolve, Claim, Copy, Persist, Write, Undo, Finish, DeleteFile, RestoreFile
<1>5. ~Recover /\ ~RequeueBlocked
  <2>1. ASSUME NEW row \in AttRow
        PROVE  /\ [row EXCEPT !.status = "pending_upload", !.temp = NoOne].original = row.original
               /\ [row EXCEPT !.status = "pending_upload"].original = row.original
    BY DEF AttRow
  <2>2. att[p] \in AttRow
    BY <1>1 DEF PhoneTypes
  <2> QED BY <2>1, <2>2 DEF Recover, RequeueBlocked
<1>6. CASE Uploader
  <2>1. ASSUME NEW w \in Workers, NEW o \in Photos, Begin(w, o) PROVE create \in {"none", "terminal"}
    BY <2>1, BeginInv DEF Loses
  <2>2. \A w \in Workers : ~Staged(w) /\ \A c \in Commits : ~SendCommit(w, c)
    BY StagedInv, SendInv
  <2>3. ASSUME NEW w \in Workers, Answered(w)
        PROVE  create \in {"none", "terminal"} \/ \E d \in Commits : rows[d] # "none" /\ req[d].photo = p
    BY <2>3, AnsweredInv DEF Loses
  <2> QED BY <1>5, <1>6, <2>1, <2>2, <2>3 DEF Uploader
<1>7. CASE Failures
  <2>1. ~KillPhone /\ ~Reopen /\ ~ServerDies
    BY <1>2 DEF KillPhone, Reopen, ServerDies, phone
  <2>2. \A c \in Commits : ~CopyFails(c) /\ ~SigningFails(c)
    BY <1>2 DEF CopyFails, SigningFails, phone
  <2>3. ASSUME NEW w \in Workers, LostCall(w) \/ Gated(w) PROVE create \in {"none", "terminal"}
    BY <2>3, NoAnswerInv DEF Loses
  <2> QED BY <1>7, <2>1, <2>2, <2>3 DEF Failures
<1> QED BY <1>3, <1>4, <1>6, <1>7 DEF Next

\* The phone deletes the original of a photo last: the server holds its bytes
\* by then, or the record was deleted there, or no create is on its way.
THEOREM OriginalsGoLast == Spec => OriginalGoesLast
<1>1. ASSUME IInv, NEW p \in Photos, NEW d \in Commits, rows[d] # "none", req[d].photo = p
      PROVE  parent = "dead" \/ \E c \in Commits : rows[c] # "none" /\ req[c].photo = p /\ c \in bytes
  <2>1. RowOK(d) /\ parent \in {"none", "live", "dead"}
    BY <1>1, Types DEF IInv, ServerTypes
  <2> QED BY <1>1, <2>1 DEF RowOK
<1>2. ASSUME IInv, [Next]_vars, NEW p \in Photos, att[p].original, ~att'[p].original
      PROVE  \/ create \in {"none", "terminal"} \/ parent = "dead"
             \/ \E c \in Commits : rows[c] # "none" /\ req[c].photo = p /\ c \in bytes
  BY <1>1, <1>2, OriginalStep
<1>3. IInv /\ [Next]_vars =>
        [\A p \in Photos : att[p].original /\ ~att'[p].original =>
           \/ create \in {"none", "terminal"} \/ parent = "dead"
           \/ \E c \in Commits : rows[c] # "none" /\ req[c].photo = p /\ c \in bytes]_vars
  BY <1>2
<1> QED BY <1>3, Invariant, PTL DEF Spec, OriginalGoesLast
=============================================================================
