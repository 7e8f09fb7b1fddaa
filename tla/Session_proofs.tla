--------------------------- MODULE Session_proofs ---------------------------
(***************************************************************************)
(* Proofs about Session, for every number of calls, requests, tokens and   *)
(* faults and every choice of the times to live: reuse detection spares    *)
(* the phone that retries in time, and what a logout, a revocation or a    *)
(* rotation has ended is refused.                                          *)
(***************************************************************************)
EXTENDS Session, TLAPS

CallRows == [pc : CallSteps, ans : Answers, tok : Pairs, pair : 0 .. MaxToken,
             jti : 0 .. MaxToken, age : Nat]
GuardRows == [pc : {"idle", "cache", "load", "fill", "accepted"}, jti : Pairs,
              row : Rows, closed : BOOLEAN]
Revokers == [pc : {"idle", "commit", "del", "tomb", "done"}, jti : 0 .. MaxToken]
Phones == [pc : {"idle", "post", "wait", "out"}, tok : Pairs, call : Calls \cup {NoOne}]

\* A call knows an issued token, the access token it is about to blacklist or
\* has blacklisted, and the pair it answers with.
CallOK(q) ==
  /\ q.tok <= issued /\ (q.pair # 0 => q.pair <= issued /\ q.tok < q.pair)
  /\ q.pc \in {"commit", "reuse", "black"} => q.jti \in Pairs
  /\ q.pc \in {"del", "tomb", "complete"} => q.jti \in black
  /\ q.pc \in {"cached", "complete"} => q.pair # 0
  /\ q.pc = "answer" /\ q.ans = "ok" => q.pair # 0
  /\ q.pc \in {"release", "delete"} => q.ans # "ok"

\* A leader that may still find a reuse: its token is unused, out of the
\* recovery window or without a record, or it was used less than half the
\* grace before the call began to run.
LeadOK(q) ==
  /\ q.pc \in {"find", "commit", "reuse"} =>
        \/ q.tok \in missing \/ used[q.tok] = -1 \/ used[q.tok] >= DoneTtl
        \/ 2 * used[q.tok] < Grace + 2 * q.age
  /\ q.pc = "reuse" => used[q.tok] >= Grace

\* A used token that is not missing has its record until the recovery window
\* ends, and a record names a later pair.
RecordOK(t) ==
  /\ idem[t].status = "done" => idem[t].pair > t /\ idem[t].pair <= issued
  /\ t \notin missing /\ used[t] # -1 /\ used[t] < DoneTtl =>
        idem[t].status = "done" /\ idem[t].ttl + used[t] >= DoneTtl

\* Until the revocation has answered only blacklisted tokens are closed; from
\* its commit on the session is revoked, and from its DEL the cache has no
\* other row.
RevokedOK ==
  /\ revoker.pc # "done" => closed \subseteq black
  /\ revoker.pc = "commit" => revoker.jti \in Pairs
  /\ revoker.pc \in {"del", "tomb", "done"} => session.revoked # "no"
  /\ revoker.pc \in {"tomb", "done"} /\ cached.ttl > 0 => torn \/ cached.row.revoked

\* A request with a closed token that was not blacklisted started after the
\* revocation; an old row that is still to be filled meets the tombstone.
GuardOK(g) ==
  /\ guards[g].closed => revoker.pc = "done"
  /\ guards[g].pc = "fill" /\ guards[g].closed => guards[g].row.revoked
  /\ guards[g].pc = "fill" /\ revoker.pc = "done" => guards[g].row.revoked \/ tomb > 0

TypesOK ==
  /\ TypeOK /\ calls \in [Calls -> CallRows] /\ guards \in [Guards -> GuardRows]
  /\ revoker \in Revokers /\ phone \in Phones /\ faults \in Nat

IInv ==
  /\ TypesOK /\ (\A c \in Calls : CallOK(calls[c]) /\ LeadOK(calls[c]))
  /\ (\A t \in Pairs : RecordOK(t)) /\ RevokedOK /\ (\A g \in Guards : GuardOK(g))
  /\ ClosedIsRefused /\ HonestKeepsSession
-----------------------------------------------------------------------------
(* Calls and their types. *)

\* The types of the state, with the functions and records they are made of.
LEMMA Types ==
  ASSUME TypesOK
  PROVE  /\ issued \in Pairs /\ used \in [Pairs -> -1 .. DoneTtl + 1]
         /\ session \in [revoked : {"no", "logout", "reuse"}, jti : Pairs]
         /\ idem \in [Pairs -> [status : {"none", "pending", "done"}, ttl : 0 .. DoneTtl, pair : 0 .. MaxToken]]
         /\ (dead \subseteq Pairs) /\ (black \subseteq Pairs) /\ (closed \subseteq Pairs) /\ (missing \subseteq Pairs)
         /\ cached \in [row : Rows, ttl : 0 .. CacheTtl] /\ tomb \in 0 .. CacheTtl
         /\ calls \in [Calls -> CallRows] /\ guards \in [Guards -> GuardRows]
         /\ revoker \in Revokers /\ phone \in Phones /\ faults \in Nat
         /\ phone.tok <= issued /\ session.jti <= issued
         /\ wronged \in BOOLEAN /\ torn \in BOOLEAN
BY DEF TypesOK, TypeOK

\* The times, as the proofs use them.
LEMMA Times ==
  /\ MaxToken \in Nat /\ MaxToken >= 1 /\ PendingTtl \in Nat /\ PendingTtl >= 1
  /\ Grace \in Nat /\ DoneTtl \in Nat /\ CacheTtl \in Nat /\ MaxCall \in Nat
  /\ PendingTtl < Grace /\ Grace < DoneTtl /\ CacheTtl > 0
BY SessionAssumption

\* A call that has not begun.
LEMMA FreeRow == Free \in CallRows /\ Free.pc = "free" /\ Free.tok = 1 /\ Free.pair = 0
BY Times DEF Free, CallRows, CallSteps, Answers, Pairs

\* Two fields of a call set at once: its place and its pair.
LEMMA PcAndPair ==
  \A r \in CallRows, x \in CallSteps : \A y :
    [r EXCEPT !.pc = x, !.pair = y] = [pc |-> x, ans |-> r.ans, tok |-> r.tok, pair |-> y, jti |-> r.jti, age |-> r.age]
<1> SUFFICES ASSUME NEW r \in CallRows, NEW x \in CallSteps, NEW y
             PROVE  [r EXCEPT !.pc = x, !.pair = y] = [pc |-> x, ans |-> r.ans, tok |-> r.tok, pair |-> y, jti |-> r.jti, age |-> r.age]
  OBVIOUS
<1> DEFINE s == [r EXCEPT !.pc = x]
<1>1. s \in CallRows  BY DEF CallRows
<1>2. s.pc = x /\ s.ans = r.ans /\ s.tok = r.tok /\ s.pair = r.pair /\ s.jti = r.jti /\ s.age = r.age
  BY DEF CallRows
<1>3. [r EXCEPT !.pc = x, !.pair = y] = [s EXCEPT !.pair = y]  OBVIOUS
<1> HIDE DEF s
<1>4. [s EXCEPT !.pair = y] = [pc |-> s.pc, ans |-> s.ans, tok |-> s.tok, pair |-> y, jti |-> s.jti, age |-> s.age]
  BY <1>1 DEF CallRows
<1> QED BY <1>2, <1>3, <1>4

\* Its place and its access token.
LEMMA PcAndJti ==
  \A r \in CallRows, x \in CallSteps : \A y :
    [r EXCEPT !.pc = x, !.jti = y] = [pc |-> x, ans |-> r.ans, tok |-> r.tok, pair |-> r.pair, jti |-> y, age |-> r.age]
<1> SUFFICES ASSUME NEW r \in CallRows, NEW x \in CallSteps, NEW y
             PROVE  [r EXCEPT !.pc = x, !.jti = y] = [pc |-> x, ans |-> r.ans, tok |-> r.tok, pair |-> r.pair, jti |-> y, age |-> r.age]
  OBVIOUS
<1> DEFINE s == [r EXCEPT !.pc = x]
<1>1. s \in CallRows  BY DEF CallRows
<1>2. s.pc = x /\ s.ans = r.ans /\ s.tok = r.tok /\ s.pair = r.pair /\ s.jti = r.jti /\ s.age = r.age
  BY DEF CallRows
<1>3. [r EXCEPT !.pc = x, !.jti = y] = [s EXCEPT !.jti = y]  OBVIOUS
<1> HIDE DEF s
<1>4. [s EXCEPT !.jti = y] = [pc |-> s.pc, ans |-> s.ans, tok |-> s.tok, pair |-> s.pair, jti |-> y, age |-> s.age]
  BY <1>1 DEF CallRows
<1> QED BY <1>2, <1>3, <1>4

\* Its place and its refresh token.
LEMMA PcAndTok ==
  \A r \in CallRows, x \in CallSteps : \A y :
    [r EXCEPT !.pc = x, !.tok = y] = [pc |-> x, ans |-> r.ans, tok |-> y, pair |-> r.pair, jti |-> r.jti, age |-> r.age]
<1> SUFFICES ASSUME NEW r \in CallRows, NEW x \in CallSteps, NEW y
             PROVE  [r EXCEPT !.pc = x, !.tok = y] = [pc |-> x, ans |-> r.ans, tok |-> y, pair |-> r.pair, jti |-> r.jti, age |-> r.age]
  OBVIOUS
<1> DEFINE s == [r EXCEPT !.pc = x]
<1>1. s \in CallRows  BY DEF CallRows
<1>2. s.pc = x /\ s.ans = r.ans /\ s.tok = r.tok /\ s.pair = r.pair /\ s.jti = r.jti /\ s.age = r.age
  BY DEF CallRows
<1>3. [r EXCEPT !.pc = x, !.tok = y] = [s EXCEPT !.tok = y]  OBVIOUS
<1> HIDE DEF s
<1>4. [s EXCEPT !.tok = y] = [pc |-> s.pc, ans |-> s.ans, tok |-> y, pair |-> s.pair, jti |-> s.jti, age |-> s.age]
  BY <1>1 DEF CallRows
<1> QED BY <1>2, <1>3, <1>4

\* A step of a call's program counter.
LEMMA GoesTo ==
  ASSUME TypesOK, NEW c \in Calls, NEW pc \in CallSteps, Goes(c, pc)
  PROVE  \E q \in CallRows : /\ calls' = [calls EXCEPT ![c] = q]
                             /\ q.pc = pc /\ q.ans = calls[c].ans /\ q.tok = calls[c].tok
                             /\ q.pair = calls[c].pair /\ q.jti = calls[c].jti /\ q.age = calls[c].age
<1>1. calls[c] \in CallRows  BY Types
<1>2. [calls[c] EXCEPT !.pc = pc] \in CallRows  BY <1>1 DEF CallRows
<1>3. calls' = [calls EXCEPT ![c] = [calls[c] EXCEPT !.pc = pc]]  BY Types DEF Goes
<1> QED BY <1>1, <1>2, <1>3 DEF CallRows

\* The end of a call's work, with what it answers.
LEMMA EndsTo ==
  ASSUME TypesOK, NEW c \in Calls, NEW pc \in CallSteps, NEW what \in Answers, Ends(c, pc, what)
  PROVE  \E q \in CallRows : /\ calls' = [calls EXCEPT ![c] = q]
                             /\ q.pc = pc /\ q.ans = what /\ q.tok = calls[c].tok
                             /\ q.pair = (IF what = "ok" THEN calls[c].pair ELSE 0) /\ q.jti = 0
<1> DEFINE p == IF what = "ok" THEN calls[c].pair ELSE 0
           q == [pc |-> pc, ans |-> what, tok |-> calls[c].tok, pair |-> p, jti |-> 0, age |-> calls[c].age]
<1>1. calls[c] \in CallRows /\ calls \in [Calls -> CallRows]  BY Types
<1>2. p \in 0 .. MaxToken  BY <1>1, Times DEF CallRows
<1>3. q \in CallRows
  <2> HIDE DEF p
  <2> QED BY <1>1, <1>2, Times DEF CallRows
<1>4. calls' = [calls EXCEPT ![c] = q]  BY <1>1 DEF Ends, CallRows
<1> HIDE DEF p
<1>5. q.pc = pc /\ q.ans = what /\ q.tok = calls[c].tok /\ q.pair = p /\ q.jti = 0  OBVIOUS
<1> QED BY <1>3, <1>4, <1>5 DEF p

\* Only the row of one call changes: what the invariant says of the calls.
LEMMA CallRow ==
  ASSUME IInv, NEW c \in Calls, NEW q \in CallRows, calls' = [calls EXCEPT ![c] = q],
         CallOK(q)', LeadOK(q)',
         \A r \in CallRows : CallOK(r) /\ LeadOK(r) => (CallOK(r) /\ LeadOK(r))'
  PROVE  /\ calls' \in [Calls -> CallRows]
         /\ (\A d \in Calls : CallOK(calls[d]) /\ LeadOK(calls[d]))'
<1>1. calls \in [Calls -> CallRows]  BY Types DEF IInv
<1>2. \A d \in Calls : calls'[d] = q \/ calls'[d] = calls[d]  BY <1>1
<1>3. \A d \in Calls : CallOK(calls[d]) /\ LeadOK(calls[d])  BY DEF IInv
<1>4. ASSUME NEW d \in Calls PROVE (CallOK(calls[d]) /\ LeadOK(calls[d]))'
  <2>1. CASE calls'[d] = q  BY <2>1 DEF CallOK, LeadOK
  <2>2. CASE calls'[d] = calls[d]
    <3>1. calls[d] \in CallRows  BY <1>1
    <3> QED BY <2>2, <3>1, <1>3 DEF CallOK, LeadOK
  <2> QED BY <1>2, <2>1, <2>2
<1> QED BY <1>1, <1>4
-----------------------------------------------------------------------------
(* Steps that change one call, the phone and the count of faults only. *)

\* A step of one call that touches neither a token nor a record it holds.
LEMMA QuietCall ==
  ASSUME IInv, NEW c \in Calls, NEW q \in CallRows, calls' = [calls EXCEPT ![c] = q],
         CallOK(q), LeadOK(q), phone' \in Phones, phone'.tok <= issued, faults' \in Nat,
         UNCHANGED <<tokens, redis, black, guards, revoker, history>>
  PROVE  IInv'
<1> USE DEF tokens, redis, history
<1>1. /\ calls' \in [Calls -> CallRows]
      /\ (\A d \in Calls : CallOK(calls[d]) /\ LeadOK(calls[d]))'
  <2>1. \A r \in CallRows : CallOK(r) /\ LeadOK(r) => (CallOK(r) /\ LeadOK(r))'  BY DEF CallOK, LeadOK
  <2>2. CallOK(q)' /\ LeadOK(q)'  BY DEF CallOK, LeadOK
  <2> QED BY <2>1, <2>2, CallRow
<1>2. TypesOK'
  <2>1. TypeOK'  BY <1>1 DEF IInv, TypesOK, TypeOK, CallOK
  <2> QED BY <1>1, <2>1 DEF IInv, TypesOK
<1>3. (\A t \in Pairs : RecordOK(t))' /\ RevokedOK' /\ (\A g \in Guards : GuardOK(g))'
      /\ ClosedIsRefused' /\ HonestKeepsSession'
  BY DEF IInv, RecordOK, RevokedOK, GuardOK, ClosedIsRefused, RefusedAtOnce, HonestKeepsSession
<1> QED BY <1>1, <1>2, <1>3 DEF IInv

\* A fault is counted.
LEMMA FaultCounted ==
  ASSUME TypesOK, NEW kind, Fault(kind)
  PROVE  faults' \in Nat
BY Types DEF Fault

\* A call that waits, times out or leaves its answer to the phone.
LEMMA EndsQuietly ==
  ASSUME IInv, NEW c \in Calls, NEW pc \in {"release", "answer"}, NEW what \in Answers, Ends(c, pc, what),
         what = "ok" => pc = "answer" /\ calls[c].pair # 0,
         faults' \in Nat, UNCHANGED <<tokens, redis, black, guards, revoker, phone, history>>
  PROVE  IInv'
<1>1. PICK q \in CallRows : /\ calls' = [calls EXCEPT ![c] = q]
                            /\ q.pc = pc /\ q.ans = what /\ q.tok = calls[c].tok
                            /\ q.pair = (IF what = "ok" THEN calls[c].pair ELSE 0) /\ q.jti = 0
  <2>1. pc \in CallSteps /\ TypesOK  BY DEF CallSteps, IInv
  <2> QED BY <2>1, EndsTo
<1>2. CallOK(calls[c])  BY DEF IInv
<1>3. CallOK(q) /\ LeadOK(q)  BY <1>1, <1>2 DEF CallOK, LeadOK
<1>4. phone' \in Phones /\ phone'.tok <= issued  BY Types DEF IInv
<1> QED BY <1>1, <1>3, <1>4, QuietCall

\* A call whose program counter alone moves to a place that asks nothing new.
LEMMA MovesQuietly ==
  ASSUME IInv, NEW c \in Calls, NEW pc \in CallSteps, Goes(c, pc),
         pc \in {"poll", "delete", "answer"}, pc \in {"delete", "answer"} => calls[c].ans # "ok",
         UNCHANGED <<tokens, redis, black, guards, revoker, phone, history, faults>>
  PROVE  IInv'
<1>1. PICK q \in CallRows : /\ calls' = [calls EXCEPT ![c] = q]
                            /\ q.pc = pc /\ q.ans = calls[c].ans /\ q.tok = calls[c].tok
                            /\ q.pair = calls[c].pair /\ q.jti = calls[c].jti /\ q.age = calls[c].age
  BY GoesTo DEF IInv
<1>2. CallOK(calls[c])  BY DEF IInv
<1>3. CallOK(q) /\ LeadOK(q)  BY <1>1, <1>2 DEF CallOK, LeadOK
<1>4. phone' \in Phones /\ phone'.tok <= issued /\ faults' \in Nat  BY Types DEF IInv
<1> QED BY <1>1, <1>3, <1>4, QuietCall

\* A call finds the record pending and polls.
LEMMA ClaimWaitsInv ==
  ASSUME IInv, NEW c \in Calls, ClaimWaits(c)
  PROVE  IInv'
BY MovesQuietly DEF ClaimWaits, CallSteps

\* The release reads the record: to delete it only if it is still pending.
LEMMA ReleaseReadsInv ==
  ASSUME IInv, NEW c \in Calls, ReleaseReads(c)
  PROVE  IInv'
<1>1. calls[c].ans # "ok"  BY DEF IInv, CallOK, ReleaseReads, At
<1> QED BY <1>1, MovesQuietly DEF ReleaseReads, CallSteps

\* A call ends without having changed anything.
LEMMA FindEndsInv ==
  ASSUME IInv, NEW c \in Calls,
         PollTimesOut(c) \/ FindRevoked(c) \/ FindRecent(c) \/ LostRecent(c) \/ AnswerCached(c)
  PROVE  IInv'
<1>1. faults' \in Nat
  BY Types DEF IInv, PollTimesOut, FindRevoked, FindRecent, LostRecent, AnswerCached
<1>2. CASE PollTimesOut(c)
  BY <1>1, <1>2, EndsQuietly DEF PollTimesOut, Answer, Answers
<1>3. CASE FindRevoked(c) \/ FindRecent(c) \/ LostRecent(c)
  BY <1>1, <1>3, EndsQuietly DEF FindRevoked, FindRecent, LostRecent, Release, Answers
<1>4. CASE AnswerCached(c)
  <2>1. calls[c].pair # 0  BY <1>4 DEF IInv, CallOK, AnswerCached, At
  <2> QED BY <1>1, <1>4, <2>1, EndsQuietly DEF AnswerCached, Answer, Answers
<1> QED BY <1>2, <1>3, <1>4

\* A call fails at its device proof or at writing the done record.
LEMMA FailsInv ==
  ASSUME IInv, NEW c \in Calls, ProofFails(c) \/ CompleteFails(c)
  PROVE  IInv'
<1>1. faults' \in Nat  BY FaultCounted DEF IInv, ProofFails, CompleteFails
<1>2. CASE ProofFails(c)
  BY <1>1, <1>2, EndsQuietly DEF ProofFails, Answers
<1>3. CASE CompleteFails(c)
  BY <1>1, <1>3, EndsQuietly DEF CompleteFails, Release, Answers
<1> QED BY <1>2, <1>3

\* The cached pair is one that was issued after the token.
LEMMA ClaimCachedInv ==
  ASSUME IInv, NEW c \in Calls, ClaimCached(c)
  PROVE  IInv'
<1> DEFINE r == calls[c]
           p == idem[r.tok].pair
           q == [pc |-> "cached", ans |-> r.ans, tok |-> r.tok, pair |-> p, jti |-> r.jti, age |-> r.age]
<1>1. r \in CallRows /\ r.tok \in Pairs /\ calls \in [Calls -> CallRows]  BY Types DEF IInv, CallRows
<1>2. p \in 0 .. MaxToken /\ p > r.tok /\ p <= issued
  BY <1>1, Types, Times DEF IInv, RecordOK, ClaimCached, Record, Pairs
<1>3. q \in CallRows
  <2>1. "cached" \in CallSteps  BY DEF CallSteps
  <2> HIDE DEF p
  <2> QED BY <1>1, <1>2, <2>1 DEF CallRows
<1>4. calls' = [calls EXCEPT ![c] = q]
  <2>1. q = [r EXCEPT !.pc = "cached", !.pair = p]
    <3>1. "cached" \in CallSteps  BY DEF CallSteps
    <3> QED BY <1>1, <3>1, PcAndPair
  <2> QED BY <2>1 DEF ClaimCached, Record
<1>5. CallOK(r)  BY DEF IInv
<1>6. q.pc = "cached" /\ q.tok = r.tok /\ q.pair = p  OBVIOUS
<1>7. phone' \in Phones /\ phone'.tok <= issued /\ faults' \in Nat  BY Types DEF IInv, ClaimCached
<1> HIDE DEF p, q
<1>8. CallOK(q) /\ LeadOK(q)  BY <1>1, <1>2, <1>5, <1>6, Times DEF CallOK, LeadOK, Pairs
<1>9. UNCHANGED <<tokens, redis, black, guards, revoker, phone, history>>  BY DEF ClaimCached
<1> QED BY <1>3, <1>4, <1>7, <1>8, <1>9, QuietCall

\* The rows were read: an unused token, and the access token of the session.
LEMMA FindUsableInv ==
  ASSUME IInv, NEW c \in Calls, FindUsable(c)
  PROVE  IInv'
<1> DEFINE r == calls[c]
           q == [pc |-> "commit", ans |-> r.ans, tok |-> r.tok, pair |-> r.pair, jti |-> session.jti, age |-> r.age]
<1>1. r \in CallRows /\ session.jti \in Pairs /\ calls \in [Calls -> CallRows]  BY Types DEF IInv
<1>2. q \in CallRows
  <2>1. "commit" \in CallSteps /\ session.jti \in 0 .. MaxToken  BY <1>1, Times DEF CallSteps, Pairs
  <2> QED BY <1>1, <2>1 DEF CallRows
<1>3. calls' = [calls EXCEPT ![c] = q]
  <2>1. q = [r EXCEPT !.pc = "commit", !.jti = session.jti]
    <3>1. "commit" \in CallSteps  BY DEF CallSteps
    <3>2. \A y : [r EXCEPT !.pc = "commit", !.jti = y] =
             [pc |-> "commit", ans |-> r.ans, tok |-> r.tok, pair |-> r.pair, jti |-> y, age |-> r.age]
      <4>1. r \in CallRows  BY <1>1
      <4> HIDE DEF r
      <4> QED BY <4>1, <3>1, PcAndJti
    <3> HIDE DEF r
    <3> QED BY <3>2
  <2> QED BY <2>1 DEF FindUsable
<1>4. CallOK(r)  BY DEF IInv
<1>5. q.pc = "commit" /\ q.tok = r.tok /\ q.pair = r.pair /\ q.jti = session.jti  OBVIOUS
<1>6. phone' \in Phones /\ phone'.tok <= issued /\ faults' \in Nat  BY Types DEF IInv, FindUsable
<1>7. used[r.tok] = -1  BY DEF FindUsable
<1> HIDE DEF q
<1>8. CallOK(q) /\ LeadOK(q)  BY <1>1, <1>4, <1>5, <1>7 DEF CallOK, LeadOK
<1>9. UNCHANGED <<tokens, redis, black, guards, revoker, phone, history>>  BY DEF FindUsable
<1> QED BY <1>2, <1>3, <1>6, <1>8, <1>9, QuietCall

\* The phone posts, gets its answer, retries; the process of a call ends.
LEMMA AnsweredTypes ==
  ASSUME IInv, NEW what \in Answers, NEW pair \in 0 .. MaxToken,
         what = "ok" => pair # 0 /\ pair <= issued
  PROVE  AfterAnswer(what, pair) \in Phones /\ AfterAnswer(what, pair).tok <= issued
<1>1. phone \in Phones /\ phone.tok <= issued  BY Types DEF IInv
<1>2. CASE what = "ok"
  <2>1. AfterAnswer(what, pair) = [pc |-> "idle", tok |-> pair, call |-> NoOne]  BY <1>2 DEF AfterAnswer
  <2> QED BY <1>2, <2>1, Times DEF Phones, Pairs
<1>3. CASE what = "fatal"
  <2>1. AfterAnswer(what, pair) = [phone EXCEPT !.pc = "out", !.call = NoOne]  BY <1>3 DEF AfterAnswer
  <2> QED BY <1>1, <2>1 DEF Phones
<1>4. CASE what # "ok" /\ what # "fatal"
  <2>1. AfterAnswer(what, pair) = [phone EXCEPT !.pc = "idle", !.call = NoOne]  BY <1>4 DEF AfterAnswer
  <2> QED BY <1>1, <2>1 DEF Phones
<1> QED BY <1>2, <1>3, <1>4

\* A free call satisfies whatever is asked of calls.
LEMMA FreeOK ==
  ASSUME IInv
  PROVE  CallOK(Free) /\ LeadOK(Free)
<1>1. issued >= 1  BY Types DEF IInv, Pairs
<1> QED BY <1>1, FreeRow DEF CallOK, LeadOK

\* A call is over: answered, retried or crashed.
LEMMA CallFreedInv ==
  ASSUME IInv, NEW c \in Calls, Deliver(c) \/ RetryInProgress(c) \/ ServerCrash(c)
  PROVE  IInv'
<1>1. phone \in Phones /\ phone.tok <= issued /\ calls[c] \in CallRows  BY Types DEF IInv
<1>2. CallOK(calls[c])  BY DEF IInv
<1>3. calls' = [calls EXCEPT ![c] = Free]  BY DEF Deliver, RetryInProgress, ServerCrash
<1>4. faults' \in Nat  BY Types, FaultCounted DEF IInv, Deliver, RetryInProgress, ServerCrash
<1>5. UNCHANGED <<tokens, redis, black, guards, revoker, history>>
  BY DEF Deliver, RetryInProgress, ServerCrash
<1>6. phone' \in Phones /\ phone'.tok <= issued
  <2>1. CASE Deliver(c)
    <3>1. /\ calls[c].ans \in Answers /\ calls[c].pair \in 0 .. MaxToken
          /\ calls[c].ans = "ok" => calls[c].pair # 0 /\ calls[c].pair <= issued
      BY <1>1, <1>2, <2>1 DEF CallRows, CallOK, Deliver, At
    <3>2. /\ AfterAnswer(calls[c].ans, calls[c].pair) \in Phones
          /\ AfterAnswer(calls[c].ans, calls[c].pair).tok <= issued
      BY <3>1, AnsweredTypes
    <3> QED BY <1>1, <2>1, <3>2 DEF Deliver
  <2>2. CASE RetryInProgress(c)  BY <1>1, <2>2 DEF RetryInProgress, Phones
  <2>3. CASE ServerCrash(c)
    <3>1. AfterAnswer("error", 0) \in Phones /\ AfterAnswer("error", 0).tok <= issued
      BY AnsweredTypes, Times DEF Answers
    <3> QED BY <1>1, <2>3, <3>1 DEF ServerCrash
  <2> QED BY <2>1, <2>2, <2>3
<1> QED BY <1>3, <1>4, <1>5, <1>6, FreeRow, FreeOK, QuietCall

\* The phone posts a call.
LEMMA PostInv ==
  ASSUME IInv, NEW c \in Calls, Post(c)
  PROVE  IInv'
<1> DEFINE q == [pc |-> "claim", ans |-> "ok", tok |-> phone.tok, pair |-> 0, jti |-> 0, age |-> 0]
<1>1. phone \in Phones /\ phone.tok <= issued /\ phone.tok \in Pairs  BY Types DEF IInv, Phones
<1>2. q \in CallRows
  <2>1. "claim" \in CallSteps /\ "ok" \in Answers /\ 0 \in 0 .. MaxToken  BY Times DEF CallSteps, Answers
  <2> QED BY <1>1, <2>1 DEF CallRows
<1>3. calls' = [calls EXCEPT ![c] = q]
  <2>1. [Free EXCEPT !.pc = "claim", !.tok = phone.tok] = q
    <3>1. Free \in CallRows /\ "claim" \in CallSteps  BY FreeRow DEF CallSteps
    <3>2. Free.ans = "ok" /\ Free.pair = 0 /\ Free.jti = 0 /\ Free.age = 0  BY DEF Free
    <3>3. \A y : [Free EXCEPT !.pc = "claim", !.tok = y] =
             [pc |-> "claim", ans |-> Free.ans, tok |-> y, pair |-> Free.pair, jti |-> Free.jti, age |-> Free.age]
      BY <3>1, PcAndTok
    <3> QED BY <3>2, <3>3
  <2> QED BY <2>1 DEF Post
<1>4. CallOK(q) /\ LeadOK(q)  BY <1>1 DEF CallOK, LeadOK
<1>5. phone' \in Phones /\ phone'.tok <= issued /\ faults' \in Nat  BY <1>1, Types DEF IInv, Post, Phones
<1>6. UNCHANGED <<tokens, redis, black, guards, revoker, history>>  BY DEF Post
<1> HIDE DEF q
<1> QED BY <1>2, <1>3, <1>4, <1>5, <1>6, QuietCall
-----------------------------------------------------------------------------
(* Time. *)

\* Ages grow up to the end of the recovery window, records run out.
LEMMA AgesGrow ==
  ASSUME TypesOK
  PROVE  /\ \A t \in Pairs : /\ Older(t) \in -1 .. DoneTtl + 1 /\ (used[t] = -1 <=> Older(t) = -1)
                             /\ used[t] <= Older(t) /\ Older(t) <= used[t] + 1
                             /\ (used[t] < DoneTtl /\ used[t] # -1 => Older(t) = used[t] + 1)
         /\ \A t \in Pairs : /\ Aged(idem[t]) \in [status : {"none", "pending", "done"}, ttl : 0 .. DoneTtl, pair : 0 .. MaxToken]
                             /\ (Aged(idem[t]).status = "done" =>
                                   idem[t].status = "done" /\ Aged(idem[t]).pair = idem[t].pair)
                             /\ (idem[t].status = "done" /\ idem[t].ttl > 1 =>
                                   Aged(idem[t]).status = "done" /\ Aged(idem[t]).ttl = idem[t].ttl - 1)
<1>1. ASSUME NEW t \in Pairs
      PROVE  /\ Older(t) \in -1 .. DoneTtl + 1 /\ (used[t] = -1 <=> Older(t) = -1)
             /\ used[t] <= Older(t) /\ Older(t) <= used[t] + 1
             /\ (used[t] < DoneTtl /\ used[t] # -1 => Older(t) = used[t] + 1)
  <2>1. used[t] \in -1 .. DoneTtl + 1  BY Types
  <2> QED BY <2>1, Times DEF Older
<1>2. ASSUME NEW t \in Pairs
      PROVE  /\ Aged(idem[t]) \in [status : {"none", "pending", "done"}, ttl : 0 .. DoneTtl, pair : 0 .. MaxToken]
             /\ (Aged(idem[t]).status = "done" =>
                   idem[t].status = "done" /\ Aged(idem[t]).pair = idem[t].pair)
             /\ (idem[t].status = "done" /\ idem[t].ttl > 1 =>
                   Aged(idem[t]).status = "done" /\ Aged(idem[t]).ttl = idem[t].ttl - 1)
  <2> DEFINE r == idem[t]
  <2>1. r \in [status : {"none", "pending", "done"}, ttl : 0 .. DoneTtl, pair : 0 .. MaxToken]  BY Types
  <2>2. CASE r.ttl <= 1
    <3>1. Aged(r) = NoRecord  BY <2>2 DEF Aged
    <3> HIDE DEF r
    <3>2. /\ Aged(r) \in [status : {"none", "pending", "done"}, ttl : 0 .. DoneTtl, pair : 0 .. MaxToken]
          /\ (Aged(r).status = "done" => r.status = "done" /\ Aged(r).pair = r.pair)
          /\ (r.status = "done" /\ r.ttl > 1 => Aged(r).status = "done" /\ Aged(r).ttl = r.ttl - 1)
      BY <2>1, <2>2, <3>1, Times DEF NoRecord
    <3> QED BY <3>2 DEF r
  <2>3. CASE ~(r.ttl <= 1)
    <3>1. Aged(r) = [r EXCEPT !.ttl = r.ttl - 1]  BY <2>3 DEF Aged
    <3> HIDE DEF r
    <3>2. /\ Aged(r) \in [status : {"none", "pending", "done"}, ttl : 0 .. DoneTtl, pair : 0 .. MaxToken]
          /\ (Aged(r).status = "done" => r.status = "done" /\ Aged(r).pair = r.pair)
          /\ (r.status = "done" /\ r.ttl > 1 => Aged(r).status = "done" /\ Aged(r).ttl = r.ttl - 1)
      BY <2>1, <2>3, <3>1, Times
    <3> QED BY <3>2 DEF r
  <2> QED BY <2>2, <2>3
<1> QED BY <1>1, <1>2

\* What the invariant says of a token survives a unit of time: the record
\* that runs out leaves a token out of the recovery window.
LEMMA TickRecord ==
  ASSUME IInv, Tick
  PROVE  (\A t \in Pairs : RecordOK(t))'
<1> SUFFICES ASSUME NEW t \in Pairs PROVE RecordOK(t)'  OBVIOUS
<1>1. used'[t] = Older(t) /\ idem'[t] = Aged(idem[t]) /\ missing' = missing /\ issued' = issued
  BY DEF Tick, history
<1>2. /\ used[t] \in -1 .. DoneTtl + 1 /\ idem[t].ttl \in 0 .. DoneTtl
  BY Types DEF IInv
<1>3. RecordOK(t) /\ TypesOK  BY DEF IInv
<1>4. idem'[t].status = "done" => idem'[t].pair > t /\ idem'[t].pair <= issued'
  BY <1>1, <1>3, AgesGrow DEF RecordOK
<1>5. ASSUME t \notin missing, used'[t] # -1, used'[t] < DoneTtl
      PROVE  idem'[t].status = "done" /\ idem'[t].ttl + used'[t] >= DoneTtl
  <2>1. used[t] # -1 /\ used[t] < DoneTtl /\ used'[t] = used[t] + 1
    BY <1>1, <1>2, <1>3, <1>5, AgesGrow, Times
  <2>2. idem[t].status = "done" /\ idem[t].ttl + used[t] >= DoneTtl  BY <1>3, <1>5, <2>1 DEF RecordOK
  <2>3. idem[t].ttl > 1  BY <1>2, <1>5, <2>1, <2>2, Times
  <2>4. idem'[t].status = "done" /\ idem'[t].ttl = idem[t].ttl - 1  BY <1>1, <1>3, <2>2, <2>3, AgesGrow
  <2> QED BY <1>2, <2>1, <2>2, <2>4, Times
<1> QED BY <1>1, <1>4, <1>5 DEF RecordOK

\* A call gets older with the token it leads for.
LEMMA TickCalls ==
  ASSUME IInv, Tick
  PROVE  /\ calls' \in [Calls -> CallRows]
         /\ (\A c \in Calls : CallOK(calls[c]) /\ LeadOK(calls[c]))'
<1>1. calls \in [Calls -> CallRows] /\ TypesOK  BY Types DEF IInv
<1>2. calls' = [c \in Calls |-> IF calls[c].pc = "free" THEN Free ELSE [calls[c] EXCEPT !.age = @ + 1]]
  BY DEF Tick
<1>3. used' = [t \in Pairs |-> Older(t)] /\ missing' = missing /\ issued' = issued /\ black' = black
  BY DEF Tick, history
<1>4. ASSUME NEW c \in Calls
      PROVE  calls'[c] \in CallRows /\ CallOK(calls[c])' /\ LeadOK(calls[c])'
  <2>1. PICK r \in CallRows : r = calls[c]  BY <1>1
  <2>2. CallOK(r) /\ LeadOK(r)  BY <2>1 DEF IInv
  <2>3. CASE r.pc = "free"
    <3>1. calls'[c] = Free  BY <1>2, <2>1, <2>3
    <3>2. issued >= 1  BY Types DEF IInv, Pairs
    <3> QED BY <1>3, <3>1, <3>2, FreeRow DEF CallOK, LeadOK
  <2>4. CASE r.pc # "free"
    <3>0. r.age + 1 \in Nat  BY DEF CallRows
    <3>1. PICK q \in CallRows : q = [r EXCEPT !.age = r.age + 1]
      <4>1. [r EXCEPT !.age = r.age + 1] \in CallRows  BY <3>0 DEF CallRows
      <4> QED BY <4>1
    <3>2. calls'[c] = q  BY <1>2, <2>1, <2>4, <3>1
    <3>3. /\ q.pc = r.pc /\ q.ans = r.ans /\ q.tok = r.tok /\ q.pair = r.pair /\ q.jti = r.jti
          /\ q.age = r.age + 1 /\ q.tok \in Pairs /\ r.age \in Nat
      BY <3>1 DEF CallRows
    <3>4. CallOK(q)'  BY <1>3, <2>2, <3>3 DEF CallOK
    <3>5. /\ used'[q.tok] = Older(q.tok) /\ used[q.tok] \in -1 .. DoneTtl + 1
          /\ Older(q.tok) \in -1 .. DoneTtl + 1 /\ (used[q.tok] = -1 <=> Older(q.tok) = -1)
          /\ used[q.tok] <= Older(q.tok) /\ Older(q.tok) <= used[q.tok] + 1
      BY <1>1, <1>3, <3>3, AgesGrow, Types
    <3>6. LeadOK(q)'  BY <1>3, <2>2, <3>3, <3>5, Times DEF LeadOK
    <3> QED BY <3>2, <3>4, <3>6 DEF CallOK, LeadOK
  <2> QED BY <2>3, <2>4
<1>5. DOMAIN calls' = Calls /\ calls' = [c \in Calls |-> calls'[c]]  BY <1>2
<1> QED BY <1>4, <1>5

\* A row of the cache or a tombstone runs out; no request is under way.
LEMMA TickInv ==
  ASSUME IInv, Tick
  PROVE  IInv'
<1>1. /\ calls' \in [Calls -> CallRows]
      /\ (\A c \in Calls : CallOK(calls[c]) /\ LeadOK(calls[c]))'
  BY TickCalls
<1>2. UNCHANGED <<issued, dead, session, black, guards, revoker, phone, closed, missing, wronged, torn, faults>>
  BY DEF Tick, history
<1>3. /\ used' \in [Pairs -> -1 .. DoneTtl + 1]
      /\ idem' \in [Pairs -> [status : {"none", "pending", "done"}, ttl : 0 .. DoneTtl, pair : 0 .. MaxToken]]
  BY AgesGrow DEF IInv, Tick
<1>4. cached' \in [row : Rows, ttl : 0 .. CacheTtl] /\ tomb' \in 0 .. CacheTtl
  <2>1. cached \in [row : Rows, ttl : 0 .. CacheTtl] /\ tomb \in 0 .. CacheTtl  BY Types DEF IInv
  <2>2. NoRow \in Rows  BY Times DEF NoRow, Rows
  <2>3. cached' = [row |-> IF cached.ttl <= 1 THEN NoRow ELSE cached.row, ttl |-> Less(cached.ttl)]
        /\ tomb' = Less(tomb)
    BY DEF Tick
  <2>4. \A n \in 0 .. CacheTtl : Less(n) \in 0 .. CacheTtl  BY Times DEF Less
  <2> QED BY <2>1, <2>2, <2>3, <2>4
<1>5. TypesOK'
  <2>1. TypeOK'  BY <1>1, <1>2, <1>3, <1>4 DEF IInv, TypesOK, TypeOK, CallOK
  <2> QED BY <1>1, <1>2, <2>1 DEF IInv, TypesOK
<1>6. RevokedOK'
  <2>1. cached \in [row : Rows, ttl : 0 .. CacheTtl]  BY Types DEF IInv
  <2>2. cached'.ttl > 0 => cached.ttl > 0 /\ cached'.row = cached.row
    BY <2>1, Times DEF Tick, Less
  <2> QED BY <1>2, <2>2 DEF IInv, RevokedOK
<1>7. (\A g \in Guards : GuardOK(g))'
  <2>1. \A g \in Guards : guards[g].pc = "idle"  BY DEF Tick
  <2> QED BY <1>2, <2>1 DEF IInv, GuardOK
<1>8. ClosedIsRefused' /\ HonestKeepsSession'
  BY <1>2 DEF IInv, ClosedIsRefused, RefusedAtOnce, HonestKeepsSession
<1> QED BY <1>1, <1>5, <1>6, <1>7, <1>8, TickRecord DEF IInv
-----------------------------------------------------------------------------
(* The records and the rotation. *)

\* A leader starts with no record: its token is not one that has to have one.
LEMMA ClaimLeadsInv ==
  ASSUME IInv, NEW c \in Calls, ClaimLeads(c)
  PROVE  IInv'
<1>1. /\ TypesOK /\ calls[c] \in CallRows /\ calls[c].tok \in Pairs /\ used[calls[c].tok] \in -1 .. DoneTtl + 1
  BY Types DEF IInv, CallRows
<1>2. PICK q \in CallRows : /\ calls' = [calls EXCEPT ![c] = q]
                            /\ q.pc = "find" /\ q.ans = calls[c].ans /\ q.tok = calls[c].tok
                            /\ q.pair = calls[c].pair /\ q.jti = calls[c].jti /\ q.age = calls[c].age
  <2>1. "find" \in CallSteps  BY DEF CallSteps
  <2> QED BY <1>1, <2>1, GoesTo DEF ClaimLeads
<1>3. /\ UNCHANGED <<issued, used, dead, session, cached, tomb, black, guards, revoker, phone, faults>>
      /\ UNCHANGED <<closed, missing, wronged, torn>>
  BY DEF ClaimLeads, tokens, history
<1>4. idem' = [idem EXCEPT ![q.tok] = [status |-> "pending", ttl |-> PendingTtl, pair |-> 0]]
  BY <1>2 DEF ClaimLeads
<1>5. idem[q.tok].status = "none" /\ q.tok \in Pairs  BY <1>1, <1>2 DEF ClaimLeads, Claimable, Record
<1>6. RecordOK(q.tok) /\ CallOK(calls[c])  BY <1>5 DEF IInv
<1>7. CallOK(q) /\ LeadOK(q)
  <2>1. q.tok \in missing \/ used[q.tok] = -1 \/ used[q.tok] >= DoneTtl
    BY <1>1, <1>2, <1>5, <1>6, Times DEF RecordOK
  <2> QED BY <1>2, <1>6, <2>1 DEF CallOK, LeadOK
<1>8. /\ calls' \in [Calls -> CallRows]
      /\ (\A d \in Calls : CallOK(calls[d]) /\ LeadOK(calls[d]))'
  <2>1. \A r \in CallRows : CallOK(r) /\ LeadOK(r) => (CallOK(r) /\ LeadOK(r))'
    BY <1>3 DEF CallOK, LeadOK
  <2> QED BY <1>2, <1>7, <2>1, CallRow
<1>9. idem' \in [Pairs -> [status : {"none", "pending", "done"}, ttl : 0 .. DoneTtl, pair : 0 .. MaxToken]]
  <2>1. [status |-> "pending", ttl |-> PendingTtl, pair |-> 0]
          \in [status : {"none", "pending", "done"}, ttl : 0 .. DoneTtl, pair : 0 .. MaxToken]
    BY Times
  <2> QED BY <1>4, <1>5, <2>1, Types DEF IInv
<1>10. TypesOK'
  <2>1. TypeOK'  BY <1>3, <1>8, <1>9 DEF IInv, TypesOK, TypeOK, CallOK
  <2> QED BY <1>3, <1>8, <2>1 DEF IInv, TypesOK
<1>11. (\A t \in Pairs : RecordOK(t))'
  <2> SUFFICES ASSUME NEW t \in Pairs PROVE RecordOK(t)'  OBVIOUS
  <2>1. RecordOK(t) /\ idem \in [Pairs -> [status : {"none", "pending", "done"}, ttl : 0 .. DoneTtl, pair : 0 .. MaxToken]]
    BY Types DEF IInv
  <2>2. CASE t = q.tok  BY <1>3, <1>4, <1>5, <1>6, <2>1, <2>2 DEF RecordOK
  <2>3. CASE t # q.tok  BY <1>3, <1>4, <2>1, <2>3 DEF RecordOK
  <2> QED BY <2>2, <2>3
<1>12. RevokedOK' /\ (\A g \in Guards : GuardOK(g))' /\ ClosedIsRefused' /\ HonestKeepsSession'
  BY <1>3 DEF IInv, RevokedOK, GuardOK, ClosedIsRefused, RefusedAtOnce, HonestKeepsSession
<1> QED BY <1>8, <1>10, <1>11, <1>12 DEF IInv

\* Revoking the family touches nothing the invariant is about.
LEMMA FindReusedInv ==
  ASSUME IInv, NEW c \in Calls, FindReused(c)
  PROVE  IInv'
<1> DEFINE r == calls[c]
           q == [pc |-> "reuse", ans |-> r.ans, tok |-> r.tok, pair |-> r.pair, jti |-> session.jti, age |-> r.age]
<1>1. r \in CallRows /\ session.jti \in Pairs /\ calls \in [Calls -> CallRows] /\ r.tok \in Pairs
  BY Types DEF IInv, CallRows
<1>2. q \in CallRows
  <2>1. "reuse" \in CallSteps /\ session.jti \in 0 .. MaxToken  BY <1>1, Times DEF CallSteps, Pairs
  <2> QED BY <1>1, <2>1 DEF CallRows
<1>3. calls' = [calls EXCEPT ![c] = q]
  <2>1. q = [r EXCEPT !.pc = "reuse", !.jti = session.jti]
    <3>1. "reuse" \in CallSteps  BY DEF CallSteps
    <3>2. \A y : [r EXCEPT !.pc = "reuse", !.jti = y] =
             [pc |-> "reuse", ans |-> r.ans, tok |-> r.tok, pair |-> r.pair, jti |-> y, age |-> r.age]
      <4>1. r \in CallRows  BY <1>1
      <4> HIDE DEF r
      <4> QED BY <4>1, <3>1, PcAndJti
    <3> HIDE DEF r
    <3> QED BY <3>2
  <2> QED BY <2>1 DEF FindReused
<1>4. CallOK(r) /\ LeadOK(r) /\ r.pc = "find"  BY DEF IInv, FindReused, At
<1>5. q.pc = "reuse" /\ q.tok = r.tok /\ q.pair = r.pair /\ q.jti = session.jti /\ q.age = r.age  OBVIOUS
<1>6. used[r.tok] \in -1 .. DoneTtl + 1 /\ ~(used[r.tok] < Grace)
  BY <1>1, Types DEF IInv, FindReused, Recent
<1> HIDE DEF q
<1>7. CallOK(q) /\ LeadOK(q)
  <2>1. used[r.tok] >= Grace  BY <1>6, Times
  <2> QED BY <1>1, <1>4, <1>5, <2>1 DEF CallOK, LeadOK
<1>8. /\ UNCHANGED <<issued, used, session, idem, cached, tomb, black, guards, revoker, phone, faults>>
      /\ UNCHANGED <<closed, missing, wronged, torn>>
  BY DEF FindReused, redis, history
<1>9. /\ calls' \in [Calls -> CallRows]
      /\ (\A d \in Calls : CallOK(calls[d]) /\ LeadOK(calls[d]))'
  <2>1. \A s \in CallRows : CallOK(s) /\ LeadOK(s) => (CallOK(s) /\ LeadOK(s))'
    BY <1>8 DEF CallOK, LeadOK
  <2>2. PICK p \in CallRows : p = q  BY <1>2
  <2>3. CallOK(p)' /\ LeadOK(p)'  BY <1>7, <1>8, <2>2 DEF CallOK, LeadOK
  <2> QED BY <1>3, <2>1, <2>2, <2>3, CallRow
<1>10. TypesOK'
  <2>1. (dead \subseteq Pairs)'
    <3>1. issued \in Pairs /\ dead' = 1 .. issued  BY Types DEF IInv, FindReused
    <3>2. \A n \in 1 .. issued : n \in Pairs  BY <3>1, Times DEF Pairs
    <3> QED BY <3>1, <3>2
  <2>2. TypeOK'  BY <1>8, <1>9, <2>1 DEF IInv, TypesOK, TypeOK, CallOK
  <2> QED BY <1>8, <1>9, <2>2 DEF IInv, TypesOK
<1>11. (\A t \in Pairs : RecordOK(t))'  BY <1>8 DEF IInv, RecordOK
<1>12. RevokedOK' /\ (\A g \in Guards : GuardOK(g))' /\ ClosedIsRefused' /\ HonestKeepsSession'
  BY <1>8 DEF IInv, RevokedOK, GuardOK, ClosedIsRefused, RefusedAtOnce, HonestKeepsSession
<1> QED BY <1>9, <1>10, <1>11, <1>12 DEF IInv
\* Reuse ends the session of a phone that is not wronged: the leader's token
\* was used before the grace, its record would have answered.
LEMMA EndsJustly ==
  ASSUME IInv, NEW c \in Calls, calls[c].pc \in {"commit", "reuse"},
         used[calls[c].tok] # -1, ~Recent(calls[c].tok), EndsSession(c)
  PROVE  HonestKeepsSession' /\ session' \in [revoked : {"no", "logout", "reuse"}, jti : Pairs]
         /\ session'.jti = session.jti /\ session'.revoked = "reuse"
<1>1. /\ calls[c] \in CallRows /\ calls[c].tok \in Pairs /\ used[calls[c].tok] \in -1 .. DoneTtl + 1
      /\ calls[c].age \in Nat
  BY Types DEF IInv, CallRows
<1>2. LeadOK(calls[c])  BY DEF IInv
<1>3. used[calls[c].tok] >= Grace  BY <1>1, Times DEF Recent
<1>4. ~Wronged(c)  BY <1>1, <1>2, <1>3, Times DEF Wronged, LeadOK
<1>5. session \in [revoked : {"no", "logout", "reuse"}, jti : Pairs]  BY Types DEF IInv
<1> QED BY <1>4, <1>5 DEF EndsSession, HonestKeepsSession, IInv

\* A call that has ended the session goes on to the teardown.
LEMMA SessionEndedInv ==
  ASSUME IInv, NEW c \in Calls, ReuseEndsSession(c) \/ LostLongAgo(c)
  PROVE  IInv'
<1>1. /\ calls[c].pc \in {"commit", "reuse"} /\ used[calls[c].tok] # -1 /\ ~Recent(calls[c].tok)
  <2>1. CASE ReuseEndsSession(c)
    <3>1. calls[c].tok \in Pairs /\ LeadOK(calls[c]) /\ calls[c].pc = "reuse"
      BY <2>1, Types DEF IInv, CallRows, ReuseEndsSession, At
    <3>2. used[calls[c].tok] >= Grace /\ used[calls[c].tok] \in -1 .. DoneTtl + 1
      BY <3>1, Types DEF IInv, LeadOK
    <3> QED BY <3>1, <3>2, Times DEF Recent
  <2>2. CASE LostLongAgo(c)  BY <2>2 DEF LostLongAgo, At, Unused
  <2> QED BY <2>1, <2>2
<1>2. EndsSession(c)  BY DEF ReuseEndsSession, LostLongAgo
<1>3. /\ HonestKeepsSession' /\ session' \in [revoked : {"no", "logout", "reuse"}, jti : Pairs]
      /\ session'.jti = session.jti /\ session'.revoked = "reuse" /\ wronged' \in BOOLEAN
  BY <1>1, <1>2, EndsJustly, Types DEF IInv, EndsSession
<1>4. /\ UNCHANGED <<issued, used, idem, cached, tomb, black, guards, revoker, phone, faults>>
      /\ UNCHANGED <<closed, missing, torn>>
  BY DEF ReuseEndsSession, LostLongAgo, redis
<1>5. PICK q \in CallRows : /\ calls' = [calls EXCEPT ![c] = q]
                            /\ q.pc = "black" /\ q.ans = calls[c].ans /\ q.tok = calls[c].tok
                            /\ q.pair = calls[c].pair /\ q.jti = calls[c].jti /\ q.age = calls[c].age
  <2>1. "black" \in CallSteps /\ TypesOK /\ Goes(c, "black")
    BY DEF CallSteps, IInv, ReuseEndsSession, LostLongAgo
  <2> QED BY <2>1, GoesTo
<1>6. /\ calls' \in [Calls -> CallRows]
      /\ (\A d \in Calls : CallOK(calls[d]) /\ LeadOK(calls[d]))'
  <2>1. \A s \in CallRows : CallOK(s) /\ LeadOK(s) => (CallOK(s) /\ LeadOK(s))'
    BY <1>4 DEF CallOK, LeadOK
  <2>2. CallOK(calls[c])  BY DEF IInv
  <2>3. CallOK(q)' /\ LeadOK(q)'  BY <1>1, <1>4, <1>5, <2>2 DEF CallOK, LeadOK
  <2> QED BY <1>5, <2>1, <2>3, CallRow
<1>7. TypesOK'
  <2>1. (dead \subseteq Pairs)'
    <3>1. (dead \subseteq Pairs) /\ issued \in Pairs  BY Types DEF IInv
    <3>2. dead' = dead \/ dead' = 1 .. issued  BY DEF ReuseEndsSession, LostLongAgo
    <3>3. \A n \in 1 .. issued : n \in Pairs  BY <3>1, Times DEF Pairs
    <3> QED BY <3>1, <3>2, <3>3
  <2>2. TypeOK'  BY <1>3, <1>4, <1>6, <2>1 DEF IInv, TypesOK, TypeOK, CallOK
  <2> QED BY <1>4, <1>6, <2>2 DEF IInv, TypesOK
<1>8. (\A t \in Pairs : RecordOK(t))'  BY <1>4 DEF IInv, RecordOK
<1>9. RevokedOK' /\ (\A g \in Guards : GuardOK(g))' /\ ClosedIsRefused'
  BY <1>3, <1>4 DEF IInv, RevokedOK, GuardOK, ClosedIsRefused, RefusedAtOnce
<1> QED BY <1>3, <1>6, <1>7, <1>8, <1>9 DEF IInv

\* A rotation makes its token one whose record is missing; nobody else can
\* lead for a token of age -1 that has an age now and is not missing.
LEMMA RotateInv ==
  ASSUME IInv, NEW c \in Calls, Rotate(c)
  PROVE  IInv'
<1> DEFINE r == calls[c]
           q == [pc |-> "black", ans |-> r.ans, tok |-> r.tok, pair |-> issued + 1, jti |-> r.jti, age |-> r.age]
<1>1. /\ r \in CallRows /\ issued \in Pairs /\ issued + 1 \in Pairs /\ calls \in [Calls -> CallRows]
      /\ r.tok \in Pairs /\ r.pc = "commit" /\ used[r.tok] = -1
  <2>1. r \in CallRows /\ issued \in Pairs /\ calls \in [Calls -> CallRows]  BY Types DEF IInv
  <2>2. r.pc = "commit" /\ used[r.tok] = -1 /\ issued < MaxToken  BY DEF Rotate, At, Unused
  <2>3. r.tok \in Pairs  BY <2>1 DEF CallRows
  <2>4. issued + 1 \in Pairs  BY <2>1, <2>2, Times DEF Pairs
  <2> QED BY <2>1, <2>2, <2>3, <2>4
<1>2. q \in CallRows
  <2>1. "black" \in CallSteps /\ issued + 1 \in 0 .. MaxToken  BY <1>1, Times DEF CallSteps, Pairs
  <2> QED BY <1>1, <2>1 DEF CallRows
<1>3. calls' = [calls EXCEPT ![c] = q]
  <2>1. q = [r EXCEPT !.pc = "black", !.pair = issued + 1]
    <3>1. "black" \in CallSteps  BY DEF CallSteps
    <3>2. \A y : [r EXCEPT !.pc = "black", !.pair = y] =
             [pc |-> "black", ans |-> r.ans, tok |-> r.tok, pair |-> y, jti |-> r.jti, age |-> r.age]
      <4>1. r \in CallRows  BY <1>1
      <4> HIDE DEF r
      <4> QED BY <4>1, <3>1, PcAndPair
    <3> HIDE DEF r
    <3> QED BY <3>2
  <2> QED BY <2>1 DEF Rotate
<1>4. q.pc = "black" /\ q.tok = r.tok /\ q.pair = issued + 1 /\ q.jti = r.jti  OBVIOUS
<1>5. PICK p \in CallRows : p = q  BY <1>2
<1> HIDE DEF q
<1>6. /\ issued' = issued + 1 /\ used' = [used EXCEPT ![r.tok] = 0] /\ missing' = missing \cup {r.tok}
      /\ session' = [session EXCEPT !.jti = issued + 1]
  BY DEF Rotate
<1>7. /\ UNCHANGED <<dead, idem, cached, tomb, black, guards, revoker, phone, faults>>
      /\ UNCHANGED <<closed, wronged, torn>>
  BY DEF Rotate, redis
<1>8. CallOK(r)  BY DEF IInv
<1>9. /\ calls' \in [Calls -> CallRows]
      /\ (\A d \in Calls : CallOK(calls[d]) /\ LeadOK(calls[d]))'
  <2>1. ASSUME NEW s \in CallRows, CallOK(s) /\ LeadOK(s) PROVE (CallOK(s) /\ LeadOK(s))'
    <3>1. s.tok \in Pairs /\ s.pair \in 0 .. MaxToken  BY DEF CallRows
    <3>2. CallOK(s)'  BY <1>1, <1>6, <1>7, <2>1, <3>1, Times DEF CallOK, Pairs
    <3>3. CASE s.tok = r.tok
      <4>1. used[s.tok] = -1 /\ s.tok \in missing'  BY <1>1, <1>6, <3>3
      <4>2. s.pc # "reuse"  BY <2>1, <4>1, Times DEF LeadOK
      <4> QED BY <3>2, <4>1, <4>2 DEF LeadOK
    <3>4. CASE s.tok # r.tok
      <4>1. used'[s.tok] = used[s.tok]  BY <1>6, <3>1, <3>4, Types DEF IInv
      <4> QED BY <1>6, <2>1, <3>2, <4>1 DEF LeadOK
    <3> QED BY <3>3, <3>4
  <2>2. CallOK(p)' /\ LeadOK(p)'
    <3>1. p.pair = issued + 1 /\ p.tok = r.tok /\ p.pc = "black" /\ p.jti = r.jti /\ r.tok <= issued
          /\ r.jti \in Pairs
      BY <1>1, <1>4, <1>5, <1>8 DEF CallOK
    <3> QED BY <1>1, <1>6, <3>1, Times DEF CallOK, LeadOK, Pairs
  <2> QED BY <1>3, <1>5, <2>1, <2>2, CallRow
<1>10. used' \in [Pairs -> -1 .. DoneTtl + 1] /\ session' \in [revoked : {"no", "logout", "reuse"}, jti : Pairs]
       /\ session'.revoked = session.revoked /\ session'.jti = issued + 1
  <2>1. used \in [Pairs -> -1 .. DoneTtl + 1] /\ session \in [revoked : {"no", "logout", "reuse"}, jti : Pairs]
    BY Types DEF IInv
  <2> QED BY <1>1, <1>6, <2>1, Times
<1>11. TypesOK'
  <2>1. (missing \subseteq Pairs)'  BY <1>1, <1>6, Types DEF IInv
  <2>2. phone.tok \in Pairs /\ phone'.tok <= issued'
    BY <1>1, <1>6, <1>7, Types, Times DEF IInv, Phones, Pairs
  <2>3. session'.jti <= issued' /\ issued' \in Pairs  BY <1>1, <1>6, <1>10, Times DEF Pairs
  <2>4. TypeOK'  BY <1>7, <1>9, <1>10, <2>1, <2>2, <2>3 DEF IInv, TypesOK, TypeOK, CallOK
  <2> QED BY <1>7, <1>9, <2>4 DEF IInv, TypesOK
<1>12. (\A t \in Pairs : RecordOK(t))'
  <2> SUFFICES ASSUME NEW t \in Pairs PROVE RecordOK(t)'  OBVIOUS
  <2>1. RecordOK(t) /\ used \in [Pairs -> -1 .. DoneTtl + 1] /\ idem[t].pair \in 0 .. MaxToken
    BY Types DEF IInv
  <2>2. idem'[t].status = "done" => idem'[t].pair > t /\ idem'[t].pair <= issued'
    <3>1. idem[t].status = "done" => idem[t].pair > t /\ idem[t].pair <= issued  BY <2>1 DEF RecordOK
    <3>2. issued \in Nat /\ idem[t].pair \in Nat  BY <1>1, <2>1, Times DEF Pairs
    <3>3. idem'[t] = idem[t] /\ issued' = issued + 1  BY <1>6, <1>7
    <3> QED BY <3>1, <3>2, <3>3
  <2>3. CASE t = r.tok
    <3>1. t \in missing'  BY <1>6, <2>3
    <3> QED BY <2>2, <3>1 DEF RecordOK
  <2>4. CASE t # r.tok
    <3>1. used'[t] = used[t] /\ (t \in missing' <=> t \in missing)  BY <1>6, <2>1, <2>4
    <3> QED BY <1>7, <2>1, <2>2, <3>1 DEF RecordOK
  <2> QED BY <2>3, <2>4
<1>13. RevokedOK' /\ (\A g \in Guards : GuardOK(g))' /\ ClosedIsRefused' /\ HonestKeepsSession'
  BY <1>7, <1>10 DEF IInv, RevokedOK, GuardOK, ClosedIsRefused, RefusedAtOnce, HonestKeepsSession
<1> QED BY <1>9, <1>11, <1>12, <1>13 DEF IInv
-----------------------------------------------------------------------------
(* The side effects and the end of a rotation. *)

\* A blacklisted token may be closed at any time.
LEMMA BlacklistInv ==
  ASSUME IInv, NEW c \in Calls, Blacklist(c)
  PROVE  IInv'
<1>1. TypesOK /\ Goes(c, "del") /\ "del" \in CallSteps  BY DEF IInv, Blacklist, CallSteps
<1>2. PICK q \in CallRows : /\ calls' = [calls EXCEPT ![c] = q]
                            /\ q.pc = "del" /\ q.ans = calls[c].ans /\ q.tok = calls[c].tok
                            /\ q.pair = calls[c].pair /\ q.jti = calls[c].jti /\ q.age = calls[c].age
  BY <1>1, GoesTo
<1>3. CallOK(calls[c]) /\ calls[c].jti \in Pairs /\ black' = black \cup {calls[c].jti}
  BY DEF IInv, CallOK, Blacklist, At
<1>4. /\ UNCHANGED <<issued, used, dead, session, idem, cached, tomb, guards, revoker, phone, faults>>
      /\ UNCHANGED <<closed, missing, wronged, torn>>
  BY DEF Blacklist, tokens, redis, history
<1>5. /\ calls' \in [Calls -> CallRows]
      /\ (\A d \in Calls : CallOK(calls[d]) /\ LeadOK(calls[d]))'
  <2>1. \A s \in CallRows : CallOK(s) /\ LeadOK(s) => (CallOK(s) /\ LeadOK(s))'
    BY <1>3, <1>4 DEF CallOK, LeadOK
  <2>2. CallOK(q)' /\ LeadOK(q)'  BY <1>2, <1>3, <1>4 DEF CallOK, LeadOK
  <2> QED BY <1>2, <2>1, <2>2, CallRow
<1>6. TypesOK'
  <2>1. (black \subseteq Pairs)'  BY <1>3, Types DEF IInv
  <2>2. TypeOK'  BY <1>4, <1>5, <2>1 DEF IInv, TypesOK, TypeOK, CallOK
  <2> QED BY <1>4, <1>5, <2>2 DEF IInv, TypesOK
<1>7. (\A t \in Pairs : RecordOK(t))'  BY <1>4 DEF IInv, RecordOK
<1>8. RevokedOK' /\ (\A g \in Guards : GuardOK(g))' /\ ClosedIsRefused' /\ HonestKeepsSession'
  BY <1>3, <1>4 DEF IInv, RevokedOK, GuardOK, ClosedIsRefused, RefusedAtOnce, HonestKeepsSession
<1> QED BY <1>5, <1>6, <1>7, <1>8 DEF IInv

\* Where a call goes after its invalidation: a rotation, which has blacklisted
\* the old access token, to its record; a reuse to its refusal.
LEMMA InvalidatedTo ==
  ASSUME IInv, NEW c \in Calls, calls[c].pc \in {"del", "tomb"}, Invalidated(c),
         UNCHANGED <<issued, used, missing, black>>
  PROVE  /\ calls' \in [Calls -> CallRows]
         /\ (\A d \in Calls : CallOK(calls[d]) /\ LeadOK(calls[d]))'
<1>1. CallOK(calls[c]) /\ TypesOK  BY DEF IInv
<1>2. PICK q \in CallRows : /\ calls' = [calls EXCEPT ![c] = q] /\ q.tok = calls[c].tok
                            /\ \/ q.pc = "complete" /\ q.pair = calls[c].pair /\ q.pair # 0 /\ q.jti = calls[c].jti
                               \/ q.pc = "release" /\ q.pair = 0 /\ q.ans # "ok"
  <2>1. CASE calls[c].pair = 0
    <3>1. Ends(c, "release", "fatal") /\ "release" \in CallSteps /\ "fatal" \in Answers
      BY <2>1 DEF Invalidated, Release, CallSteps, Answers
    <3>2. PICK q \in CallRows : /\ calls' = [calls EXCEPT ![c] = q]
                                /\ q.pc = "release" /\ q.ans = "fatal" /\ q.tok = calls[c].tok
                                /\ q.pair = (IF "fatal" = "ok" THEN calls[c].pair ELSE 0) /\ q.jti = 0
      BY <1>1, <3>1, EndsTo
    <3>3. q.pair = 0 /\ q.ans # "ok"  BY <3>2
    <3> QED BY <3>2, <3>3
  <2>2. CASE calls[c].pair # 0
    <3>1. Goes(c, "complete") /\ "complete" \in CallSteps  BY <2>2 DEF Invalidated, CallSteps
    <3>2. PICK q \in CallRows : /\ calls' = [calls EXCEPT ![c] = q]
                                /\ q.pc = "complete" /\ q.ans = calls[c].ans /\ q.tok = calls[c].tok
                                /\ q.pair = calls[c].pair /\ q.jti = calls[c].jti /\ q.age = calls[c].age
      BY <1>1, <3>1, GoesTo
    <3> QED BY <2>2, <3>2
  <2> QED BY <2>1, <2>2
<1>3. \A s \in CallRows : CallOK(s) /\ LeadOK(s) => (CallOK(s) /\ LeadOK(s))'
  BY DEF CallOK, LeadOK
<1>4. CallOK(q)' /\ LeadOK(q)'  BY <1>1, <1>2 DEF CallOK, LeadOK
<1> QED BY <1>2, <1>3, <1>4, CallRow

\* The DEL of an invalidation.
LEMMA DropCacheInv ==
  ASSUME IInv, NEW c \in Calls, DropCache(c)
  PROVE  IInv'
<1>1. TypesOK /\ Goes(c, "tomb") /\ "tomb" \in CallSteps  BY DEF IInv, DropCache, CallSteps
<1>2. PICK q \in CallRows : /\ calls' = [calls EXCEPT ![c] = q]
                            /\ q.pc = "tomb" /\ q.ans = calls[c].ans /\ q.tok = calls[c].tok
                            /\ q.pair = calls[c].pair /\ q.jti = calls[c].jti /\ q.age = calls[c].age
  BY <1>1, GoesTo
<1>3. CallOK(calls[c]) /\ calls[c].pc = "del"  BY DEF IInv, DropCache, At
<1>4. /\ UNCHANGED <<issued, used, dead, session, idem, tomb, black, guards, revoker, phone, faults>>
      /\ UNCHANGED <<closed, missing, wronged, torn>>
  BY DEF DropCache, tokens, history
<1>5. /\ calls' \in [Calls -> CallRows]
      /\ (\A d \in Calls : CallOK(calls[d]) /\ LeadOK(calls[d]))'
  <2>1. \A s \in CallRows : CallOK(s) /\ LeadOK(s) => (CallOK(s) /\ LeadOK(s))'
    BY <1>4 DEF CallOK, LeadOK
  <2>2. CallOK(q)' /\ LeadOK(q)'  BY <1>2, <1>3, <1>4 DEF CallOK, LeadOK
  <2> QED BY <1>2, <2>1, <2>2, CallRow
<1>6. cached' = [row |-> NoRow, ttl |-> 0] /\ cached' \in [row : Rows, ttl : 0 .. CacheTtl]
  BY Times DEF DropCache, NoRow, Rows
<1>7. TypesOK'
  <2>1. TypeOK'  BY <1>4, <1>5, <1>6 DEF IInv, TypesOK, TypeOK, CallOK
  <2> QED BY <1>4, <1>5, <2>1 DEF IInv, TypesOK
<1>8. (\A t \in Pairs : RecordOK(t))'  BY <1>4 DEF IInv, RecordOK
<1>9. RevokedOK' /\ (\A g \in Guards : GuardOK(g))' /\ ClosedIsRefused' /\ HonestKeepsSession'
  <2>1. ~(cached'.ttl > 0)  BY <1>6
  <2> QED BY <1>4, <2>1 DEF IInv, RevokedOK, GuardOK, ClosedIsRefused, RefusedAtOnce, HonestKeepsSession
<1> QED BY <1>5, <1>7, <1>8, <1>9 DEF IInv

\* The SETEX of the tombstone, or the failure of a side effect.
LEMMA EntombInv ==
  ASSUME IInv, NEW c \in Calls, Entomb(c) \/ SideEffectFails(c)
  PROVE  IInv'
<1>1. /\ UNCHANGED <<issued, used, dead, session, idem, cached, black, guards, revoker, phone>>
      /\ UNCHANGED <<closed, missing, wronged>> /\ faults' \in Nat
      /\ (tomb' = tomb \/ tomb' = CacheTtl) /\ (torn' = torn \/ torn' = TRUE)
  <2>1. CASE Entomb(c)  BY <2>1, Types DEF IInv, Entomb, tokens, history
  <2>2. CASE SideEffectFails(c)
    <3>1. faults' \in Nat  BY <2>2, FaultCounted DEF IInv, SideEffectFails
    <3> QED BY <2>2, <3>1 DEF SideEffectFails, tokens, redis
  <2> QED BY <2>1, <2>2
<1>2. calls[c].pc \in {"del", "tomb"} /\ Invalidated(c)  BY DEF Entomb, SideEffectFails, At
<1>3. /\ calls' \in [Calls -> CallRows]
      /\ (\A d \in Calls : CallOK(calls[d]) /\ LeadOK(calls[d]))'
  BY <1>1, <1>2, InvalidatedTo
<1>4. TypesOK'
  <2>1. tomb' \in 0 .. CacheTtl
    <3>1. tomb \in 0 .. CacheTtl  BY Types DEF IInv
    <3> QED BY <1>1, <3>1, Times
  <2>2. torn' \in BOOLEAN  BY <1>1, Types, Zenon DEF IInv
  <2>3. TypeOK'  BY <1>1, <1>3, <2>1, <2>2 DEF IInv, TypesOK, TypeOK, CallOK
  <2> QED BY <1>1, <1>3, <2>3 DEF IInv, TypesOK
<1>5. (\A t \in Pairs : RecordOK(t))'  BY <1>1 DEF IInv, RecordOK
<1>6. RevokedOK' /\ ClosedIsRefused' /\ HonestKeepsSession'
  BY <1>1 DEF IInv, RevokedOK, ClosedIsRefused, RefusedAtOnce, HonestKeepsSession
<1>7. (\A g \in Guards : GuardOK(g))'
  <2>1. tomb > 0 => tomb' > 0  BY <1>1, Times
  <2> QED BY <1>1, <2>1 DEF IInv, GuardOK
<1> QED BY <1>3, <1>4, <1>5, <1>6, <1>7 DEF IInv

\* The done record: its life reaches the end of the recovery window, so its
\* token is not missing one any more, unless a slow rotation wrote it.
LEMMA CompleteInv ==
  ASSUME IInv, NEW c \in Calls, Complete(c)
  PROVE  IInv'
<1> DEFINE t == calls[c].tok
           row == [status |-> "done", ttl |-> DoneTtl, pair |-> calls[c].pair]
           Records == [status : {"none", "pending", "done"}, ttl : 0 .. DoneTtl, pair : 0 .. MaxToken]
<1>1. /\ calls[c] \in CallRows /\ t \in Pairs /\ CallOK(calls[c]) /\ calls[c].pc = "complete"
      /\ calls[c].pair \in 0 .. MaxToken /\ used \in [Pairs -> -1 .. DoneTtl + 1] /\ idem \in [Pairs -> Records]
  BY Types DEF IInv, CallRows, Complete, At
<1>2. /\ calls[c].pair # 0 /\ calls[c].pair <= issued /\ t < calls[c].pair /\ calls[c].jti \in black
  BY <1>1 DEF CallOK
<1>3. /\ UNCHANGED <<issued, used, dead, session, cached, tomb, black, guards, revoker, phone, faults>>
      /\ UNCHANGED <<wronged, torn>>
  BY DEF Complete, tokens
<1>4. /\ idem' = [idem EXCEPT ![t] = row] /\ closed' = closed \cup {calls[c].jti}
      /\ missing' = (IF 2 * used[t] < Grace THEN missing \ {t} ELSE missing)
  BY DEF Complete, DoneLife
<1>5. PICK q \in CallRows : /\ calls' = [calls EXCEPT ![c] = q]
                            /\ q.pc = "answer" /\ q.ans = "ok" /\ q.tok = t /\ q.pair = calls[c].pair
  <2>1. TypesOK /\ Ends(c, "answer", "ok") /\ "answer" \in CallSteps /\ "ok" \in Answers
    BY DEF IInv, Complete, Answer, CallSteps, Answers
  <2> QED BY <2>1, EndsTo
<1>6. row \in Records
  <2> QED BY <1>1, Times
<1> HIDE DEF row, Records
<1>7. idem' \in [Pairs -> Records]  BY <1>1, <1>4, <1>6
<1>8. /\ calls' \in [Calls -> CallRows]
      /\ (\A d \in Calls : CallOK(calls[d]) /\ LeadOK(calls[d]))'
  <2>1. ASSUME NEW s \in CallRows, CallOK(s) /\ LeadOK(s) PROVE (CallOK(s) /\ LeadOK(s))'
    <3>1. CallOK(s)'  BY <1>3, <2>1 DEF CallOK
    <3>2. s.tok \in Pairs /\ s.age \in Nat  BY DEF CallRows
    <3>3. used[s.tok] \in -1 .. DoneTtl + 1  BY <1>1, <3>2
    <3>4. s.tok \in missing => s.tok \in missing' \/ 2 * used[s.tok] < Grace
      BY <1>4
    <3>5. 2 * used[s.tok] < Grace => 2 * used[s.tok] < Grace + 2 * s.age
      BY <3>2, <3>3, Times
    <3> QED BY <1>3, <2>1, <3>1, <3>4, <3>5 DEF LeadOK
  <2>2. CallOK(q)' /\ LeadOK(q)'  BY <1>1, <1>2, <1>3, <1>5 DEF CallOK, LeadOK
  <2> QED BY <1>5, <2>1, <2>2, CallRow
<1>9. TypesOK'
  <2>1. calls[c].jti \in Pairs  BY <1>2, Types DEF IInv
  <2>2. (missing \subseteq Pairs)' /\ (closed \subseteq Pairs)'  BY <1>4, <2>1, Types DEF IInv
  <2>3. TypeOK'  BY <1>3, <1>7, <1>8, <2>2 DEF IInv, TypesOK, TypeOK, CallOK, Records
  <2> QED BY <1>3, <1>8, <2>3 DEF IInv, TypesOK
<1>10. (\A u \in Pairs : RecordOK(u))'
  <2> SUFFICES ASSUME NEW u \in Pairs PROVE RecordOK(u)'  OBVIOUS
  <2>1. RecordOK(u)  BY DEF IInv
  <2>2. CASE u = t
    <3>1. idem'[u] = row /\ used'[u] = used[u] /\ used[u] \in -1 .. DoneTtl + 1  BY <1>1, <1>3, <1>4, <2>2
    <3>2. row.status = "done" /\ row.ttl = DoneTtl /\ row.pair = calls[c].pair  BY DEF row
    <3> QED BY <1>2, <1>3, <2>2, <3>1, <3>2, Times DEF RecordOK
  <2>3. CASE u # t
    <3>1. idem'[u] = idem[u] /\ (u \in missing' <=> u \in missing)  BY <1>1, <1>4, <2>3
    <3> QED BY <1>3, <2>1, <3>1 DEF RecordOK
  <2> QED BY <2>2, <2>3
<1>11. RevokedOK' /\ (\A g \in Guards : GuardOK(g))' /\ ClosedIsRefused' /\ HonestKeepsSession'
  BY <1>2, <1>3, <1>4 DEF IInv, RevokedOK, GuardOK, ClosedIsRefused, RefusedAtOnce, HonestKeepsSession
<1> QED BY <1>8, <1>9, <1>10, <1>11 DEF IInv

\* release deletes a record: if it was a done one, its token is missing it.
LEMMA ReleaseDeletesInv ==
  ASSUME IInv, NEW c \in Calls, ReleaseDeletes(c)
  PROVE  IInv'
<1> DEFINE t == calls[c].tok
           Records == [status : {"none", "pending", "done"}, ttl : 0 .. DoneTtl, pair : 0 .. MaxToken]
<1>1. /\ calls[c] \in CallRows /\ t \in Pairs /\ CallOK(calls[c]) /\ calls[c].pc = "delete"
      /\ calls[c].ans # "ok" /\ idem \in [Pairs -> Records]
  BY Types DEF IInv, CallRows, ReleaseDeletes, At, CallOK
<1>2. /\ UNCHANGED <<issued, used, dead, session, cached, tomb, black, guards, revoker, phone, faults>>
      /\ UNCHANGED <<closed, wronged, torn>>
  BY DEF ReleaseDeletes, tokens
<1>3. /\ idem' = [idem EXCEPT ![t] = NoRecord]
      /\ missing' = (IF idem[t].status = "done" THEN missing \cup {t} ELSE missing)
  BY DEF ReleaseDeletes
<1>4. PICK q \in CallRows : /\ calls' = [calls EXCEPT ![c] = q]
                            /\ q.pc = "answer" /\ q.ans = calls[c].ans /\ q.tok = t
                            /\ q.pair = calls[c].pair /\ q.jti = calls[c].jti /\ q.age = calls[c].age
  <2>1. TypesOK /\ Goes(c, "answer") /\ "answer" \in CallSteps  BY DEF IInv, ReleaseDeletes, CallSteps
  <2> QED BY <2>1, GoesTo
<1>5. NoRecord \in Records /\ NoRecord.status = "none"  BY Times DEF NoRecord
<1>6. idem' \in [Pairs -> Records]  BY <1>1, <1>3, <1>5
<1>7. /\ calls' \in [Calls -> CallRows]
      /\ (\A d \in Calls : CallOK(calls[d]) /\ LeadOK(calls[d]))'
  <2>1. \A s \in CallRows : CallOK(s) /\ LeadOK(s) => (CallOK(s) /\ LeadOK(s))'
    BY <1>2, <1>3 DEF CallOK, LeadOK
  <2>2. CallOK(q)' /\ LeadOK(q)'  BY <1>1, <1>2, <1>4 DEF CallOK, LeadOK
  <2> QED BY <1>4, <2>1, <2>2, CallRow
<1>8. TypesOK'
  <2>1. (missing \subseteq Pairs)'  BY <1>1, <1>3, Types DEF IInv
  <2>2. TypeOK'  BY <1>2, <1>6, <1>7, <2>1 DEF IInv, TypesOK, TypeOK, CallOK
  <2> QED BY <1>2, <1>7, <2>2 DEF IInv, TypesOK
<1>9. (\A u \in Pairs : RecordOK(u))'
  <2> SUFFICES ASSUME NEW u \in Pairs PROVE RecordOK(u)'  OBVIOUS
  <2>1. RecordOK(u)  BY DEF IInv
  <2>2. CASE u = t
    <3>1. idem'[u] = NoRecord  BY <1>1, <1>3, <2>2
    <3>2. idem[u].status # "done" => u \in missing \/ used[u] = -1 \/ ~(used[u] < DoneTtl)
      BY <2>1 DEF RecordOK
    <3>3. idem[u].status = "done" => u \in missing'  BY <1>3, <2>2
    <3>4. u \in missing => u \in missing'  BY <1>3
    <3> QED BY <1>2, <1>5, <3>1, <3>2, <3>3, <3>4 DEF RecordOK
  <2>3. CASE u # t
    <3>1. idem'[u] = idem[u] /\ (u \in missing' <=> u \in missing)  BY <1>1, <1>3, <2>3
    <3> QED BY <1>2, <2>1, <3>1 DEF RecordOK
  <2> QED BY <2>2, <2>3
<1>10. RevokedOK' /\ (\A g \in Guards : GuardOK(g))' /\ ClosedIsRefused' /\ HonestKeepsSession'
  BY <1>2 DEF IInv, RevokedOK, GuardOK, ClosedIsRefused, RefusedAtOnce, HonestKeepsSession
<1> QED BY <1>7, <1>8, <1>9, <1>10 DEF IInv
-----------------------------------------------------------------------------
(* The phone alone. *)

\* The phone asks for a challenge, or gives up waiting.
LEMMA PhoneInv ==
  ASSUME IInv, Challenge \/ GiveUp
  PROVE  IInv'
<1>1. /\ UNCHANGED <<issued, used, dead, session, idem, cached, tomb, black, calls, guards, revoker>>
      /\ UNCHANGED <<closed, missing, wronged, torn>>
  BY DEF Challenge, GiveUp, tokens, redis, history
<1>2. faults' \in Nat  BY Types, FaultCounted DEF IInv, Challenge, GiveUp
<1>3. phone' \in Phones /\ phone'.tok = phone.tok
  <2>1. phone \in Phones  BY Types DEF IInv
  <2>2. CASE Challenge  BY <2>1, <2>2 DEF Challenge, Phones
  <2>3. CASE GiveUp  BY <2>1, <2>3 DEF GiveUp, Phones
  <2> QED BY <2>2, <2>3
<1>4. TypesOK'
  <2>1. TypeOK'  BY <1>1, <1>3 DEF IInv, TypesOK, TypeOK
  <2> QED BY <1>1, <1>2, <1>3, <2>1 DEF IInv, TypesOK
<1>5. (\A c \in Calls : CallOK(calls[c]) /\ LeadOK(calls[c]))' /\ (\A t \in Pairs : RecordOK(t))'
  BY <1>1 DEF IInv, CallOK, LeadOK, RecordOK
<1>6. RevokedOK' /\ (\A g \in Guards : GuardOK(g))' /\ ClosedIsRefused' /\ HonestKeepsSession'
  BY <1>1 DEF IInv, RevokedOK, GuardOK, ClosedIsRefused, RefusedAtOnce, HonestKeepsSession
<1> QED BY <1>4, <1>5, <1>6 DEF IInv
-----------------------------------------------------------------------------
(* The requests. *)

\* A step of one request that leaves the caches alone.
LEMMA GuardRow ==
  ASSUME IInv, NEW g \in Guards, NEW r \in GuardRows, guards' = [guards EXCEPT ![g] = r],
         r.closed => revoker.pc = "done",
         r.pc = "fill" /\ r.closed => r.row.revoked,
         r.pc = "fill" /\ revoker.pc = "done" => r.row.revoked \/ tomb > 0,
         r.pc = "accepted" => torn \/ ~r.closed,
         UNCHANGED <<tokens, redis, black, calls, revoker, phone, history, faults>>
  PROVE  IInv'
<1>1. guards \in [Guards -> GuardRows] /\ guards' \in [Guards -> GuardRows]  BY Types DEF IInv
<1>2. \A h \in Guards : guards'[h] = r \/ guards'[h] = guards[h]  BY <1>1
<1>3. TypesOK'
  <2>1. TypeOK'  BY DEF IInv, TypesOK, TypeOK, tokens, redis, history
  <2> QED BY <1>1, <2>1 DEF IInv, TypesOK
<1>4. (\A c \in Calls : CallOK(calls[c]) /\ LeadOK(calls[c]))' /\ (\A t \in Pairs : RecordOK(t))'
  BY DEF IInv, CallOK, LeadOK, RecordOK, tokens, redis, history
<1>5. RevokedOK' /\ HonestKeepsSession'
  BY DEF IInv, RevokedOK, HonestKeepsSession, tokens, redis, history
<1>6. (\A h \in Guards : GuardOK(h))'
  <2> SUFFICES ASSUME NEW h \in Guards PROVE GuardOK(h)'  OBVIOUS
  <2>1. GuardOK(h)  BY DEF IInv
  <2> QED BY <1>2, <2>1 DEF GuardOK, redis, tokens
<1>7. ClosedIsRefused'
  <2>1. torn' = torn  BY DEF history
  <2>2. CASE torn  BY <2>1, <2>2 DEF ClosedIsRefused
  <2>3. CASE ~torn
    <3>1. RefusedAtOnce  BY <2>3 DEF IInv, ClosedIsRefused
    <3> QED BY <1>2, <2>3, <3>1 DEF ClosedIsRefused, RefusedAtOnce
  <2> QED BY <2>2, <2>3
<1> QED BY <1>3, <1>4, <1>5, <1>6, <1>7 DEF IInv

\* A request that has ended or was refused.
LEMMA AsleepRow == Asleep \in GuardRows /\ Asleep.pc = "idle" /\ Asleep.closed = FALSE
BY Times DEF Asleep, GuardRows, NoRow, Rows, Pairs

\* Accepting a request whose row is in order.
LEMMA AcceptedRow ==
  \A b \in BOOLEAN : /\ [Asleep EXCEPT !.pc = "accepted", !.closed = b] =
                          [pc |-> "accepted", jti |-> 1, row |-> NoRow, closed |-> b]
                     /\ [pc |-> "accepted", jti |-> 1, row |-> NoRow, closed |-> b] \in GuardRows
<1> TAKE b \in BOOLEAN
<1>1. [pc |-> "accepted", jti |-> 1, row |-> NoRow, closed |-> b] \in GuardRows
  <2>1. NoRow \in Rows  BY Times DEF NoRow, Rows
  <2> QED BY <2>1, Times DEF GuardRows, Pairs
<1> DEFINE s == [Asleep EXCEPT !.pc = "accepted"]
<1>2. s = [pc |-> "accepted", jti |-> 1, row |-> NoRow, closed |-> FALSE]
  <2>1. \A r \in GuardRows : [r EXCEPT !.pc = "accepted"] =
           [pc |-> "accepted", jti |-> r.jti, row |-> r.row, closed |-> r.closed]
    BY DEF GuardRows
  <2>2. Asleep.jti = 1 /\ Asleep.row = NoRow /\ Asleep.closed = FALSE  BY DEF Asleep
  <2> QED BY <2>1, <2>2, AsleepRow
<1>3. [Asleep EXCEPT !.pc = "accepted", !.closed = b] = [s EXCEPT !.closed = b]  OBVIOUS
<1> HIDE DEF s
<1>4. [s EXCEPT !.closed = b] = [pc |-> "accepted", jti |-> 1, row |-> NoRow, closed |-> b]  BY <1>2
<1> QED BY <1>1, <1>3, <1>4

\* The decision of a guard on a row: refused, or accepted as it came.
LEMMA DecidesTo ==
  ASSUME IInv, NEW g \in Guards, NEW row, GuardDecides(g, row)
  PROVE  \E r \in GuardRows : /\ guards' = [guards EXCEPT ![g] = r]
                              /\ \/ r.pc = "idle" /\ r.closed = FALSE
                                 \/ r.pc = "accepted" /\ r.closed = guards[g].closed /\ ~row.revoked
<1>1. CASE row.revoked \/ row.jti # guards[g].jti
  <2>1. guards' = [guards EXCEPT ![g] = Asleep]  BY <1>1 DEF GuardDecides, Refuses
  <2> QED BY <2>1, AsleepRow
<1>2. CASE ~(row.revoked \/ row.jti # guards[g].jti)
  <2>1. guards[g] \in GuardRows  BY Types DEF IInv
  <2>2. guards[g].closed \in BOOLEAN  BY <2>1 DEF GuardRows
  <2>3. guards' = [guards EXCEPT ![g] = [Asleep EXCEPT !.pc = "accepted", !.closed = guards[g].closed]]
    BY <1>2 DEF GuardDecides
  <2>4. PICK b \in BOOLEAN : b = guards[g].closed  BY <2>2
  <2>5. PICK r \in GuardRows : r = [pc |-> "accepted", jti |-> 1, row |-> NoRow, closed |-> b]
    BY AcceptedRow
  <2>6. [Asleep EXCEPT !.pc = "accepted", !.closed = b] = r  BY <2>5, AcceptedRow
  <2>7. guards' = [guards EXCEPT ![g] = r]  BY <2>3, <2>4, <2>6
  <2>8. r.pc = "accepted" /\ r.closed = b  BY <2>5
  <2> QED BY <1>2, <2>4, <2>7, <2>8
<1> QED BY <1>1, <1>2

\* The two fields a request keeps between its steps.
LEMMA GuardToRow ==
  \A r \in GuardRows, x \in {"load", "fill"}, w \in Rows :
    /\ [r EXCEPT !.pc = x, !.row = w] = [pc |-> x, jti |-> r.jti, row |-> w, closed |-> r.closed]
    /\ [pc |-> x, jti |-> r.jti, row |-> w, closed |-> r.closed] \in GuardRows
<1> SUFFICES ASSUME NEW r \in GuardRows, NEW x \in {"load", "fill"}, NEW w \in Rows
             PROVE  /\ [r EXCEPT !.pc = x, !.row = w] = [pc |-> x, jti |-> r.jti, row |-> w, closed |-> r.closed]
                    /\ [pc |-> x, jti |-> r.jti, row |-> w, closed |-> r.closed] \in GuardRows
  OBVIOUS
<1>1. [pc |-> x, jti |-> r.jti, row |-> w, closed |-> r.closed] \in GuardRows  BY DEF GuardRows
<1> DEFINE s == [r EXCEPT !.pc = x]
<1>2. s = [pc |-> x, jti |-> r.jti, row |-> r.row, closed |-> r.closed]  BY DEF GuardRows
<1>3. [r EXCEPT !.pc = x, !.row = w] = [s EXCEPT !.row = w]  OBVIOUS
<1> HIDE DEF s
<1>4. [s EXCEPT !.row = w] = [pc |-> x, jti |-> r.jti, row |-> w, closed |-> r.closed]  BY <1>2
<1> QED BY <1>1, <1>3, <1>4

\* A request starts; a token ended before, and not blacklisted, was ended by
\* the revocation.
LEMMA GuardStartInv ==
  ASSUME IInv, NEW g \in Guards, NEW j \in Pairs, GuardStart(g, j)
  PROVE  IInv'
<1> DEFINE r == [pc |-> "cache", jti |-> j, row |-> NoRow, closed |-> j \in closed]
<1>1. r \in GuardRows
  <2>1. NoRow \in Rows /\ (j \in closed) \in BOOLEAN  BY Times DEF NoRow, Rows
  <2> QED BY <2>1 DEF GuardRows
<1>2. guards' = [guards EXCEPT ![g] = r]
      /\ UNCHANGED <<tokens, redis, black, calls, revoker, phone, history, faults>>
  BY DEF GuardStart
<1>3. j \in closed => revoker.pc = "done"  BY DEF IInv, RevokedOK, GuardStart
<1>4. r.pc = "cache" /\ (r.closed <=> j \in closed)  OBVIOUS
<1> HIDE DEF r
<1> QED BY <1>1, <1>2, <1>3, <1>4, GuardRow

\* loadSession's cache: a row that is there after the revocation is revoked,
\* unless an invalidation was torn.
LEMMA GuardCacheInv ==
  ASSUME IInv, NEW g \in Guards, GuardCache(g)
  PROVE  IInv'
<1>1. guards[g] \in GuardRows /\ GuardOK(g) /\ guards \in [Guards -> GuardRows]  BY Types DEF IInv
<1>2. UNCHANGED <<tokens, redis, black, calls, revoker, phone, history, faults>>  BY DEF GuardCache
<1>3. CASE cached.ttl > 0
  <2>1. PICK row \in Rows : row = cached.row  BY Types DEF IInv
  <2>2. GuardDecides(g, row)  BY <1>3, <2>1 DEF GuardCache
  <2>3. PICK r \in GuardRows : /\ guards' = [guards EXCEPT ![g] = r]
                               /\ \/ r.pc = "idle" /\ r.closed = FALSE
                                  \/ r.pc = "accepted" /\ r.closed = guards[g].closed /\ ~row.revoked
    BY <2>2, DecidesTo
  <2>4. r.closed => revoker.pc = "done"  BY <1>1, <2>3 DEF GuardOK
  <2>5. r.pc = "accepted" => torn \/ ~r.closed
    BY <1>3, <2>1, <2>3, <2>4 DEF IInv, RevokedOK
  <2> QED BY <1>2, <2>3, <2>4, <2>5, GuardRow
<1>4. CASE ~(cached.ttl > 0)
  <2>1. GuardTo(g, "load", NoRow) /\ NoRow \in Rows  BY <1>4, Times DEF GuardCache, NoRow, Rows
  <2>2. PICK r \in GuardRows : r = [pc |-> "load", jti |-> guards[g].jti, row |-> NoRow, closed |-> guards[g].closed]
    BY <1>1, <2>1, GuardToRow
  <2>3. [guards[g] EXCEPT !.pc = "load", !.row = NoRow] = r  BY <1>1, <2>1, <2>2, GuardToRow
  <2>4. guards' = [guards EXCEPT ![g] = r]  BY <2>1, <2>3 DEF GuardTo
  <2>5. r.pc = "load" /\ r.closed = guards[g].closed  BY <2>2
  <2>6. r.closed => revoker.pc = "done"  BY <1>1, <2>5 DEF GuardOK
  <2> QED BY <1>2, <2>4, <2>5, <2>6, GuardRow
<1> QED BY <1>3, <1>4

\* loadSession's row: read after the revocation it is a revoked one.
LEMMA GuardLoadInv ==
  ASSUME IInv, NEW g \in Guards, GuardLoad(g)
  PROVE  IInv'
<1>1. guards[g] \in GuardRows /\ GuardOK(g) /\ guards \in [Guards -> GuardRows]
      /\ session \in [revoked : {"no", "logout", "reuse"}, jti : Pairs]
  BY Types DEF IInv
<1>2. UNCHANGED <<tokens, redis, black, calls, revoker, phone, history, faults>>  BY DEF GuardLoad
<1>3. PICK row \in Rows : row = Row
  <2>1. (session.revoked # "no") \in BOOLEAN /\ session.jti \in 0 .. MaxToken  BY <1>1, Times DEF Pairs
  <2> QED BY <2>1 DEF Row, Rows
<1>4. row.revoked <=> session.revoked # "no"  BY <1>3 DEF Row
<1>5. PICK r \in GuardRows : r = [pc |-> "fill", jti |-> guards[g].jti, row |-> row, closed |-> guards[g].closed]
  BY <1>1, GuardToRow
<1>6. [guards[g] EXCEPT !.pc = "fill", !.row = row] = r  BY <1>1, <1>5, GuardToRow
<1>7. guards' = [guards EXCEPT ![g] = r]  BY <1>3, <1>6 DEF GuardLoad, GuardTo
<1>8. r.pc = "fill" /\ r.closed = guards[g].closed /\ r.row = row  BY <1>5
<1>9. r.closed => revoker.pc = "done"  BY <1>1, <1>8 DEF GuardOK
<1>10. revoker.pc = "done" => r.row.revoked  BY <1>4, <1>8 DEF IInv, RevokedOK
<1> QED BY <1>2, <1>7, <1>8, <1>9, <1>10, GuardRow

\* A request has been let through or refused.
LEMMA GuardEndInv ==
  ASSUME IInv, NEW g \in Guards, GuardEnd(g)
  PROVE  IInv'
BY AsleepRow, GuardRow DEF GuardEnd

\* fillIfNotTombstoned: a row from before the revocation meets the tombstone,
\* or comes between the two commands of the invalidation, which tears it.
LEMMA GuardFillInv ==
  ASSUME IInv, NEW g \in Guards, GuardFill(g)
  PROVE  IInv'
<1>1. guards[g] \in GuardRows /\ GuardOK(g) /\ guards \in [Guards -> GuardRows] /\ guards[g].pc = "fill"
  BY Types DEF IInv, GuardFill
<1>2. /\ UNCHANGED <<issued, used, dead, session, idem, tomb, black, calls, revoker, phone, faults>>
      /\ UNCHANGED <<closed, missing, wronged>>
  BY DEF GuardFill, tokens
<1>3. PICK row \in Rows : row = guards[g].row  BY <1>1 DEF GuardRows
<1>4. PICK r \in GuardRows : /\ guards' = [guards EXCEPT ![g] = r]
                             /\ \/ r.pc = "idle" /\ r.closed = FALSE
                                \/ r.pc = "accepted" /\ r.closed = guards[g].closed /\ ~row.revoked
  <2>1. GuardDecides(g, row)  BY <1>3 DEF GuardFill
  <2> QED BY <2>1, DecidesTo
<1>5. \A h \in Guards : guards'[h] = r \/ guards'[h] = guards[h]  BY <1>1, <1>4
<1>6. guards' \in [Guards -> GuardRows]  BY <1>1, <1>4
<1>7. cached' = (IF tomb = 0 THEN [row |-> row, ttl |-> CacheTtl] ELSE cached)
  BY <1>3 DEF GuardFill, MayFill
<1>8. cached' \in [row : Rows, ttl : 0 .. CacheTtl]
  <2>1. cached \in [row : Rows, ttl : 0 .. CacheTtl]  BY Types DEF IInv
  <2> QED BY <1>7, <2>1, Times
<1>9. torn' \in BOOLEAN /\ (torn => torn') /\ (InGap => torn')
  <2>1. torn \in BOOLEAN  BY Types DEF IInv
  <2>2. torn' = (torn \/ InGap)  BY DEF GuardFill
  <2> QED BY <2>1, <2>2, Zenon
<1>10. TypesOK'
  <2>1. TypeOK'  BY <1>2, <1>8, <1>9 DEF IInv, TypesOK, TypeOK
  <2> QED BY <1>2, <1>6, <2>1 DEF IInv, TypesOK
<1>11. (\A c \in Calls : CallOK(calls[c]) /\ LeadOK(calls[c]))' /\ (\A t \in Pairs : RecordOK(t))'
       /\ HonestKeepsSession'
  BY <1>2 DEF IInv, CallOK, LeadOK, RecordOK, HonestKeepsSession
<1>12. RevokedOK'
  <2>1. ASSUME revoker.pc \in {"tomb", "done"}, cached'.ttl > 0 PROVE torn' \/ cached'.row.revoked
    <3>1. CASE tomb = 0
      <4>1. cached'.row = row  BY <1>7, <3>1
      <4>2. CASE revoker.pc = "tomb"  BY <1>9, <3>1, <4>2 DEF InGap
      <4>3. CASE revoker.pc = "done"  BY <1>1, <1>3, <3>1, <4>1, <4>3 DEF GuardOK
      <4> QED BY <2>1, <4>2, <4>3
    <3>2. CASE tomb # 0
      <4>1. cached' = cached  BY <1>7, <3>2
      <4> QED BY <1>9, <2>1, <4>1 DEF IInv, RevokedOK
    <3> QED BY <3>1, <3>2
  <2> QED BY <1>2, <2>1 DEF IInv, RevokedOK
<1>13. (\A h \in Guards : GuardOK(h))'
  <2> SUFFICES ASSUME NEW h \in Guards PROVE GuardOK(h)'  OBVIOUS
  <2>1. GuardOK(h)  BY DEF IInv
  <2>2. CASE guards'[h] = r  BY <1>1, <1>2, <1>4, <2>2 DEF GuardOK
  <2>3. CASE guards'[h] = guards[h]  BY <1>2, <2>1, <2>3 DEF GuardOK
  <2> QED BY <1>5, <2>2, <2>3
<1>14. ClosedIsRefused'
  <2>1. CASE torn  BY <1>9, <2>1 DEF ClosedIsRefused
  <2>2. CASE ~torn
    <3>1. RefusedAtOnce  BY <2>2 DEF IInv, ClosedIsRefused
    <3>2. r.pc = "accepted" => ~r.closed  BY <1>1, <1>3, <1>4 DEF GuardOK
    <3> QED BY <1>5, <3>1, <3>2 DEF ClosedIsRefused, RefusedAtOnce
  <2> QED BY <2>1, <2>2
<1> QED BY <1>10, <1>11, <1>12, <1>13, <1>14 DEF IInv
-----------------------------------------------------------------------------
(* The revocation. *)

\* The target is read, the transaction ends its session and its tokens.
LEMMA RevokeReadsInv ==
  ASSUME IInv, RevokeReads
  PROVE  IInv'
<1>1. /\ UNCHANGED <<issued, used, dead, session, idem, cached, tomb, black, calls, guards, phone, faults>>
      /\ UNCHANGED <<closed, missing, wronged, torn>> /\ revoker.pc = "idle"
  BY DEF RevokeReads, tokens, redis, history
<1>2. revoker' \in Revokers /\ revoker'.pc = "commit" /\ revoker'.jti \in Pairs
  <2>1. session.jti \in Pairs  BY Types DEF IInv
  <2>2. revoker' = [pc |-> "commit", jti |-> session.jti]  BY DEF RevokeReads
  <2> QED BY <2>1, <2>2, Times DEF Revokers, Pairs
<1>3. TypesOK'
  <2>1. TypeOK'  BY <1>1 DEF IInv, TypesOK, TypeOK
  <2> QED BY <1>1, <1>2, <2>1 DEF IInv, TypesOK
<1>4. (\A c \in Calls : CallOK(calls[c]) /\ LeadOK(calls[c]))' /\ (\A t \in Pairs : RecordOK(t))'
      /\ HonestKeepsSession' /\ ClosedIsRefused'
  BY <1>1 DEF IInv, CallOK, LeadOK, RecordOK, HonestKeepsSession, ClosedIsRefused, RefusedAtOnce
<1>5. RevokedOK' /\ (\A g \in Guards : GuardOK(g))'
  BY <1>1, <1>2 DEF IInv, RevokedOK, GuardOK
<1> QED BY <1>3, <1>4, <1>5 DEF IInv

\* The revocation commits.
LEMMA RevokeCommitsInv ==
  ASSUME IInv, RevokeCommits
  PROVE  IInv'
<1>1. /\ UNCHANGED <<issued, used, idem, cached, tomb, calls, guards, phone, faults>>
      /\ UNCHANGED <<closed, missing, wronged, torn>> /\ revoker.pc = "commit"
      /\ black' = black \cup {revoker.jti} /\ revoker.jti \in Pairs
  BY DEF RevokeCommits, redis, history, IInv, RevokedOK
<1>2. revoker' \in Revokers /\ revoker'.pc = "del"
  <2>1. revoker' = [pc |-> "del", jti |-> 0]  BY DEF RevokeCommits
  <2> QED BY <2>1, Times DEF Revokers
<1>3. session' \in [revoked : {"no", "logout", "reuse"}, jti : Pairs] /\ session'.jti = session.jti
      /\ session'.revoked = "logout"
  <2>1. session \in [revoked : {"no", "logout", "reuse"}, jti : Pairs]  BY Types DEF IInv
  <2> QED BY <2>1 DEF RevokeCommits
<1>4. (black \subseteq Pairs)' /\ (dead \subseteq Pairs)'
  <2>1. issued \in Pairs /\ dead' = 1 .. issued  BY Types DEF IInv, RevokeCommits
  <2>2. \A n \in 1 .. issued : n \in Pairs  BY <2>1, Times DEF Pairs
  <2> QED BY <1>1, <2>1, <2>2, Types DEF IInv
<1>5. TypesOK'
  <2>1. TypeOK'  BY <1>1, <1>3, <1>4 DEF IInv, TypesOK, TypeOK
  <2> QED BY <1>1, <1>2, <2>1 DEF IInv, TypesOK
<1>6. (\A c \in Calls : CallOK(calls[c]) /\ LeadOK(calls[c]))' /\ (\A t \in Pairs : RecordOK(t))'
      /\ HonestKeepsSession' /\ ClosedIsRefused'
  BY <1>1 DEF IInv, CallOK, LeadOK, RecordOK, HonestKeepsSession, ClosedIsRefused, RefusedAtOnce
<1>7. RevokedOK' /\ (\A g \in Guards : GuardOK(g))'
  BY <1>1, <1>2, <1>3 DEF IInv, RevokedOK, GuardOK
<1> QED BY <1>5, <1>6, <1>7 DEF IInv

\* The revocation drops the cached session.
LEMMA RevokeDropsCacheInv ==
  ASSUME IInv, RevokeDropsCache
  PROVE  IInv'
<1>1. /\ UNCHANGED <<issued, used, dead, session, idem, tomb, black, calls, guards, phone, faults>>
      /\ UNCHANGED <<closed, missing, wronged, torn>> /\ revoker.pc = "del"
  BY DEF RevokeDropsCache, tokens, history
<1>2. revoker' \in Revokers /\ revoker'.pc = "tomb"
  <2>1. revoker \in Revokers  BY Types DEF IInv
  <2> QED BY <2>1 DEF RevokeDropsCache, Revokers
<1>3. cached' = [row |-> NoRow, ttl |-> 0] /\ cached' \in [row : Rows, ttl : 0 .. CacheTtl]
      /\ ~(cached'.ttl > 0)
  BY Times DEF RevokeDropsCache, NoRow, Rows
<1>4. TypesOK'
  <2>1. TypeOK'  BY <1>1, <1>3 DEF IInv, TypesOK, TypeOK
  <2> QED BY <1>1, <1>2, <2>1 DEF IInv, TypesOK
<1>5. (\A c \in Calls : CallOK(calls[c]) /\ LeadOK(calls[c]))' /\ (\A t \in Pairs : RecordOK(t))'
      /\ HonestKeepsSession' /\ ClosedIsRefused'
  BY <1>1 DEF IInv, CallOK, LeadOK, RecordOK, HonestKeepsSession, ClosedIsRefused, RefusedAtOnce
<1>6. RevokedOK' /\ (\A g \in Guards : GuardOK(g))'
  BY <1>1, <1>2, <1>3 DEF IInv, RevokedOK, GuardOK
<1> QED BY <1>4, <1>5, <1>6 DEF IInv

\* The tombstone is there before the revocation answers, and no request of
\* before it counts as closed.
LEMMA RevokeEntombsInv ==
  ASSUME IInv, RevokeEntombs
  PROVE  IInv'
<1>1. /\ UNCHANGED <<issued, used, dead, session, idem, cached, black, calls, guards, phone, faults>>
      /\ UNCHANGED <<missing, wronged, torn>> /\ revoker.pc = "tomb"
      /\ tomb' = CacheTtl /\ closed' = closed \cup black \cup {session.jti}
  BY DEF RevokeEntombs, tokens
<1>2. revoker' \in Revokers /\ revoker'.pc = "done"
  <2>1. revoker \in Revokers  BY Types DEF IInv
  <2> QED BY <2>1 DEF RevokeEntombs, Revokers
<1>3. TypesOK'
  <2>1. (closed \subseteq Pairs)'  BY <1>1, Types DEF IInv
  <2>2. tomb' \in 0 .. CacheTtl  BY <1>1, Times
  <2>3. TypeOK'  BY <1>1, <2>1, <2>2 DEF IInv, TypesOK, TypeOK
  <2> QED BY <1>1, <1>2, <2>3 DEF IInv, TypesOK
<1>4. (\A c \in Calls : CallOK(calls[c]) /\ LeadOK(calls[c]))' /\ (\A t \in Pairs : RecordOK(t))'
      /\ HonestKeepsSession' /\ ClosedIsRefused'
  BY <1>1 DEF IInv, CallOK, LeadOK, RecordOK, HonestKeepsSession, ClosedIsRefused, RefusedAtOnce
<1>5. RevokedOK'  BY <1>1, <1>2 DEF IInv, RevokedOK
<1>6. (\A g \in Guards : GuardOK(g))'
  <2>1. tomb' > 0  BY <1>1, Times
  <2> QED BY <1>1, <1>2, <2>1 DEF IInv, GuardOK
<1> QED BY <1>3, <1>4, <1>5, <1>6 DEF IInv
-----------------------------------------------------------------------------
(* The theorems. *)

\* The initial states satisfy the invariant.
LEMMA InitInv ==
  ASSUME Init
  PROVE  IInv
<1> USE DEF Init
<1>1. 1 \in Pairs /\ NoRow \in Rows /\ NoRecord.status = "none"
      /\ NoRecord \in [status : {"none", "pending", "done"}, ttl : 0 .. DoneTtl, pair : 0 .. MaxToken]
  BY Times DEF Pairs, NoRow, Rows, NoRecord
<1>2. used \in [Pairs -> -1 .. DoneTtl + 1] /\ session \in [revoked : {"no", "logout", "reuse"}, jti : Pairs]
  BY <1>1, Times
<1>3. idem \in [Pairs -> [status : {"none", "pending", "done"}, ttl : 0 .. DoneTtl, pair : 0 .. MaxToken]]
      /\ cached \in [row : Rows, ttl : 0 .. CacheTtl] /\ tomb \in 0 .. CacheTtl /\ cached.ttl = 0
  BY <1>1, Times
<1>4. calls \in [Calls -> CallRows] /\ guards \in [Guards -> GuardRows]  BY FreeRow, AsleepRow
<1>5. revoker \in Revokers /\ phone \in Phones /\ faults \in Nat  BY <1>1, Times DEF Revokers, Phones
<1>6. TypesOK
  <2>1. (dead \subseteq Pairs) /\ (black \subseteq Pairs) /\ (closed \subseteq Pairs) /\ (missing \subseteq Pairs)
    OBVIOUS
  <2>2. \A c \in Calls : calls[c].pair = 0  BY FreeRow
  <2>3. phone.tok <= issued /\ session.jti <= issued  OBVIOUS
  <2>4. wronged \in BOOLEAN /\ torn \in BOOLEAN  OBVIOUS
  <2>5. TypeOK  BY <1>1, <1>2, <1>3, <2>1, <2>2, <2>3, <2>4 DEF TypeOK
  <2> QED BY <1>4, <1>5, <2>5 DEF TypesOK
<1>7. \A c \in Calls : CallOK(calls[c]) /\ LeadOK(calls[c])  BY FreeRow DEF CallOK, LeadOK
<1>8. \A t \in Pairs : RecordOK(t)  BY <1>1 DEF RecordOK
<1>9. RevokedOK /\ HonestKeepsSession  BY DEF RevokedOK, HonestKeepsSession
<1>10. \A g \in Guards : GuardOK(g) /\ guards[g].pc = "idle"  BY AsleepRow DEF GuardOK
<1>11. ClosedIsRefused  BY <1>10 DEF ClosedIsRefused, RefusedAtOnce
<1> QED BY <1>6, <1>7, <1>8, <1>9, <1>10, <1>11 DEF IInv

\* Every step of a call keeps the invariant.
LEMMA CallStepInv ==
  ASSUME IInv, NEW c \in Calls,
         CallStep(c) \/ RetryInProgress(c) \/ ProofFails(c) \/ SideEffectFails(c)
         \/ CompleteFails(c) \/ ServerCrash(c)
  PROVE  IInv'
BY ClaimLeadsInv, ClaimWaitsInv, ClaimCachedInv, FindEndsInv, FindUsableInv, FindReusedInv,
   SessionEndedInv, RotateInv, BlacklistInv, DropCacheInv, EntombInv, CompleteInv, ReleaseReadsInv,
   ReleaseDeletesInv, CallFreedInv, FailsInv
DEF CallStep

\* Every step of a request keeps the invariant.
LEMMA GuardStepInv ==
  ASSUME IInv, NEW g \in Guards, GuardStep(g) \/ (\E j \in Pairs : GuardStart(g, j))
  PROVE  IInv'
BY GuardStartInv, GuardCacheInv, GuardLoadInv, GuardFillInv, GuardEndInv DEF GuardStep

\* Nothing happens.
LEMMA StutterInv ==
  ASSUME IInv, UNCHANGED vars
  PROVE  IInv'
<1> USE DEF vars, tokens, redis, history
<1>1. TypesOK'
  <2>1. TypeOK'  BY DEF IInv, TypesOK, TypeOK
  <2> QED BY <2>1 DEF IInv, TypesOK
<1>2. (\A c \in Calls : CallOK(calls[c]) /\ LeadOK(calls[c]))' /\ (\A t \in Pairs : RecordOK(t))'
  BY DEF IInv, CallOK, LeadOK, RecordOK
<1>3. RevokedOK' /\ (\A g \in Guards : GuardOK(g))' /\ ClosedIsRefused' /\ HonestKeepsSession'
  BY DEF IInv, RevokedOK, GuardOK, ClosedIsRefused, RefusedAtOnce, HonestKeepsSession
<1> QED BY <1>1, <1>2, <1>3 DEF IInv

\* The invariant holds of every reachable state.
THEOREM Invariant == Spec => []IInv
<1>1. Init => IInv  BY InitInv
<1>2. IInv /\ [Next]_vars => IInv'
  <2> SUFFICES ASSUME IInv, [Next]_vars PROVE IInv'  OBVIOUS
  <2>1. CASE Tick  BY <2>1, TickInv
  <2>2. CASE PhoneStep \/ GiveUp  BY <2>2, PhoneInv, PostInv DEF PhoneStep
  <2>3. CASE RevokeReads  BY <2>3, RevokeReadsInv
  <2>4. CASE RevokeStep
    BY <2>4, RevokeCommitsInv, RevokeDropsCacheInv, RevokeEntombsInv DEF RevokeStep
  <2>5. CASE \E c \in Calls : CallStep(c) \/ RetryInProgress(c) \/ ProofFails(c) \/ SideEffectFails(c)
                              \/ CompleteFails(c) \/ ServerCrash(c)
    BY <2>5, CallStepInv
  <2>6. CASE \E g \in Guards : GuardStep(g) \/ (\E j \in Pairs : GuardStart(g, j))
    BY <2>6, GuardStepInv
  <2>7. CASE UNCHANGED vars  BY <2>7, StutterInv
  <2> QED BY <2>1, <2>2, <2>3, <2>4, <2>5, <2>6, <2>7 DEF Next
<1> QED BY <1>1, <1>2, PTL DEF Spec

\* What a finished logout, revocation or rotation has ended is refused, torn
\* invalidations apart.
THEOREM EndedIsRefused == Spec => []Inv
<1>1. IInv => Inv  BY DEF IInv, TypesOK, Inv
<1> QED BY <1>1, Invariant, PTL

\* Reuse detection never ends the session of a phone that retries in time.
THEOREM HonestPhoneStays == Spec => []HonestKeepsSession
<1>1. IInv => HonestKeepsSession  BY DEF IInv
<1> QED BY <1>1, Invariant, PTL
=============================================================================
