-------------------------- MODULE StoreSync_proofs --------------------------
(***************************************************************************)
(* Proofs about StoreSync, for any number of stores, schedulers and        *)
(* faults: whatever opens end late, one scheduler at most is held, it is   *)
(* the one of the store the user is in, the gate shows what it does, and   *)
(* no screen is mounted on a store without rows.                           *)
(***************************************************************************)
EXTENDS StoreSync, TLAPS

Firsts == {Rest} \cup [kind : {"first"}, at : {"reset", "dump"}]
Jobs == {Rest} \cup [kind : {"start", "cycle", "push"}, at : {"reset", "dump", "push", "answer", "pull"}]
Records == [store : Stores \cup {Nothing}, first : Firsts, job : Jobs,
            timer : BOOLEAN, retry : BOOLEAN, limits : 0 .. MaxRetries + 1]

\* A scheduler: not made yet, or made for a store; while it opens its store for
\* the first time it does nothing else, and at rest and stopped it is silent.
SchedulerOK(i) ==
  /\ i > used => sched[i] = Unused
  /\ i <= used => sched[i].store \in Stores
  /\ sched[i].first # Rest => sched[i].job = Rest /\ ~sched[i].timer /\ ~sched[i].retry
  /\ i \notin Held \cup loose => ~Busy(i) /\ ~sched[i].timer /\ ~sched[i].retry

\* The binding follows the store the effect has run for; the open store is
\* beyond its first opening, and has rows until a wipe that sends the user out.
BindingOK ==
  /\ opening # Nothing => opening <= used
  /\ current # Nothing => current <= used /\ sched[current].first = Rest
  /\ status.phase # "idle" => status.store = bound /\ bound # Nothing
  /\ status.phase = "ready" => status.store \in cursor \/ selected = Nothing

IInv ==
  /\ TypeOK /\ sched \in [Schedulers -> Records]
  /\ (\A i \in Schedulers : SchedulerOK(i)) /\ BindingOK
  /\ LastChoiceWins /\ GateIsTrue
-----------------------------------------------------------------------------
Phases == {"idle", "opening", "ready", "error"}
Writes == [Stores -> {"none", "queued", "sent"}]

\* The types the invariant gives.
LEMMA Types ==
  ASSUME IInv
  PROVE  /\ selected \in Stores \cup {Nothing} /\ bound \in Stores \cup {Nothing}
         /\ opening \in Schedulers \cup {Nothing} /\ current \in Schedulers \cup {Nothing}
         /\ status \in [store : Stores \cup {Nothing}, phase : Phases]
         /\ sched \in [Schedulers -> Records] /\ used \in Nat /\ used <= MaxOpens /\ MaxOpens \in Nat
         /\ cursor \subseteq Stores /\ write \in Writes
         /\ session \in BOOLEAN /\ net \in BOOLEAN /\ leaving \in BOOLEAN
         /\ faults \in 0 .. MaxFaults /\ loose \subseteq Schedulers /\ MaxRetries \in Nat /\ MaxFaults \in Nat
         /\ Nothing \notin Schedulers /\ Nothing \notin Stores
BY StoreSyncAssumption DEF IInv, TypeOK, Phases, Writes, Schedulers

\* The type invariant, from the types of its parts.
LEMMA TypesGive ==
  ASSUME selected \in Stores \cup {Nothing}, bound \in Stores \cup {Nothing},
         opening \in Schedulers \cup {Nothing}, current \in Schedulers \cup {Nothing},
         status \in [store : Stores \cup {Nothing}, phase : Phases],
         sched \in [Schedulers -> Records], used \in 0 .. MaxOpens, cursor \subseteq Stores, write \in Writes,
         session \in BOOLEAN, net \in BOOLEAN, leaving \in BOOLEAN,
         faults \in 0 .. MaxFaults, loose \subseteq Schedulers
  PROVE  TypeOK
<1>1. ASSUME NEW i \in Schedulers
      PROVE  /\ sched[i].store \in Stores \cup {Nothing} /\ sched[i].first \in Firsts /\ sched[i].job \in Jobs
             /\ sched[i].timer \in BOOLEAN /\ sched[i].retry \in BOOLEAN
             /\ sched[i].limits \in 0 .. MaxRetries + 1
  BY DEF Records
<1>2. {session, net, leaving} \subseteq BOOLEAN
  OBVIOUS
<1> QED BY <1>1, <1>2 DEF TypeOK, Phases, Writes, Firsts, Jobs

\* Before a store is entered the invariant holds.
LEMMA InitInv == Init => IInv
<1> SUFFICES ASSUME Init PROVE IInv
  OBVIOUS
<1> USE DEF Init
<1>1. Unused \in Records
  BY StoreSyncAssumption DEF Unused, Records, Firsts, Jobs
<1>2. sched \in [Schedulers -> Records] /\ \A i \in Schedulers : sched[i] = Unused
  BY <1>1
<1>3. status \in [store : Stores \cup {Nothing}, phase : Phases] /\ status.phase = "idle" /\ Held = {}
  BY DEF Idle, Phases, Held
<1>4. TypeOK
  <2>1. write \in Writes
    BY DEF Writes
  <2>2. used \in 0 .. MaxOpens /\ faults \in 0 .. MaxFaults /\ cursor \subseteq Stores /\ loose \subseteq Schedulers
    BY StoreSyncAssumption
  <2>3. session \in BOOLEAN /\ net \in BOOLEAN /\ leaving \in BOOLEAN
    OBVIOUS
  <2>4. /\ selected \in Stores \cup {Nothing} /\ bound \in Stores \cup {Nothing}
        /\ opening \in Schedulers \cup {Nothing} /\ current \in Schedulers \cup {Nothing}
    OBVIOUS
  <2> HIDE DEF Init
  <2> QED BY <1>2, <1>3, <2>1, <2>2, <2>3, <2>4, TypesGive
<1>5. \A i \in Schedulers : SchedulerOK(i)
  BY <1>2 DEF SchedulerOK, Unused, Busy, Schedulers
<1>6. BindingOK /\ LastChoiceWins /\ GateIsTrue
  BY <1>3 DEF BindingOK, LastChoiceWins, GateIsTrue
<1> QED BY <1>2, <1>4, <1>5, <1>6 DEF IInv

\* A scheduler that does anything has been made, and is held or was stopped at
\* work.
LEMMA Awake ==
  ASSUME IInv, NEW i \in Schedulers, Busy(i) \/ sched[i].timer \/ sched[i].retry
  PROVE  i <= used /\ i \in Held \cup loose
BY Types DEF IInv, SchedulerOK, Busy, Unused, Schedulers

\* Held schedulers have been made.
LEMMA HeldMade ==
  ASSUME IInv, NEW i \in Held
  PROVE  i \in Schedulers /\ i <= used /\ sched[i].store = bound
BY Types DEF IInv, BindingOK, LastChoiceWins, Held

\* Steps of the user, the session and the network that leave the schedulers
\* and the binding alone.
LEMMA QuietInv ==
  ASSUME IInv, UNCHANGED <<bound, opening, current, status, sched, used, loose>>,
         selected' \in Stores \cup {Nothing},
         selected' = selected \/ selected = bound \/ selected' = Nothing,
         cursor' \subseteq Stores, cursor' = cursor \/ selected' = Nothing, write' \in Writes,
         session' \in BOOLEAN, net' \in BOOLEAN, leaving' \in BOOLEAN, faults' \in 0 .. MaxFaults
  PROVE  IInv'
<1>1. TypeOK'
  BY Types DEF IInv, TypeOK, Writes
<1>2. (\A i \in Schedulers : SchedulerOK(i))'
  BY DEF IInv, SchedulerOK, Busy, Held, Rest, Unused
<1>3. BindingOK'
  BY DEF IInv, BindingOK, Rest
<1>4. LastChoiceWins' /\ GateIsTrue'
  BY DEF IInv, LastChoiceWins, GateIsTrue, Held, Rest
<1> QED BY <1>1, <1>2, <1>3, <1>4, Types DEF IInv, Records, Firsts, Jobs, Rest

\* What a step may make of the record of one scheduler.
Keeps(i, q) ==
  /\ q \in Records /\ q.store = sched[i].store
  /\ sched[i].first = Rest => q.first = Rest
  /\ opening = i /\ sched[i].first # Rest => q.first # Rest
  /\ q.first # Rest => q.job = Rest /\ ~q.timer /\ ~q.retry

\* Steps of one scheduler that do not end its first opening.
LEMMA LocalInv ==
  ASSUME IInv, NEW i \in Schedulers, NEW q, Keeps(i, q), sched' = [sched EXCEPT ![i] = q],
         i \in Held \cup loose, i <= used,
         UNCHANGED <<selected, bound, opening, current, status, used, loose>>,
         cursor' \subseteq Stores, cursor \subseteq cursor', write' \in Writes,
         session' \in BOOLEAN, net' \in BOOLEAN, leaving' \in BOOLEAN, faults' \in 0 .. MaxFaults
  PROVE  IInv'
<1>1. sched' \in [Schedulers -> Records] /\ sched'[i] = q /\ \A j \in Schedulers \ {i} : sched'[j] = sched[j]
  BY Types DEF Keeps
<1>2. TypeOK'
  <2>1. used \in 0 .. MaxOpens
    BY Types
  <2> QED BY <1>1, <2>1, Types, TypesGive DEF TypeOK, Firsts, Jobs, Records, Phases, Writes, Rest
<1>3. ASSUME NEW j \in Schedulers PROVE SchedulerOK(j)'
  <2>1. SchedulerOK(j) /\ Held' = Held
    BY DEF IInv, Held
  <2>2. CASE j = i
    <3>1. i <= used /\ sched[i].store \in Stores /\ i \in (Held \cup loose)'
      BY <2>1, <2>2, Types DEF SchedulerOK
    <3>2. ~(i > used)
      BY <3>1, Types DEF Schedulers
    <3>3. sched'[i].first # Rest => sched'[i].job = Rest /\ ~sched'[i].timer /\ ~sched'[i].retry
      BY <1>1 DEF Keeps
    <3>4. sched'[i].store \in Stores
      BY <1>1, <3>1 DEF Keeps
    <3> QED BY <2>2, <3>1, <3>2, <3>3, <3>4 DEF SchedulerOK, Rest
  <2>3. CASE j # i
    BY <1>1, <2>1, <2>3 DEF SchedulerOK, Busy, Rest, Unused
  <2> QED BY <2>2, <2>3
<1>4. \A j \in Schedulers : /\ sched'[j].store = sched[j].store
                            /\ sched[j].first = Rest => sched'[j].first = Rest
                            /\ opening = j /\ sched[j].first # Rest => sched'[j].first # Rest
  BY <1>1 DEF Keeps
<1>5. BindingOK'
  BY <1>4, Types DEF IInv, BindingOK, Rest
<1>6. LastChoiceWins'
  BY <1>4, Types DEF IInv, LastChoiceWins, Held
<1>7. GateIsTrue'
  BY <1>4, Types DEF IInv, GateIsTrue, Held, Rest
<1> QED BY <1>1, <1>2, <1>3, <1>5, <1>6, <1>7 DEF IInv, Records, Firsts, Jobs, Rest
-----------------------------------------------------------------------------
\* runExclusive gives a scheduler a job or leaves it alone.
LEMMA ExclusiveRecord ==
  ASSUME NEW all \in [Schedulers -> Records], NEW i \in Schedulers, NEW kind \in {"start", "cycle", "push"}
  PROVE  \E q \in Records :
            /\ Exclusive(all, i, kind) = [all EXCEPT ![i] = q]
            /\ q.store = all[i].store /\ q.first = all[i].first /\ q.timer = all[i].timer
            /\ q.retry = all[i].retry /\ q.limits = all[i].limits
<1>1. Does(kind) \in Jobs
  BY DEF Does, Jobs
<1>2. all[i] \in Records
  OBVIOUS
<1>3. CASE all[i].job = Rest
  <2>1. PICK q : q = [all[i] EXCEPT !.job = Does(kind)]
    OBVIOUS
  <2>2. Exclusive(all, i, kind) = [all EXCEPT ![i] = q]
    BY <1>3, <2>1 DEF Exclusive
  <2>3. q \in Records /\ q.store = all[i].store /\ q.first = all[i].first /\ q.timer = all[i].timer
        /\ q.retry = all[i].retry /\ q.limits = all[i].limits
    BY <1>1, <1>2, <2>1 DEF Records
  <2> QED BY <2>2, <2>3
<1>4. CASE all[i].job # Rest
  <2>1. Exclusive(all, i, kind) = [all EXCEPT ![i] = all[i]]
    BY <1>4 DEF Exclusive
  <2> QED BY <1>2, <2>1
<1> QED BY <1>3, <1>4

\* A cycle or a push asked of a scheduler that is past its first opening.
LEMMA Asked ==
  ASSUME IInv, NEW i \in Schedulers, sched[i].first = Rest, NEW kind \in {"start", "cycle", "push"}
  PROVE  \E q : Keeps(i, q) /\ Exclusive(sched, i, kind) = [sched EXCEPT ![i] = q]
<1>1. PICK q \in Records : /\ Exclusive(sched, i, kind) = [sched EXCEPT ![i] = q]
                           /\ q.store = sched[i].store /\ q.first = sched[i].first
  BY Types, ExclusiveRecord
<1>2. Keeps(i, q)
  BY <1>1 DEF Keeps
<1> QED BY <1>1, <1>2

\* The end of a job, whatever it was.
LEMMA JobEndsRecord ==
  ASSUME IInv, NEW i \in Schedulers, sched[i].job # Rest,
         NEW limits \in 0 .. MaxRetries + 1, NEW retry \in BOOLEAN, JobEnds(i, limits, retry)
  PROVE  \E q : Keeps(i, q) /\ sched' = [sched EXCEPT ![i] = q] /\ UNCHANGED binding
<1>1. sched[i].first = Rest /\ sched[i] \in Records
  BY Types DEF IInv, SchedulerOK
<1>2. PICK r : r = [[[sched[i] EXCEPT !.job = Rest] EXCEPT !.limits = limits] EXCEPT !.retry = retry]
  OBVIOUS
<1>3. r \in Records /\ r.store = sched[i].store /\ r.first = Rest
  <2>1. Rest \in Jobs
    BY DEF Jobs
  <2>2. PICK r1 : r1 = [sched[i] EXCEPT !.job = Rest]
    OBVIOUS
  <2>3. r1 \in Records /\ r1.store = sched[i].store /\ r1.first = Rest
    BY <1>1, <2>1, <2>2 DEF Records
  <2>4. PICK r2 : r2 = [r1 EXCEPT !.limits = limits]
    OBVIOUS
  <2>5. r2 \in Records /\ r2.store = sched[i].store /\ r2.first = Rest
    BY <2>3, <2>4 DEF Records
  <2>6. r = [r2 EXCEPT !.retry = retry]
    BY <1>2, <2>2, <2>4
  <2> QED BY <2>5, <2>6 DEF Records
<1>4. PICK rested : rested = [sched EXCEPT ![i].job = Rest, ![i].limits = limits, ![i].retry = retry]
  OBVIOUS
<1>5. rested = [sched EXCEPT ![i] = r] /\ rested \in [Schedulers -> Records] /\ rested[i] = r
  <2>1. rested = [sched EXCEPT ![i] = r]
    BY <1>2, <1>4, Types
  <2> QED BY <1>3, <2>1, Types
<1>6. UNCHANGED binding
  BY DEF JobEnds
<1>7. CASE sched[i].job.kind = "start"
  <2>1. sched' = [Exclusive(rested, i, "cycle") EXCEPT ![i].timer = TRUE]
    BY <1>4, <1>7 DEF JobEnds
  <2>2. PICK p \in Records : /\ Exclusive(rested, i, "cycle") = [rested EXCEPT ![i] = p]
                             /\ p.store = rested[i].store /\ p.first = rested[i].first
    BY <1>5, ExclusiveRecord
  <2>3. PICK q : q = [p EXCEPT !.timer = TRUE]
    OBVIOUS
  <2>4. sched' = [sched EXCEPT ![i] = q]
    <3>1. Exclusive(rested, i, "cycle") = [sched EXCEPT ![i] = p]
      BY <1>5, <2>2, Types
    <3> QED BY <2>1, <2>3, <3>1, Types
  <2>5. q \in Records /\ q.store = sched[i].store /\ q.first = Rest
    BY <1>3, <1>5, <2>2, <2>3 DEF Records
  <2>6. Keeps(i, q)
    BY <1>1, <2>5 DEF Keeps
  <2> QED BY <1>6, <2>4, <2>6
<1>8. CASE sched[i].job.kind # "start"
  <2>1. sched' = rested
    BY <1>4, <1>8 DEF JobEnds
  <2>2. Keeps(i, r)
    BY <1>1, <1>3 DEF Keeps
  <2> QED BY <1>5, <1>6, <2>1, <2>2
<1> QED BY <1>7, <1>8

\* A call goes on to its next point.
LEMMA GoesRecord ==
  ASSUME IInv, NEW i \in Schedulers, NEW f \in {"first", "job"}, NEW at, Goes(i, f, at),
         sched[i][f] # Rest,
         f = "first" => at = "dump", at \in {"dump", "push", "answer", "pull"}
  PROVE  \E q : Keeps(i, q) /\ sched' = [sched EXCEPT ![i] = q] /\ UNCHANGED binding
<1>1. sched[i] \in Records /\ SchedulerOK(i)
  BY Types DEF IInv
<1>2. CASE f = "first"
  <2>1. PICK q : q = [sched[i] EXCEPT !.first = [@ EXCEPT !.at = "dump"]]
    OBVIOUS
  <2>2. sched' = [sched EXCEPT ![i] = q] /\ UNCHANGED binding
    BY <1>2, <2>1, Types DEF Goes
  <2>3. sched[i].first \in [kind : {"first"}, at : {"reset", "dump"}]
    BY <1>1, <1>2 DEF Records, Firsts
  <2>4. q.first = [kind |-> "first", at |-> "dump"]
    BY <1>1, <2>1, <2>3 DEF Records
  <2>5. q.first # Rest /\ q.first \in Firsts
    BY <2>4 DEF Rest, Firsts
  <2>6. q \in Records /\ q.store = sched[i].store /\ q.job = sched[i].job /\ q.timer = sched[i].timer /\ q.retry = sched[i].retry
    BY <1>1, <2>1, <2>5 DEF Records
  <2>7. sched[i].first # Rest
    BY <1>2
  <2>8. Keeps(i, q)
    BY <1>1, <2>5, <2>6, <2>7 DEF Keeps, SchedulerOK
  <2> QED BY <2>2, <2>8
<1>3. CASE f = "job"
  <2>1. PICK q : q = [sched[i] EXCEPT !.job = [@ EXCEPT !.at = at]]
    OBVIOUS
  <2>2. sched' = [sched EXCEPT ![i] = q] /\ UNCHANGED binding
    BY <1>3, <2>1, Types DEF Goes
  <2>3. sched[i].job \in [kind : {"start", "cycle", "push"}, at : {"reset", "dump", "push", "answer", "pull"}]
    BY <1>1, <1>3 DEF Records, Jobs
  <2>4. [sched[i].job EXCEPT !.at = at] \in Jobs
    BY <2>3 DEF Jobs
  <2>5. q \in Records /\ q.store = sched[i].store /\ q.first = sched[i].first
    BY <1>1, <2>1, <2>4 DEF Records
  <2>6. sched[i].first = Rest
    BY <1>1, <1>3 DEF SchedulerOK
  <2>7. Keeps(i, q)
    BY <2>5, <2>6 DEF Keeps
  <2> QED BY <2>2, <2>7
<1> QED BY <1>2, <1>3
-----------------------------------------------------------------------------
\* A scheduler that is stopped has no timer left; what it awaits stays.
LEMMA StoppedRecords ==
  ASSUME NEW all \in [Schedulers -> Records], NEW these, these \subseteq Schedulers
  PROVE  /\ Stopped(all, these) \in [Schedulers -> Records]
         /\ \A i \in these : /\ Stopped(all, these)[i].store = all[i].store
                             /\ Stopped(all, these)[i].first = all[i].first
                             /\ Stopped(all, these)[i].job = all[i].job
                             /\ ~Stopped(all, these)[i].timer /\ ~Stopped(all, these)[i].retry
         /\ \A i \in Schedulers \ these : Stopped(all, these)[i] = all[i]
<1>1. ASSUME NEW i \in these
      PROVE  /\ Stopped(all, these)[i] \in Records /\ Stopped(all, these)[i].store = all[i].store
             /\ Stopped(all, these)[i].first = all[i].first /\ Stopped(all, these)[i].job = all[i].job
             /\ ~Stopped(all, these)[i].timer /\ ~Stopped(all, these)[i].retry
  <2>1. PICK r : r = Stopped(all, these)[i]
    OBVIOUS
  <2>2. r = [all[i] EXCEPT !.timer = FALSE, !.retry = FALSE, !.limits = 0]
    BY <1>1, <2>1 DEF Stopped
  <2>3. PICK r1 : r1 = [all[i] EXCEPT !.timer = FALSE]
    OBVIOUS
  <2>4. r1 \in Records /\ r1.store = all[i].store /\ r1.first = all[i].first /\ r1.job = all[i].job /\ ~r1.timer
    BY <2>3 DEF Records
  <2>5. PICK r2 : r2 = [r1 EXCEPT !.retry = FALSE]
    OBVIOUS
  <2>6. r2 \in Records /\ r2.store = all[i].store /\ r2.first = all[i].first /\ r2.job = all[i].job /\ ~r2.timer /\ ~r2.retry
    BY <2>4, <2>5 DEF Records
  <2>7. r = [r2 EXCEPT !.limits = 0]
    BY <2>2, <2>3, <2>5
  <2>8. 0 \in 0 .. MaxRetries + 1
    BY StoreSyncAssumption
  <2> QED BY <2>1, <2>6, <2>7, <2>8 DEF Records
<1>2. ASSUME NEW i \in Schedulers \ these PROVE Stopped(all, these)[i] = all[i]
  BY DEF Stopped
<1>3. Stopped(all, these) \in [Schedulers -> Records]
  <2>1. \A i \in Schedulers : Stopped(all, these)[i] \in Records
    BY <1>1, <1>2
  <2>2. Stopped(all, these) = [i \in Schedulers |-> Stopped(all, these)[i]]
    BY DEF Stopped
  <2> QED BY <2>1, <2>2
<1> QED BY <1>1, <1>2, <1>3

\* The first opening of a store ends, well or not, in time or too late.
LEMMA FirstEndsInv ==
  ASSUME IInv, NEW i \in Schedulers, sched[i].first # Rest, NEW ok \in BOOLEAN, FirstEnds(i, ok),
         UNCHANGED <<selected, bound, used, loose>>,
         cursor' \subseteq Stores, cursor \subseteq cursor', ok => sched[i].store \in cursor', write' \in Writes,
         session' \in BOOLEAN, net' \in BOOLEAN, leaving' \in BOOLEAN, faults' \in 0 .. MaxFaults
  PROVE  IInv'
<1>1. /\ sched[i] \in Records /\ sched[i].job = Rest /\ ~sched[i].timer /\ ~sched[i].retry
      /\ i <= used /\ i \in Held \cup loose /\ current # i
  BY Types, Awake DEF IInv, SchedulerOK, BindingOK, Busy
<1>2. PICK rested : rested = [sched EXCEPT ![i].first = Rest]
  OBVIOUS
<1>3. PICK r : r = [sched[i] EXCEPT !.first = Rest]
  OBVIOUS
<1>4. /\ r \in Records /\ r.store = sched[i].store /\ r.first = Rest /\ r.job = Rest /\ ~r.timer /\ ~r.retry
  <2>1. Rest \in Firsts
    BY DEF Firsts
  <2> QED BY <1>1, <1>3, <2>1 DEF Records
<1>5. rested = [sched EXCEPT ![i] = r] /\ rested \in [Schedulers -> Records] /\ rested[i] = r
  <2>1. rested = [sched EXCEPT ![i] = r]
    BY <1>2, <1>3, Types
  <2> QED BY <1>4, <2>1, Types
<1>6. PICK stopped : stopped = Stopped(rested, {i})
  OBVIOUS
<1>7. PICK q : q = stopped[i]
  OBVIOUS
<1>8. /\ stopped = [sched EXCEPT ![i] = q] /\ q \in Records /\ q.store = sched[i].store
      /\ q.first = Rest /\ q.job = Rest /\ ~q.timer /\ ~q.retry
  <2>1. /\ stopped \in [Schedulers -> Records] /\ q.store = r.store /\ q.first = r.first /\ q.job = r.job
        /\ ~q.timer /\ ~q.retry /\ \A j \in Schedulers \ {i} : stopped[j] = rested[j]
    <3> DEFINE T == {i}
    <3>1. T \subseteq Schedulers /\ i \in T
      OBVIOUS
    <3>2. stopped = Stopped(rested, T)
      BY <1>6
    <3>3. \A j \in Schedulers \ {i} : j \notin T
      OBVIOUS
    <3> HIDE DEF T
    <3>4. /\ Stopped(rested, T) \in [Schedulers -> Records]
          /\ \A j \in T : /\ Stopped(rested, T)[j].store = rested[j].store
                         /\ Stopped(rested, T)[j].first = rested[j].first
                         /\ Stopped(rested, T)[j].job = rested[j].job
                         /\ ~Stopped(rested, T)[j].timer /\ ~Stopped(rested, T)[j].retry
          /\ \A j \in Schedulers \ T : Stopped(rested, T)[j] = rested[j]
      <4>1. rested \in [Schedulers -> Records] /\ T \subseteq Schedulers
        BY <1>5, <3>1
      <4> QED BY <4>1, StoppedRecords
    <3> QED BY <1>5, <1>7, <3>1, <3>2, <3>3, <3>4
  <2>2. \A j \in Schedulers \ {i} : stopped[j] = sched[j]
    BY <1>5, <2>1, Types
  <2> QED BY <1>4, <1>7, <2>1, <2>2, Types
<1>9. CASE opening # i
  <2>1. sched' = stopped /\ UNCHANGED binding
    BY <1>2, <1>6, <1>9 DEF FirstEnds, IsStillOpening
  <2>2. Keeps(i, q)
    BY <1>8, <1>9 DEF Keeps
  <2> QED BY <1>1, <1>8, <2>1, <2>2, LocalInv DEF binding
<1>10. CASE opening = i
  <2>1. current = Nothing /\ status.phase = "opening" /\ sched[i].store = bound /\ status.store = bound /\ bound \in Stores
    <3>1. i \in Held /\ current = Nothing
      BY <1>10, Types DEF IInv, LastChoiceWins, Held
    <3>2. status.phase = "opening"
      BY <3>1 DEF IInv, GateIsTrue
    <3> QED BY <3>1, <3>2, Types DEF IInv, LastChoiceWins, BindingOK
  <2>2. PICK p : /\ sched' = [sched EXCEPT ![i] = p] /\ p \in Records /\ p.store = sched[i].store /\ p.first = Rest
                 /\ ~p.timer /\ ~p.retry /\ (~ok => p.job = Rest)
    <3>1. CASE ok
      <4>1. sched' = Exclusive(rested, i, "start")
        BY <1>2, <1>10, <3>1 DEF FirstEnds, IsStillOpening
      <4>2. PICK p \in Records : /\ Exclusive(rested, i, "start") = [rested EXCEPT ![i] = p]
                                 /\ p.store = rested[i].store /\ p.first = rested[i].first /\ p.timer = rested[i].timer
                                 /\ p.retry = rested[i].retry
        BY <1>5, ExclusiveRecord
      <4>3. sched' = [sched EXCEPT ![i] = p]
        BY <1>5, <4>1, <4>2, Types
      <4> QED BY <1>4, <1>5, <3>1, <4>2, <4>3
    <3>2. CASE ~ok
      <4>1. sched' = stopped
        BY <1>2, <1>6, <1>10, <3>2 DEF FirstEnds, IsStillOpening
      <4> QED BY <1>8, <4>1
    <3> QED BY <3>1, <3>2
  <2>3. /\ opening' = Nothing
        /\ IF ok THEN current' = i /\ status' = [status EXCEPT !.phase = "ready"]
           ELSE current' = Nothing /\ status' = [status EXCEPT !.phase = "error"]
    BY <1>10, <2>1 DEF FirstEnds, IsStillOpening
  <2>4. /\ status' \in [store : Stores \cup {Nothing}, phase : Phases] /\ status'.store = bound
        /\ status'.phase = IF ok THEN "ready" ELSE "error"
    BY <2>1, <2>3, Types DEF Phases
  <2>5. sched' \in [Schedulers -> Records] /\ sched'[i] = p /\ \A j \in Schedulers \ {i} : sched'[j] = sched[j]
    BY <2>2, Types
  <2>6. TypeOK'
    <3>1. used \in 0 .. MaxOpens
      BY Types
    <3>2. current' \in Schedulers \cup {Nothing}
      BY <2>3
    <3> QED BY <2>3, <2>4, <2>5, <3>1, <3>2, Types, TypesGive DEF TypeOK, Firsts, Jobs, Records, Phases, Writes, Rest
  <2>7. Held = {i} /\ Held' = IF ok THEN {i} ELSE {}
    BY <1>10, <2>1, <2>3, Types DEF Held
  <2>8. ASSUME NEW j \in Schedulers PROVE SchedulerOK(j)'
    <3>1. SchedulerOK(j)
      BY DEF IInv
    <3>2. CASE j = i
      <4>1. ~(i > used) /\ sched[i].store \in Stores
        BY <1>1, <2>1, Types DEF Schedulers
      <4>2. i \notin (Held \cup loose)' => ~ok
        BY <2>7
      <4> QED BY <2>2, <2>5, <3>2, <4>1, <4>2 DEF SchedulerOK, Busy, Rest
    <3>3. CASE j # i
      BY <2>5, <2>7, <3>1, <3>3 DEF SchedulerOK, Busy, Rest, Unused
    <3> QED BY <3>2, <3>3
  <2>9. BindingOK'
    <3>1. ok => status'.store \in cursor'
      BY <2>1, <2>4
    <3>2. ~ok => status'.phase # "ready"
      BY <2>4
    <3>3. current' # Nothing => current' = i
      BY <2>3
    <3> QED BY <1>1, <2>1, <2>2, <2>3, <2>4, <2>5, <3>1, <3>2, <3>3, Types DEF BindingOK, Rest
  <2>10. LastChoiceWins'
    BY <2>1, <2>2, <2>3, <2>5, <2>7 DEF LastChoiceWins
  <2>11. GateIsTrue'
    <3>1. CASE ok
      <4>1. status'.phase = "ready" /\ current' = i /\ sched'[i].store = bound
        BY <2>1, <2>2, <2>3, <2>4, <2>5, <3>1
      <4> QED BY <2>4, <4>1, Types DEF GateIsTrue
    <3>2. CASE ~ok
      <4>1. status'.phase = "error" /\ Held' = {}
        BY <2>4, <2>7, <3>2
      <4> QED BY <4>1 DEF GateIsTrue
    <3> QED BY <3>1, <3>2
  <2> QED BY <2>5, <2>6, <2>8, <2>9, <2>10, <2>11 DEF IInv, Records, Firsts, Jobs, Rest
<1> QED BY <1>9, <1>10

\* The binding is taken down and, for a store, set up again.
LEMMA RebindInv ==
  ASSUME IInv, NEW s \in Stores \cup {Nothing}, Rebind(s),
         UNCHANGED <<selected, cursor, write>>, bound' \in Stores \cup {Nothing}, s # Nothing => bound' = s,
         session' \in BOOLEAN, net' \in BOOLEAN, leaving' \in BOOLEAN, faults' \in 0 .. MaxFaults
  PROVE  IInv'
<1>1. current' = Nothing /\ loose' = loose \cup {i \in Held : Busy(i)}
  BY DEF Rebind
<1>2. Held \subseteq Schedulers
  BY Types DEF Held
<1>3. PICK stopped : stopped = Stopped(sched, Held)
  OBVIOUS
<1>4. /\ stopped \in [Schedulers -> Records] /\ \A i \in Schedulers \ Held : stopped[i] = sched[i]
      /\ \A i \in Held : /\ stopped[i].store = sched[i].store /\ stopped[i].first = sched[i].first
                         /\ stopped[i].job = sched[i].job /\ ~stopped[i].timer /\ ~stopped[i].retry
  BY <1>2, <1>3, Types, StoppedRecords
<1>5. ASSUME NEW i \in Schedulers, i <= used
      PROVE  /\ stopped[i].store \in Stores
             /\ stopped[i].first # Rest => stopped[i].job = Rest /\ ~stopped[i].timer /\ ~stopped[i].retry
             /\ i \notin loose' => /\ stopped[i].first = Rest /\ stopped[i].job = Rest
                                   /\ ~stopped[i].timer /\ ~stopped[i].retry
  <2>1. SchedulerOK(i)
    BY DEF IInv
  <2>2. CASE i \in Held
    BY <1>1, <1>4, <1>5, <2>1, <2>2 DEF SchedulerOK, Busy
  <2>3. CASE i \notin Held
    BY <1>1, <1>4, <1>5, <2>1, <2>3 DEF SchedulerOK, Busy
  <2> QED BY <2>2, <2>3
<1>6. \A i \in Schedulers : i > used => stopped[i] = Unused
  <2> TAKE i \in Schedulers
  <2>1. i \in Held => ~(i > used)
    BY HeldMade, Types DEF Schedulers
  <2> QED BY <1>4, <2>1 DEF IInv, SchedulerOK
<1>7. loose' \subseteq Schedulers
  BY <1>1, <1>2, Types
<1>8. CASE s = Nothing
  <2>1. opening' = Nothing /\ status' = Idle /\ sched' = stopped /\ used' = used
    BY <1>3, <1>8 DEF Rebind
  <2>2. Held' = {}
    BY <1>1, <2>1 DEF Held
  <2>3. status' \in [store : Stores \cup {Nothing}, phase : Phases] /\ status'.phase = "idle"
    BY <2>1 DEF Idle, Phases
  <2>4. TypeOK'
    <3>1. used' \in 0 .. MaxOpens
      BY <2>1, Types
    <3>2. opening' \in Schedulers \cup {Nothing} /\ current' \in Schedulers \cup {Nothing}
      BY <1>1, <2>1
    <3> QED BY <1>4, <1>7, <2>1, <2>3, <3>1, <3>2, Types, TypesGive DEF TypeOK, Firsts, Jobs, Records, Phases, Writes, Rest
  <2>5. ASSUME NEW i \in Schedulers PROVE SchedulerOK(i)'
    <3>1. i \in Nat
      BY DEF Schedulers
    <3>2. CASE i <= used
      BY <1>5, <2>1, <2>2, <3>1, <3>2, Types DEF SchedulerOK, Busy, Rest
    <3>3. CASE ~(i <= used)
      <4>1. sched'[i] = Unused
        BY <1>6, <2>1, <3>1, <3>3, Types
      <4> QED BY <2>1, <3>3, <4>1 DEF SchedulerOK, Unused, Busy, Rest
    <3> QED BY <3>2, <3>3
  <2>6. BindingOK' /\ LastChoiceWins' /\ GateIsTrue'
    BY <1>1, <2>1, <2>2, <2>3 DEF BindingOK, LastChoiceWins, GateIsTrue
  <2> QED BY <1>4, <2>1, <2>4, <2>5, <2>6 DEF IInv, Records, Firsts, Jobs, Rest
<1>9. CASE s # Nothing
  <2>1. PICK n : n = used + 1
    OBVIOUS
  <2>2. /\ used < MaxOpens /\ used' = n /\ opening' = n /\ status' = [store |-> s, phase |-> "opening"]
        /\ sched' = [stopped EXCEPT ![n].store = s, ![n].first = Does("first")]
    BY <1>3, <1>9, <2>1 DEF Rebind
  <2>3. n \in Schedulers /\ n > used /\ n \in Nat /\ n # Nothing
    BY <2>1, <2>2, Types DEF Schedulers
  <2>4. PICK r : r = [[Unused EXCEPT !.store = s] EXCEPT !.first = Does("first")]
    OBVIOUS
  <2>5. /\ r \in Records /\ r.store = s /\ r.first # Rest /\ r.job = Rest /\ ~r.timer /\ ~r.retry
    <3>1. Does("first") \in Firsts /\ Does("first") # Rest
      BY DEF Does, Firsts, Rest
    <3>2. Unused \in Records /\ Unused.job = Rest /\ ~Unused.timer /\ ~Unused.retry
      BY StoreSyncAssumption DEF Unused, Records, Firsts, Jobs
    <3>3. PICK u : u = [Unused EXCEPT !.store = s]
      OBVIOUS
    <3>4. u \in Records /\ u.store = s /\ u.job = Rest /\ ~u.timer /\ ~u.retry
      BY <3>2, <3>3 DEF Records
    <3>5. r = [u EXCEPT !.first = Does("first")]
      BY <2>4, <3>3
    <3> QED BY <3>1, <3>4, <3>5 DEF Records
  <2>6. sched' = [stopped EXCEPT ![n] = r]
    <3>1. stopped[n] = Unused
      BY <1>6, <2>3
    <3> QED BY <1>4, <2>2, <2>3, <2>4, <3>1
  <2>7. sched' \in [Schedulers -> Records] /\ sched'[n] = r /\ \A i \in Schedulers \ {n} : sched'[i] = stopped[i]
    BY <1>4, <2>3, <2>5, <2>6
  <2>8. Held' = {n} /\ bound' = s
    BY <1>1, <1>9, <2>2, <2>3 DEF Held
  <2>9. status' \in [store : Stores \cup {Nothing}, phase : Phases] /\ status'.phase = "opening" /\ status'.store = s
    BY <2>2 DEF Phases
  <2>10. TypeOK'
    <3>1. used' \in 0 .. MaxOpens
      BY <2>1, <2>2, Types
    <3>2. opening' \in Schedulers \cup {Nothing} /\ current' \in Schedulers \cup {Nothing}
      BY <1>1, <2>2, <2>3
    <3> QED BY <1>7, <2>7, <2>9, <3>1, <3>2, Types, TypesGive DEF TypeOK, Firsts, Jobs, Records, Phases, Writes, Rest
  <2>11. ASSUME NEW i \in Schedulers PROVE SchedulerOK(i)'
    <3>1. i \in Nat
      BY DEF Schedulers
    <3>2. CASE i = n
      <4>1. ~(n > used') /\ n \in (Held \cup loose)' /\ s \in Stores
        BY <1>9, <2>2, <2>3, <2>8
      <4> QED BY <2>5, <2>7, <3>2, <4>1 DEF SchedulerOK, Rest
    <3>3. CASE i # n /\ i <= used
      <4>1. sched'[i] = stopped[i] /\ ~(i > used') /\ i \notin Held'
        BY <2>1, <2>2, <2>7, <2>8, <3>1, <3>3, Types
      <4> QED BY <1>5, <3>3, <4>1 DEF SchedulerOK, Busy, Rest
    <3>4. CASE i # n /\ ~(i <= used)
      <4>1. sched'[i] = Unused /\ ~(i <= used')
        BY <1>6, <2>1, <2>2, <2>7, <3>1, <3>4, Types
      <4> QED BY <4>1 DEF SchedulerOK, Unused, Busy, Rest
    <3> QED BY <3>2, <3>3, <3>4
  <2>12. BindingOK'
    BY <1>1, <1>9, <2>2, <2>8, <2>9, <2>3 DEF BindingOK
  <2>13. LastChoiceWins'
    BY <1>1, <2>5, <2>7, <2>8 DEF LastChoiceWins
  <2>14. GateIsTrue'
    BY <2>2, <2>3, <2>5, <2>7, <2>9 DEF GateIsTrue, Rest
  <2> QED BY <2>7, <2>10, <2>11, <2>12, <2>13, <2>14 DEF IInv, Records, Firsts, Jobs, Rest
<1> QED BY <1>8, <1>9
-----------------------------------------------------------------------------
\* The user, the session and the network.
LEMMA UserInv ==
  ASSUME IInv, (\E s \in Stores \cup {Nothing} : Select(s)) \/ LogoutWipes \/ Login \/ NetLost
  PROVE  IInv'
<1>1. ASSUME NEW s \in Stores \cup {Nothing}, Select(s) PROVE IInv'
  BY <1>1, Types, QuietInv DEF Select, binding, store, world
<1>2. CASE LogoutWipes
  <2>1. cursor' \subseteq Stores /\ write' \in Writes /\ leaving' \in BOOLEAN /\ session' \in BOOLEAN
    BY <1>2 DEF LogoutWipes, Writes
  <2>2. UNCHANGED <<bound, opening, current, status, sched, used, net, faults, loose>> /\ selected' = Nothing
    BY <1>2 DEF LogoutWipes, binding
  <2> QED BY <2>1, <2>2, Types, QuietInv
<1>3. CASE Login
  <2>1. session' \in BOOLEAN
    BY <1>3 DEF Login
  <2>2. UNCHANGED <<selected, bound, opening, current, status, sched, used, cursor, write, net, leaving, faults, loose>>
    BY <1>3 DEF Login, ui, binding, store
  <2> QED BY <2>1, <2>2, Types, QuietInv
<1>4. CASE NetLost
  <2>1. net' \in BOOLEAN
    BY <1>4 DEF NetLost
  <2>2. faults' \in 0 .. MaxFaults
    BY <1>4, Types DEF NetLost
  <2>3. UNCHANGED <<selected, bound, opening, current, status, sched, used, cursor, write, session, leaving, loose>>
    BY <1>4 DEF NetLost, ui, binding, store
  <2> QED BY <2>1, <2>2, <2>3, Types, QuietInv
<1> QED BY <1>1, <1>2, <1>3, <1>4

\* The effect, the Retry button and a logout bind the store anew, or none.
LEMMA BindInv == ASSUME IInv, Bind \/ Retry \/ LogoutStops PROVE IInv'
<1>1. CASE Bind
  BY <1>1, Types, RebindInv DEF Bind, store, world
<1>2. CASE Retry
  <2>1. Rebind(selected) /\ UNCHANGED <<selected, bound, cursor, write, session, net, leaving, faults>>
    BY <1>2 DEF Retry, Starts, ui, store, world
  <2>2. selected = bound
    BY <1>2 DEF Retry, IInv, BindingOK
  <2> QED BY <2>1, <2>2, Types, RebindInv
<1>3. CASE LogoutStops
  <2>1. Rebind(Nothing) /\ UNCHANGED <<selected, bound, cursor, write, session, net>> /\ faults' = faults + 1 /\ faults < MaxFaults
    BY <1>3 DEF LogoutStops, ui, store
  <2>2. leaving' \in BOOLEAN
    BY <1>3 DEF LogoutStops
  <2>3. faults' \in 0 .. MaxFaults
    BY <2>1, Types
  <2> QED BY <2>1, <2>2, <2>3, Types, RebindInv
<1> QED BY <1>1, <1>2, <1>3

\* The open store is asked for a cycle or a push.
LEMMA AskInv ==
  ASSUME IInv, NEW kind \in {"cycle", "push"}, current # Nothing, sched' = Exclusive(sched, current, kind),
         UNCHANGED <<selected, bound, opening, current, status, used, loose>>, cursor' = cursor, write' \in Writes,
         session' \in BOOLEAN, net' \in BOOLEAN, leaving' \in BOOLEAN, faults' \in 0 .. MaxFaults
  PROVE  IInv'
<1>1. PICK i : i = current
  OBVIOUS
<1>2. i \in Schedulers /\ i \in Held /\ i <= used /\ sched[i].first = Rest
  BY <1>1, Types DEF IInv, BindingOK, Held
<1>3. PICK q : Keeps(i, q) /\ Exclusive(sched, i, kind) = [sched EXCEPT ![i] = q]
  BY <1>2, Asked
<1> QED BY <1>1, <1>2, <1>3, Types, LocalInv

\* A reconnect or the foreground.
LEMMA WakeInv ==
  ASSUME IInv, Wake, UNCHANGED <<selected, bound, cursor, write>>,
         session' \in BOOLEAN, net' \in BOOLEAN, leaving' \in BOOLEAN, faults' \in 0 .. MaxFaults
  PROVE  IInv'
<1>1. CASE current = Nothing /\ opening = Nothing /\ status.phase = "error" /\ used < MaxOpens
  <2>1. Rebind(status.store) /\ status.store = bound
    BY <1>1 DEF Wake, IInv, BindingOK
  <2> QED BY <2>1, Types, RebindInv
<1>2. CASE ~(current = Nothing /\ opening = Nothing /\ status.phase = "error" /\ used < MaxOpens)
  <2>1. /\ sched' = IF current = Nothing THEN sched ELSE Exclusive(sched, current, "cycle")
        /\ UNCHANGED <<opening, current, status, used, loose>>
    BY <1>2 DEF Wake, binding
  <2>2. CASE current = Nothing
    BY <2>1, <2>2, Types, QuietInv
  <2>3. CASE current # Nothing
    BY <2>1, <2>3, Types, AskInv
  <2> QED BY <2>2, <2>3
<1> QED BY <1>1, <1>2

\* The network is back, the app comes forward or goes away, a screen writes.
LEMMA AppInv == ASSUME IInv, NetBack \/ Foreground \/ Background \/ Enqueue PROVE IInv'
<1>1. CASE NetBack
  <2>1. Wake /\ UNCHANGED <<selected, bound, cursor, write, session, leaving, faults>>
    BY <1>1 DEF NetBack, ui, store
  <2>2. net' \in BOOLEAN
    BY <1>1 DEF NetBack
  <2> QED BY <2>1, <2>2, Types, WakeInv
<1>2. CASE Foreground
  BY <1>2, Types, WakeInv DEF Foreground, ui, store, world
<1>3. CASE Background
  BY <1>3, Types, AskInv DEF Background, ui, binding, store, world
<1>4. CASE Enqueue
  <2>1. /\ write' = [write EXCEPT ![selected] = "queued"]
        /\ sched' = IF current = Nothing THEN sched ELSE Exclusive(sched, current, "cycle")
        /\ UNCHANGED <<selected, bound, opening, current, status, used, cursor, session, net, leaving, faults, loose>>
    BY <1>4 DEF Enqueue, ui, binding, world
  <2>2. write' \in Writes
    BY <2>1, Types DEF Writes
  <2>3. CASE current = Nothing
    BY <2>1, <2>2, <2>3, Types, QuietInv
  <2>4. CASE current # Nothing
    BY <2>1, <2>2, <2>4, Types, AskInv
  <2> QED BY <2>3, <2>4
<1> QED BY <1>1, <1>2, <1>3, <1>4

\* A timer fires on a scheduler that has one.
LEMMA TimersInv == ASSUME IInv, NEW i \in Schedulers, TimerFires(i) \/ RetryFires(i) PROVE IInv'
<1>1. i <= used /\ i \in Held \cup loose /\ sched[i].first = Rest
  BY Awake DEF TimerFires, RetryFires, IInv, SchedulerOK
<1>2. UNCHANGED <<selected, bound, opening, current, status, used, loose, cursor, write, session, net, leaving, faults>>
  BY DEF TimerFires, RetryFires, ui, binding, store, world
<1>3. CASE TimerFires(i)
  <2>1. PICK q : Keeps(i, q) /\ sched' = [sched EXCEPT ![i] = q]
    BY <1>1, <1>3, Asked DEF TimerFires
  <2> QED BY <1>1, <1>2, <2>1, Types, LocalInv
<1>4. CASE RetryFires(i)
  <2>1. PICK r : r = [sched[i] EXCEPT !.retry = FALSE]
    OBVIOUS
  <2>2. r \in Records /\ r.store = sched[i].store /\ r.first = Rest
    <3>1. sched[i] \in Records
      BY Types
    <3> QED BY <1>1, <2>1, <3>1 DEF Records
  <2>3. PICK all : all = [sched EXCEPT ![i] = r]
    OBVIOUS
  <2>4. all \in [Schedulers -> Records] /\ all[i] = r
    BY <2>2, <2>3, Types
  <2>5. sched' = Exclusive(all, i, "cycle")
    BY <1>4, <2>1, <2>3, Types DEF RetryFires
  <2>6. PICK q \in Records : Exclusive(all, i, "cycle") = [all EXCEPT ![i] = q] /\ q.store = all[i].store /\ q.first = all[i].first
    BY <2>4, ExclusiveRecord
  <2>7. sched' = [sched EXCEPT ![i] = q]
    BY <2>3, <2>5, <2>6, Types
  <2>8. Keeps(i, q)
    BY <1>1, <2>2, <2>4, <2>6 DEF Keeps
  <2> QED BY <1>1, <1>2, <2>7, <2>8, Types, LocalInv
<1> QED BY <1>3, <1>4

\* What a call of the engine may change besides its scheduler.
Elsewhere ==
  /\ UNCHANGED <<selected, bound, used, loose>>
  /\ cursor' \subseteq Stores /\ cursor \subseteq cursor' /\ write' \in Writes
  /\ session' \in BOOLEAN /\ net' \in BOOLEAN /\ leaving' \in BOOLEAN /\ faults' \in 0 .. MaxFaults

\* A call at some point is under way, for a store.
LEMMA Calls ==
  ASSUME IInv, NEW i \in Schedulers, NEW f \in {"first", "job"}, sched[i][f].at # "done"
  PROVE  sched[i][f] # Rest /\ i <= used /\ i \in Held \cup loose /\ sched[i].store \in Stores
<1>1. sched[i][f] # Rest
  BY DEF Rest
<1>2. Busy(i)
  BY <1>1 DEF Busy
<1> QED BY <1>1, <1>2, Awake DEF IInv, SchedulerOK

\* A call goes on.
LEMMA GoesInv ==
  ASSUME IInv, NEW i \in Schedulers, NEW f \in {"first", "job"}, sched[i][f].at # "done",
         NEW at \in {"dump", "push", "answer", "pull"}, f = "first" => at = "dump",
         Goes(i, f, at), Elsewhere
  PROVE  IInv'
<1>1. PICK q : Keeps(i, q) /\ sched' = [sched EXCEPT ![i] = q] /\ UNCHANGED binding
  BY Calls, GoesRecord
<1> QED BY <1>1, Calls, LocalInv DEF binding, Elsewhere

\* A job ends.
LEMMA JobEndsInv ==
  ASSUME IInv, NEW i \in Schedulers, sched[i].job.at # "done",
         NEW limits \in 0 .. MaxRetries + 1, NEW retry \in BOOLEAN, JobEnds(i, limits, retry), Elsewhere
  PROVE  IInv'
<1>1. sched[i].job # Rest /\ i <= used /\ i \in Held \cup loose
  BY Calls
<1>2. PICK q : Keeps(i, q) /\ sched' = [sched EXCEPT ![i] = q] /\ UNCHANGED binding
  BY <1>1, JobEndsRecord
<1> QED BY <1>1, <1>2, LocalInv DEF binding, Elsewhere

\* A call ends well.
LEMMA EndsInv ==
  ASSUME IInv, NEW i \in Schedulers, NEW f \in {"first", "job"}, sched[i][f].at # "done",
         Ends(i, f), Elsewhere, sched[i].store \in cursor'
  PROVE  IInv'
<1>1. CASE f = "first"
  <2>1. FirstEnds(i, TRUE) /\ sched[i].first # Rest
    BY <1>1, Calls DEF Ends
  <2> QED BY <2>1, FirstEndsInv DEF Elsewhere
<1>2. CASE f = "job"
  <2>1. JobEnds(i, 0, sched[i].retry) /\ sched[i].job.at # "done"
    BY <1>2 DEF Ends
  <2>2. sched[i].retry \in BOOLEAN /\ 0 \in 0 .. MaxRetries + 1
    BY Types DEF Records
  <2> QED BY <2>1, <2>2, JobEndsInv
<1> QED BY <1>1, <1>2

\* Every step of a call, of the first opening or of a job.
LEMMA CallStepInv ==
  ASSUME IInv, NEW i \in Schedulers, NEW f \in {"first", "job"}, CallStep(i, f)
  PROVE  IInv'
<1>1. CASE OpenResets(i, f)
  <2>1. sched[i][f].at # "done" /\ Goes(i, f, "dump")
    BY <1>1 DEF OpenResets, At
  <2>2. write' = [write EXCEPT ![sched[i].store] = IF @ = "sent" THEN "queued" ELSE @]
    BY <1>1 DEF OpenResets
  <2>3. write' \in Writes
    BY <2>1, <2>2, Calls, Types DEF Writes
  <2>4. Elsewhere
    BY <1>1, <2>3, Types DEF OpenResets, ui, world, Elsewhere
  <2> QED BY <2>1, <2>4, GoesInv
<1>2. CASE OpenDumps(i, f)
  <2>1. sched[i][f].at # "done" /\ cursor' = cursor \cup {sched[i].store}
    BY <1>2 DEF OpenDumps, At
  <2>2. cursor' \subseteq Stores
    BY <2>1, Calls, Types
  <2>3. Elsewhere
    BY <1>2, <2>1, <2>2, Types DEF OpenDumps, ui, world, Elsewhere
  <2>4. CASE sched[i][f].kind = "cycle"
    <3>1. Goes(i, f, "push")
      BY <1>2, <2>4 DEF OpenDumps
    <3>2. f # "first"
      <4>1. ASSUME f = "first" PROVE FALSE
        <5>1. sched[i].first \in Firsts /\ sched[i].first.kind = "cycle"
          BY <2>4, <4>1, Types DEF Records
        <5> QED BY <5>1 DEF Firsts, Rest
      <4> QED BY <4>1
    <3> QED BY <2>1, <2>3, <3>1, <3>2, GoesInv
  <2>5. CASE sched[i][f].kind # "cycle"
    <3>1. Ends(i, f) /\ sched[i].store \in cursor'
      BY <1>2, <2>1, <2>5 DEF OpenDumps
    <3> QED BY <2>1, <2>3, <3>1, EndsInv
  <2> QED BY <2>4, <2>5
<1>3. CASE Fails(i, f)
  <2>1. sched[i][f].at # "done"
    BY <1>3 DEF Fails, Calling, At
  <2>2. write' \in Writes
    <3>1. write' = write \/ write' = [write EXCEPT ![sched[i].store] = "queued"]
      BY <1>3 DEF Fails
    <3> QED BY <3>1, <2>1, Calls, Types DEF Writes
  <2>3. faults' \in 0 .. MaxFaults
    BY <1>3, Types DEF Fails
  <2>4. Elsewhere
    BY <1>3, <2>2, <2>3, Types DEF Fails, ui, Elsewhere
  <2>5. CASE f = "first"
    <3>1. FirstEnds(i, FALSE) /\ sched[i].first # Rest
      BY <1>3, <2>1, <2>5, Calls DEF Fails
    <3> QED BY <2>4, <3>1, FirstEndsInv DEF Elsewhere
  <2>6. CASE f = "job"
    <3>1. JobEnds(i, 0, sched[i].retry) /\ sched[i].job.at # "done"
      BY <1>3, <2>1, <2>6 DEF Fails
    <3>2. sched[i].retry \in BOOLEAN /\ 0 \in 0 .. MaxRetries + 1
      BY Types DEF Records
    <3> QED BY <2>4, <3>1, <3>2, JobEndsInv
  <2> QED BY <2>5, <2>6
<1> QED BY <1>1, <1>2, <1>3 DEF CallStep

\* The steps of jobs only.
LEMMA JobStepInv == ASSUME IInv, NEW i \in Schedulers, JobStep(i) PROVE IInv'
<1>1. CASE CallStep(i, "job")
  BY <1>1, CallStepInv
<1>2. CASE PushTakes(i)
  <2>1. /\ sched[i]["job"].at # "done" /\ Goes(i, "job", "answer")
        /\ write' = [write EXCEPT ![sched[i].store] = "sent"]
    BY <1>2 DEF PushTakes, At
  <2>2. write' \in Writes
    BY <2>1, Calls, Types DEF Writes
  <2>3. Elsewhere
    BY <1>2, <2>2, Types DEF PushTakes, ui, world, Elsewhere
  <2> QED BY <2>1, <2>3, GoesInv
<1>3. CASE PushEnds(i)
  <2>1. sched[i]["job"].at # "done"
    BY <1>3 DEF PushEnds, At
  <2>2. Elsewhere
    BY <1>3, Types DEF PushEnds, ui, store, world, Elsewhere
  <2>3. CASE sched[i].job.kind = "cycle"
    <3>1. Goes(i, "job", "pull")
      BY <1>3, <2>3 DEF PushEnds
    <3> QED BY <2>1, <2>2, <3>1, GoesInv
  <2>4. CASE sched[i].job.kind # "cycle"
    <3>1. JobEnds(i, 0, sched[i].retry)
      BY <1>3, <2>4 DEF PushEnds, Ends
    <3>2. sched[i].retry \in BOOLEAN /\ 0 \in 0 .. MaxRetries + 1
      BY Types DEF Records
    <3> QED BY <2>1, <2>2, <3>1, <3>2, JobEndsInv
  <2> QED BY <2>3, <2>4
<1>4. CASE PushAnswered(i)
  <2>1. /\ sched[i]["job"].at # "done" /\ Goes(i, "job", "push")
        /\ write' = [write EXCEPT ![sched[i].store] = "none"]
    BY <1>4 DEF PushAnswered, At
  <2>2. write' \in Writes
    BY <2>1, Calls, Types DEF Writes
  <2>3. Elsewhere
    BY <1>4, <2>2, Types DEF PushAnswered, ui, world, Elsewhere
  <2> QED BY <2>1, <2>3, GoesInv
<1>5. CASE Pulls(i)
  <2>1. sched[i]["job"].at # "done" /\ Ends(i, "job") /\ sched[i].store \in cursor'
    BY <1>5 DEF Pulls, At, store
  <2>2. Elsewhere
    BY <1>5, Types DEF Pulls, ui, store, world, Elsewhere
  <2> QED BY <2>1, <2>2, EndsInv
<1>6. CASE RateLimited(i)
  <2>1. sched[i]["job"].at # "done"
    BY <1>6 DEF RateLimited, Calling, At
  <2>2. write' \in Writes
    <3>1. write' = write \/ write' = [write EXCEPT ![sched[i].store] = "queued"]
      BY <1>6 DEF RateLimited
    <3> QED BY <3>1, <2>1, Calls, Types DEF Writes
  <2>3. faults' \in 0 .. MaxFaults
    BY <1>6, Types DEF RateLimited
  <2>4. Elsewhere
    BY <1>6, <2>2, <2>3, Types DEF RateLimited, ui, Elsewhere
  <2>5. PICK limits : limits = IF sched[i].limits > MaxRetries THEN sched[i].limits ELSE sched[i].limits + 1
    OBVIOUS
  <2>6. limits \in 0 .. MaxRetries + 1
    <3>1. sched[i].limits \in 0 .. MaxRetries + 1
      BY Types DEF Records
    <3> QED BY <2>5, <3>1, Types
  <2>7. PICK retry \in BOOLEAN : retry = (sched[i].retry \/ sched[i].limits < MaxRetries)
    OBVIOUS
  <2>8. JobEnds(i, limits, retry)
    BY <1>6, <2>5, <2>7 DEF RateLimited
  <2> QED BY <2>1, <2>4, <2>6, <2>8, JobEndsInv
<1> QED BY <1>1, <1>2, <1>3, <1>4, <1>5, <1>6 DEF JobStep
-----------------------------------------------------------------------------
\* Every step keeps the invariant.
LEMMA NextInv == IInv /\ [Next]_vars => IInv'
<1> SUFFICES ASSUME IInv, [Next]_vars PROVE IInv'
  OBVIOUS
<1>1. CASE \E s \in Stores \cup {Nothing} : Select(s)
  BY <1>1, UserInv
<1>2. CASE Bind \/ Retry \/ LogoutStops
  BY <1>2, BindInv
<1>3. CASE LogoutWipes \/ Login \/ NetLost
  BY <1>3, UserInv
<1>4. CASE NetBack \/ Foreground \/ Background \/ Enqueue
  BY <1>4, AppInv
<1>5. ASSUME NEW i \in Schedulers, CallStep(i, "first") \/ JobStep(i) \/ TimerFires(i) \/ RetryFires(i)
      PROVE  IInv'
  BY <1>5, CallStepInv, JobStepInv, TimersInv
<1>6. CASE UNCHANGED vars
  <2>1. UNCHANGED <<selected, bound, opening, current, status, sched, used, cursor, write, session, net, leaving, faults, loose>>
    BY <1>6 DEF vars, ui, binding, store, world
  <2> QED BY <2>1, Types, QuietInv
<1> QED BY <1>1, <1>2, <1>3, <1>4, <1>5, <1>6 DEF Next

\* The invariant holds in every reachable state.
THEOREM Invariant == Spec => []IInv
BY InitInv, NextInv, PTL DEF Spec

\* The last choice of the user wins over every open that ends late; the gate
\* shows what the schedulers do; a mounted screen has rows to query; and a
\* scheduler makes one call at a time, none once it was stopped at rest.
THEOREM SyncsWhatIsShown == Spec => []Inv
<1>1. ASSUME IInv PROVE Inv
  <2>1. MountedHasRows
    BY <1>1, Types DEF IInv, BindingOK, MountedHasRows, Mounted
  <2>2. OneCallEach
    BY <1>1 DEF IInv, SchedulerOK, OneCallEach
  <2> QED BY <1>1, <2>1, <2>2 DEF IInv, Inv
<1> QED BY Invariant, <1>1, PTL
=============================================================================
