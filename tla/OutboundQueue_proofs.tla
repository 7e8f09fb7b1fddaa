------------------------ MODULE OutboundQueue_proofs ------------------------
(***************************************************************************)
(* Proofs about OutboundQueue, for any number of mutations, drains, calls  *)
(* and faults: what the phone calls settled the server has decided; and    *)
(* as long as one scheduler's cycle runs alone, a write stays on the       *)
(* screen and a result is never taken back.                                *)
(***************************************************************************)
EXTENDS OutboundQueue, TLAPS

\* The answers to a part of a batch.
Answered(S) == UNION {[T -> Answers] : T \in SUBSET S}

DrainRecords ==
  [pc : Steps, pulls : BOOLEAN, batch : SUBSET Mutations, expired : SUBSET Mutations,
   answers : Answered(Mutations), sent : Page, page : Page, drained : Nat]
CallRecords ==
  [open : BOOLEAN, owner : Drains \cup {Nobody}, batch : SUBSET Mutations,
   answers : Answered(Mutations), sent : Page]
Rows == [status : Statuses, attempts : 0 .. MaxAttempts]

\* An answer that settles a mutation speaks of one the server has decided.
Truth(answers) ==
  \A m \in DOMAIN answers : answers[m] \in {"applied", "duplicate"} => verdict[m] # "none"

\* A call answers its own batch, truly; while its drain listens, that is the
\* batch the drain holds, and the drain waits for nothing else.
CallOK(c) ==
  /\ Truth(net[c].answers)
  /\ net[c].owner \in Drains =>
       /\ net[c].open /\ DOMAIN net[c].answers \subseteq net[c].batch
       /\ drain[net[c].owner].pc = "wait" /\ drain[net[c].owner].batch = net[c].batch
       /\ \A b \in Calls : net[b].owner = net[c].owner => b = c

\* What the drain has been answered is true and about its batch.
DrainOK(d) ==
  drain[d].pc = "answered" =>
    Truth(drain[d].answers) /\ DOMAIN drain[d].answers \subseteq drain[d].batch

\* The scheduler's `running' guard: one cycle at a time.
OneCycle == \A c, d \in Cycles : c = d

\* Between taking a batch and settling it, a lone cycle finds its rows as it
\* left them.
BatchOK(d) ==
  /\ drain[d].pc = "mark" =>
       /\ drain[d].batch \cap drain[d].expired = {}
       /\ \A m \in drain[d].batch \cup drain[d].expired : queue[m].status = "pending"
  /\ drain[d].pc \in {"send", "wait", "answered", "failed", "poisoned"} =>
       \A m \in drain[d].batch : queue[m].status = "inflight"

\* Before the first logout: the flushes rest and nothing is wiped.
Calm ==
  alone =>
    /\ session = "in" /\ \A d \in Flushes : drain[d].pc = "idle"
    /\ \A d \in Cycles : BatchOK(d)
    /\ \A m \in Mutations : queue[m].status # "gone"
    /\ WritesStayVisible

IInv ==
  /\ TypeOK /\ queue \in [Mutations -> Rows]
  /\ drain \in [Drains -> DrainRecords] /\ net \in [Calls -> CallRecords]
  /\ (\A c \in Calls : CallOK(c)) /\ (\A d \in Drains : DrainOK(d))
  /\ SettledIsDecided
  /\ OneCycle => Calm
-----------------------------------------------------------------------------
Rowful == [Mutations -> SUBSET {"temp", "server"}]
Sessions == {"in", "flushing", "out"}

\* The types the invariant gives.
LEMMA Types ==
  ASSUME IInv
  PROVE  /\ verdict \in [Mutations -> Ledger!Verdicts] /\ effects \in [Mutations -> Nat]
         /\ queue \in [Mutations -> Rows] /\ old \subseteq Mutations /\ local \in Rowful
         /\ cursor \in Page /\ session \in Sessions /\ alone \in BOOLEAN
         /\ faults \in 0 .. MaxFaults /\ MaxFaults \in Nat /\ MaxAttempts \in Nat \ {0}
         /\ drain \in [Drains -> DrainRecords] /\ net \in [Calls -> CallRecords]
         /\ Nobody \notin Drains /\ Cycles \cap Flushes = {} /\ Cycles \subseteq Drains
BY QueueAssumption DEF IInv, TypeOK, Rowful, Sessions, Drains

\* What the type invariant says of a drain and of a call.
LEMMA Parts ==
  /\ \A q \in DrainRecords :
        /\ q.pc \in Steps /\ q.pulls \in BOOLEAN /\ q.batch \subseteq Mutations
        /\ q.sent \in Page /\ q.page \in Page
  /\ \A k \in CallRecords :
        k.owner \in Drains \cup {Nobody} /\ Range(k.answers) \subseteq Answers
<1>1. ASSUME NEW q \in DrainRecords
      PROVE  /\ q.pc \in Steps /\ q.pulls \in BOOLEAN /\ q.batch \subseteq Mutations
             /\ q.sent \in Page /\ q.page \in Page
  BY DEF DrainRecords
<1>2. ASSUME NEW k \in CallRecords
      PROVE  k.owner \in Drains \cup {Nobody} /\ Range(k.answers) \subseteq Answers
  <2>1. k.answers \in Answered(Mutations) /\ k.owner \in Drains \cup {Nobody}
    BY DEF CallRecords
  <2>2. PICK T \in SUBSET Mutations : k.answers \in [T -> Answers]
    BY <2>1 DEF Answered
  <2> QED BY <2>1, <2>2 DEF Range
<1> QED BY <1>1, <1>2

\* No answers yet are answers to any batch.
LEMMA NoneAnswered ==
  /\ NoAnswers \in Answered(Mutations) /\ DOMAIN NoAnswers = {} /\ Truth(NoAnswers)
<1>1. NoAnswers \in [{} -> Answers]
  BY DEF NoAnswers
<1>2. {} \in SUBSET Mutations
  OBVIOUS
<1> QED BY <1>1, <1>2 DEF Answered, Truth

\* A drain at rest and a call that is not open.
LEMMA RestingOK ==
  /\ Resting \in DrainRecords /\ Resting.pc = "idle" /\ Resting.batch = {}
  /\ Free \in CallRecords /\ Free.owner = Nobody /\ Free.answers = NoAnswers
<1>1. {} \in SUBSET Mutations /\ NoCursor \in Page /\ 0 \in Nat
  BY DEF Page
<1> QED BY <1>1, NoneAnswered DEF Resting, Free, DrainRecords, CallRecords, Steps

\* On a new phone the invariant holds.
LEMMA InitInv == Init => IInv
<1> SUFFICES ASSUME Init PROVE IInv
  OBVIOUS
<1>1. /\ verdict = [m \in Mutations |-> "none"] /\ effects = [m \in Mutations |-> 0]
      /\ queue = [m \in Mutations |-> [status |-> "unborn", attempts |-> 0]]
      /\ old = {} /\ local = [m \in Mutations |-> {}]
      /\ cursor = NoCursor /\ session = "in" /\ alone = TRUE /\ faults = 0
      /\ drain = [d \in Drains |-> Resting] /\ net = [c \in Calls |-> Free]
  BY DEF Init, Ledger!Init
<1>2. verdict \in [Mutations -> Ledger!Verdicts] /\ effects \in [Mutations -> Nat]
  BY <1>1 DEF Ledger!Verdicts
<1>3. [status |-> "unborn", attempts |-> 0] \in Rows
  BY QueueAssumption DEF Rows, Statuses
<1>4. queue \in [Mutations -> Rows]
  BY <1>1, <1>3
<1>5. drain \in [Drains -> DrainRecords] /\ net \in [Calls -> CallRecords]
  BY <1>1, RestingOK
<1>6. TypeOK
  BY <1>1, <1>2, <1>4, <1>5, Parts, QueueAssumption DEF TypeOK, Rows, Page
<1>7. \A c \in Calls : CallOK(c)
  BY <1>1, RestingOK, NoneAnswered, QueueAssumption DEF CallOK, Drains
<1>8. \A d \in Drains : DrainOK(d)
  BY <1>1, RestingOK DEF DrainOK
<1>9. SettledIsDecided /\ Calm
  BY <1>1, RestingOK DEF SettledIsDecided, Calm, BatchOK, WritesStayVisible, Drains
<1> QED BY <1>4, <1>5, <1>6, <1>7, <1>8, <1>9 DEF IInv
-----------------------------------------------------------------------------
\* What a mutation's rows must show for its write to be on the screen.
Shown(m) ==
  \/ queue[m].status \in {"pending", "inflight"}
  \/ queue[m].status = "applied" /\ verdict[m] = "applied"
  => local[m] # {}

\* What a lone drain may make of its own record.
LoneOK(q) ==
  /\ q.pc = "mark" =>
       /\ q.batch \cap q.expired = {}
       /\ \A m \in q.batch \cup q.expired : queue[m].status = "pending"
  /\ q.pc \in {"send", "wait", "answered", "failed", "poisoned"} =>
       \A m \in q.batch : queue[m].status = "inflight"

\* A drain that does not wait listens to no call.
LEMMA Deaf ==
  ASSUME IInv, NEW d \in Drains, drain[d].pc # "wait", NEW c \in Calls
  PROVE  net[c].owner # d
BY DEF IInv, CallOK

\* Steps of one drain that touch neither the server nor the calls: they leave
\* the other drains alone, settle only what is decided, and keep what a lone
\* cycle relies on.
LEMMA DrainStepInv ==
  ASSUME IInv, NEW d \in Drains, drain[d].pc # "wait",
         NEW q \in DrainRecords, q.pc \notin {"wait", "answered"},
         drain' = [drain EXCEPT ![d] = q],
         UNCHANGED <<ledger, old, account, net>>, faults' \in 0 .. MaxFaults,
         queue' \in [Mutations -> Rows], local' \in Rowful, cursor' \in Page,
         \A m \in Mutations :
            queue'[m].status = "applied" => queue[m].status = "applied" \/ verdict[m] # "none",
         OneCycle /\ Calm /\ alone =>
            d \in Cycles /\ LoneOK(q)' /\ \A m \in Mutations : queue'[m].status # "gone" /\ Shown(m)'
  PROVE  IInv'
<1>. UNCHANGED <<verdict, effects, old, session, alone, net>>
  BY DEF ledger, account
<1>1. drain' \in [Drains -> DrainRecords] /\ drain'[d] = q /\ \A e \in Drains : e # d => drain'[e] = drain[e]
  BY Types
<1>2. TypeOK'
  BY <1>1, Types, Parts DEF TypeOK, Rows, Rowful, Sessions
<1>3. (\A c \in Calls : CallOK(c))'
  BY <1>1, Deaf DEF IInv, CallOK, Truth
<1>4. (\A e \in Drains : DrainOK(e))'
  BY <1>1 DEF IInv, DrainOK, Truth
<1>5. SettledIsDecided'
  BY DEF IInv, SettledIsDecided
<1>6. ASSUME OneCycle, Calm PROVE Calm'
  <2>1. SUFFICES ASSUME alone PROVE Calm'
    BY DEF Calm
  <2>2. d \in Cycles /\ LoneOK(q)' /\ \A m \in Mutations : queue'[m].status # "gone" /\ Shown(m)'
    BY <1>6, <2>1
  <2>3. \A e \in Cycles : e = d
    BY <1>6, <2>2 DEF OneCycle
  <2>4. d \notin Flushes
    BY <2>2, Types
  <2>5. (\A e \in Flushes : drain[e].pc = "idle")'
    BY <1>1, <1>6, <2>1, <2>4 DEF Calm, Drains
  <2>6. (\A e \in Cycles : BatchOK(e))'
    BY <1>1, <2>2, <2>3 DEF BatchOK, LoneOK
  <2>7. WritesStayVisible'
    BY <2>2 DEF WritesStayVisible, Shown
  <2> QED BY <1>6, <2>1, <2>2, <2>5, <2>6, <2>7 DEF Calm
<1> QED BY <1>1, <1>2, <1>3, <1>4, <1>5, <1>6, Types DEF IInv
-----------------------------------------------------------------------------
\* An UPDATE of a status changes nothing else and no row that is not there.
LEMMA MarkedRows ==
  ASSUME IInv, NEW S, NEW s \in Statuses
  PROVE  /\ Marked(S, s) \in [Mutations -> Rows]
         /\ \A m \in Mutations : Marked(S, s)[m].status =
              IF m \in S /\ Present(m) THEN s ELSE queue[m].status
<1>1. ASSUME NEW m \in Mutations
      PROVE  /\ [queue[m] EXCEPT !.status = s] \in Rows /\ queue[m] \in Rows
             /\ [queue[m] EXCEPT !.status = s].status = s
  BY Types DEF Rows
<1> QED BY <1>1 DEF Marked

\* One more poison failure leaves the row pending or dead.
LEMMA AgedRow ==
  ASSUME IInv, NEW m \in Mutations
  PROVE  Aged(queue[m]) \in Rows /\ Aged(queue[m]).status \in {"pending", "dead"}
<1>1. queue[m].attempts \in 0 .. MaxAttempts /\ MaxAttempts \in Nat
  BY Types DEF Rows
<1>2. IF queue[m].attempts < MaxAttempts THEN queue[m].attempts + 1 \in 0 .. MaxAttempts ELSE MaxAttempts \in 0 .. MaxAttempts
  BY <1>1
<1> QED BY <1>2 DEF Aged, Rows, Statuses

\* The fields of a drain.
LEMMA DrainTypes ==
  ASSUME IInv, NEW d \in Drains
  PROVE  /\ drain[d] \in DrainRecords
         /\ drain[d].pc \in Steps /\ drain[d].pulls \in BOOLEAN
         /\ drain[d].batch \in SUBSET Mutations /\ drain[d].expired \in SUBSET Mutations
         /\ drain[d].answers \in Answered(Mutations)
         /\ drain[d].sent \in Page /\ drain[d].page \in Page /\ drain[d].drained \in Nat
BY Types DEF DrainRecords

\* The rows of one mutation that a step leaves as they were stay shown.
LEMMA StillShown ==
  ASSUME IInv, OneCycle, Calm, alone, NEW m \in Mutations, UNCHANGED verdict,
         queue'[m].status = queue[m].status \/ (queue[m].status = "inflight" /\ queue'[m].status \in {"pending", "dead", "inflight"})
                                           \/ (queue[m].status = "pending" /\ queue'[m].status \in {"inflight", "dead"}),
         local'[m] = local[m] \/ (local[m] \subseteq local'[m])
  PROVE  queue'[m].status # "gone" /\ Shown(m)'
BY DEF Calm, WritesStayVisible, Shown

\* Opening the store.
LEMMA OpenInv == ASSUME IInv, NEW d \in Drains, Open(d) PROVE IInv'
<1>0. PICK q : q = [drain[d] EXCEPT !.pulls = TRUE, !.pc = IF cursor = NoCursor THEN "cold" ELSE "ready"]
  OBVIOUS
<1>1. /\ d \in Cycles /\ drain[d].pc = "idle" /\ queue' = Marked(With("inflight"), "pending")
      /\ drain' = [drain EXCEPT ![d] = q]
      /\ UNCHANGED <<ledger, old, local, cursor, account, net, faults>>
  BY <1>0, Types DEF Open, StartCycle, DrainRecords
<1>2. q \in DrainRecords /\ q.pc \in {"cold", "ready"}
  BY <1>0, DrainTypes DEF DrainRecords, Steps
<1>3. /\ queue' \in [Mutations -> Rows]
      /\ \A m \in Mutations : queue'[m].status =
            IF m \in With("inflight") /\ Present(m) THEN "pending" ELSE queue[m].status
  BY <1>1, MarkedRows DEF Statuses
<1>4. \A m \in Mutations : queue'[m].status = queue[m].status
                        \/ (queue[m].status = "inflight" /\ queue'[m].status = "pending")
  BY <1>3 DEF With
<1>5. ASSUME OneCycle, Calm, alone
      PROVE  d \in Cycles /\ LoneOK(q)' /\ \A m \in Mutations : queue'[m].status # "gone" /\ Shown(m)'
  <2>1. LoneOK(q)'
    BY <1>2 DEF LoneOK
  <2>2. ASSUME NEW m \in Mutations PROVE queue'[m].status # "gone" /\ Shown(m)'
    BY <1>1, <1>4, <1>5, StillShown DEF ledger
  <2> QED BY <1>1, <2>1, <2>2
<1>6. \A m \in Mutations : queue'[m].status = "applied" => queue[m].status = "applied" \/ verdict[m] # "none"
  BY <1>4
<1>7. faults' \in 0 .. MaxFaults /\ local' \in Rowful /\ cursor' \in Page
  BY <1>1, Types
<1> QED BY <1>1, <1>2, <1>3, <1>5, <1>6, <1>7, DrainStepInv

\* Before a logout only the cycles are at work.
LEMMA Lone ==
  ASSUME IInv, Calm, alone, NEW d \in Drains, drain[d].pc # "idle"
  PROVE  d \in Cycles /\ BatchOK(d)
BY DEF Calm, Drains

\* Steps of one drain that touch only its own record.
LEMMA QuietInv ==
  ASSUME IInv, NEW d \in Drains, drain[d].pc # "wait", drain[d].pc # "idle" \/ d \in Cycles,
         NEW q \in DrainRecords, q.pc \notin {"wait", "answered"},
         drain' = [drain EXCEPT ![d] = q],
         UNCHANGED <<ledger, device, account, net>>, faults' \in 0 .. MaxFaults,
         OneCycle /\ Calm /\ alone => LoneOK(q)
  PROVE  IInv'
<1>1. UNCHANGED <<verdict, queue, old, local, cursor>>
  BY DEF ledger, device
<1>2. ASSUME OneCycle, Calm, alone
      PROVE  d \in Cycles /\ LoneOK(q)' /\ \A m \in Mutations : queue'[m].status # "gone" /\ Shown(m)'
  <2>1. d \in Cycles
    BY <1>2, Lone
  <2>2. LoneOK(q)'
    BY <1>1, <1>2 DEF LoneOK
  <2>3. ASSUME NEW m \in Mutations PROVE queue'[m].status # "gone" /\ Shown(m)'
    BY <1>1, <1>2, StillShown
  <2> QED BY <2>1, <2>2, <2>3
<1>3. queue' \in [Mutations -> Rows] /\ local' \in Rowful /\ cursor' \in Page
  BY <1>1, Types
<1>4. \A m \in Mutations : queue'[m].status = "applied" => queue[m].status = "applied" \/ verdict[m] # "none"
  BY <1>1
<1> QED BY <1>1, <1>2, <1>3, <1>4, DrainStepInv

\* A push without opening, when the app goes to the background.
LEMMA BackgroundInv == ASSUME IInv, NEW d \in Drains, Background(d) PROVE IInv'
<1>0. PICK q : q = [drain[d] EXCEPT !.pc = "ready"]
  OBVIOUS
<1>1. /\ d \in Cycles /\ drain[d].pc = "idle" /\ drain' = [drain EXCEPT ![d] = q]
      /\ UNCHANGED <<ledger, device, account, net, faults>>
  BY <1>0, Types DEF Background, Move
<1>2. q \in DrainRecords /\ q.pc = "ready"
  BY <1>0, DrainTypes DEF DrainRecords, Steps
<1>3. LoneOK(q) /\ faults' \in 0 .. MaxFaults
  BY <1>1, <1>2, Types DEF LoneOK
<1> QED BY <1>1, <1>2, <1>3, QuietInv

\* The batch is what is pending, whatever its age.
LEMMA TakeInv == ASSUME IInv, NEW d \in Drains, TakeDrainable(d) PROVE IInv'
<1>0. PICK q : q = [drain[d] EXCEPT !.pc = "mark", !.batch = With("pending") \ old,
                                    !.expired = With("pending") \cap old]
  OBVIOUS
<1>1. /\ drain[d].pc = "ready" /\ drain' = [drain EXCEPT ![d] = q]
      /\ UNCHANGED <<ledger, device, account, net, faults>>
  BY <1>0, Types DEF TakeDrainable
<1>2. /\ q \in DrainRecords /\ q.pc = "mark"
      /\ q.batch = With("pending") \ old /\ q.expired = With("pending") \cap old
  BY <1>0, DrainTypes DEF DrainRecords, Steps, With
<1>3. LoneOK(q) /\ faults' \in 0 .. MaxFaults
  BY <1>1, <1>2, Types DEF LoneOK, With
<1> QED BY <1>1, <1>2, <1>3, QuietInv

\* A drain that rests, or goes on without a batch.
LEMMA RestInv ==
  ASSUME IInv, NEW d \in Drains, drain[d].pc \notin {"wait", "idle"},
         NEW q \in DrainRecords, q.pc \in {"idle", "pull"}, drain' = [drain EXCEPT ![d] = q],
         UNCHANGED <<ledger, device, account, net>>, faults' \in 0 .. MaxFaults
  PROVE  IInv'
<1>1. LoneOK(q)
  BY DEF LoneOK
<1> QED BY <1>1, QuietInv

\* What follows a push is the end of the drain or a pull.
LEMMA AfterPushRests ==
  ASSUME NEW d
  PROVE  /\ [Resting EXCEPT !.pc = AfterPush(d)] \in DrainRecords
         /\ [Resting EXCEPT !.pc = AfterPush(d)].pc \in {"idle", "pull"}
BY RestingOK DEF AfterPush, DrainRecords, Steps

\* The end of a push.
LEMMA DrainEndsInv == ASSUME IInv, NEW d \in Drains, DrainEnds(d) PROVE IInv'
<1>1. PICK q : q = [Resting EXCEPT !.pc = AfterPush(d)]
  OBVIOUS
<1>2. q \in DrainRecords /\ q.pc \in {"idle", "pull"}
  BY <1>1, AfterPushRests
<1>3. /\ drain[d].pc = "ready" /\ drain' = [drain EXCEPT ![d] = q]
      /\ UNCHANGED <<ledger, device, account, net>> /\ faults' \in 0 .. MaxFaults
  BY <1>1, Types DEF DrainEnds
<1> QED BY <1>2, <1>3, RestInv

\* A page is fetched, or the first rows of a store.
LEMMA FetchInv == ASSUME IInv, NEW d \in Drains, Fetch(d) PROVE IInv'
<1>1. PICK pc, sent, page :
        /\ drain[d].pc \in {"pull", "cold"} /\ pc \in {"pullpage", "coldpage"}
        /\ sent \in Page /\ page \in Page
        /\ drain' = [drain EXCEPT ![d].pc = pc, ![d].sent = sent, ![d].page = page]
        /\ UNCHANGED <<ledger, device, account, net, faults>>
  <2>1. cursor \in Page /\ {} \in Page /\ {m \in Mutations : verdict[m] = "applied"} \in Page
    BY Types DEF Page
  <2>2. CASE drain[d].pc = "pull"
    BY <2>1, <2>2 DEF Fetch
  <2>3. CASE drain[d].pc = "cold"
    BY <2>1, <2>3 DEF Fetch
  <2> QED BY <2>2, <2>3 DEF Fetch
<1>2. PICK q : q = [drain[d] EXCEPT !.pc = pc, !.sent = sent, !.page = page]
  OBVIOUS
<1>3. drain' = [drain EXCEPT ![d] = q]
  BY <1>1, <1>2, Types
<1>4. q \in DrainRecords /\ q.pc = pc
  BY <1>1, <1>2, DrainTypes DEF DrainRecords, Steps
<1>5. LoneOK(q) /\ faults' \in 0 .. MaxFaults
  BY <1>1, <1>4, Types DEF LoneOK
<1> QED BY <1>1, <1>3, <1>4, <1>5, QuietInv

\* A fetch that fails ends the cycle.
LEMMA FetchFailsInv == ASSUME IInv, NEW d \in Drains, FetchFails(d) PROVE IInv'
<1>1. faults' \in 0 .. MaxFaults
  BY Types DEF FetchFails, Fault
<1>2. PICK q : q = Resting
  OBVIOUS
<1>3. q \in DrainRecords /\ q.pc = "idle"
  BY <1>2, RestingOK
<1> QED BY <1>1, <1>2, <1>3, RestInv DEF FetchFails

\* After the wipe nothing can be called: a batch in hand has failed, all else
\* ends.
LEMMA CannotCallInv == ASSUME IInv, NEW d \in Drains, CannotCall(d) PROVE IInv'
<1>1. /\ drain[d].pc \in {"send", "pull", "cold"} /\ faults' = faults
      /\ UNCHANGED <<ledger, device, account, net>>
  BY DEF CannotCall
<1>2. faults' \in 0 .. MaxFaults
  BY <1>1, Types
<1>3. CASE drain[d].pc = "send"
  <2>1. PICK q : q = [drain[d] EXCEPT !.pc = "failed"]
    OBVIOUS
  <2>2. drain' = [drain EXCEPT ![d] = q]
    BY <1>3, <2>1 DEF CannotCall
  <2>3. q \in DrainRecords /\ q.pc = "failed" /\ q.batch = drain[d].batch
    BY <2>1, DrainTypes DEF DrainRecords, Steps
  <2>4. OneCycle /\ Calm /\ alone => LoneOK(q)
    BY <1>3, <2>3, Lone DEF LoneOK, BatchOK
  <2> QED BY <1>1, <1>2, <2>2, <2>3, <2>4, QuietInv
<1>4. CASE drain[d].pc # "send"
  <2>1. PICK q : q = Resting
    OBVIOUS
  <2>2. q \in DrainRecords /\ q.pc = "idle" /\ drain' = [drain EXCEPT ![d] = q]
    BY <1>4, <2>1, RestingOK DEF CannotCall
  <2> QED BY <1>1, <1>2, <2>2, RestInv
<1> QED BY <1>3, <1>4

\* Before a logout the rows of a lone cycle's batch change as it says, and no
\* others.
LEMMA BatchShown ==
  ASSUME IInv, OneCycle, Calm, alone, NEW d \in Drains,
         drain[d].pc \in {"mark", "send", "wait", "answered", "failed", "poisoned"},
         NEW m \in Mutations, UNCHANGED verdict, local'[m] = local[m],
         \/ queue'[m] = queue[m]
         \/ /\ m \in drain[d].batch \cup (IF drain[d].pc = "mark" THEN drain[d].expired ELSE {})
            /\ queue'[m].status \in {"pending", "inflight", "dead", "rejected"}
  PROVE  queue'[m].status # "gone" /\ Shown(m)'
<1>1. BatchOK(d)
  BY Lone
<1>2. CASE queue'[m] = queue[m]
  BY <1>2, StillShown
<1>3. CASE queue'[m] # queue[m]
  <2>1. queue[m].status \in {"pending", "inflight"} /\ queue'[m].status \in {"pending", "inflight", "dead", "rejected"}
    BY <1>1, <1>3 DEF BatchOK
  <2>2. local[m] # {}
    BY <2>1 DEF Calm, WritesStayVisible
  <2> QED BY <2>1, <2>2 DEF Shown
<1> QED BY <1>2, <1>3

\* Expired rows are dead and the batch is in flight.
LEMMA MarkInv == ASSUME IInv, NEW d \in Drains, MarkInflight(d) PROVE IInv'
<1>0. PICK q : q = IF drain[d].batch # {} THEN [drain[d] EXCEPT !.pc = "send"]
                   ELSE [Resting EXCEPT !.pc = AfterPush(d)]
  OBVIOUS
<1>1. /\ drain[d].pc = "mark" /\ drain' = [drain EXCEPT ![d] = q]
      /\ UNCHANGED <<ledger, old, local, cursor, account, net, faults>>
  BY <1>0 DEF MarkInflight
<1>2. /\ q \in DrainRecords /\ q.pc \in {"send", "idle", "pull"}
      /\ q.pc = "send" => q.batch = drain[d].batch
  BY <1>0, DrainTypes, AfterPushRests DEF DrainRecords, Steps
<1>3. ASSUME NEW m \in Mutations
      PROVE  /\ queue'[m] \in Rows /\ queue[m] \in Rows
             /\ \/ queue'[m] = queue[m]
                \/ m \in drain[d].batch \cup drain[d].expired /\ queue'[m].status \in {"inflight", "dead"}
             /\ m \in drain[d].batch \ drain[d].expired /\ queue[m].status = "pending"
                  => queue'[m].status = "inflight"
  <2>1. queue[m] \in Rows
    BY Types
  <2>2. \A s \in {"inflight", "dead"} : [queue[m] EXCEPT !.status = s] \in Rows /\ [queue[m] EXCEPT !.status = s].status = s
    BY <2>1 DEF Rows, Statuses
  <2>3. \/ queue'[m] = queue[m] /\ (~Present(m) \/ m \notin drain[d].batch \cup drain[d].expired)
        \/ m \in drain[d].expired /\ queue'[m] = [queue[m] EXCEPT !.status = "dead"]
        \/ m \in drain[d].batch /\ queue'[m] = [queue[m] EXCEPT !.status = "inflight"]
    BY DEF MarkInflight
  <2>4. m \in drain[d].batch \ drain[d].expired /\ queue[m].status = "pending"
          => queue'[m] = [queue[m] EXCEPT !.status = "inflight"]
    BY DEF MarkInflight, Present
  <2> QED BY <2>1, <2>2, <2>3, <2>4
<1>4. queue' \in [Mutations -> Rows]
  <2>1. queue' = [m \in Mutations |-> queue'[m]]
    BY Zenon DEF MarkInflight
  <2> QED BY <1>3, <2>1
<1>5. ASSUME OneCycle, Calm, alone
      PROVE  d \in Cycles /\ LoneOK(q)' /\ \A m \in Mutations : queue'[m].status # "gone" /\ Shown(m)'
  <2>1. d \in Cycles /\ BatchOK(d)
    BY <1>1, <1>5, Lone
  <2>2. LoneOK(q)'
    BY <1>1, <1>2, <1>3, <2>1, DrainTypes DEF LoneOK, BatchOK
  <2>3. ASSUME NEW m \in Mutations PROVE queue'[m].status # "gone" /\ Shown(m)'
    BY <1>1, <1>3, <1>5, BatchShown DEF ledger
  <2> QED BY <2>1, <2>2, <2>3
<1>6. \A m \in Mutations : queue'[m].status = "applied" => queue[m].status = "applied" \/ verdict[m] # "none"
  BY <1>3
<1>7. faults' \in 0 .. MaxFaults /\ local' \in Rowful /\ cursor' \in Page
  BY <1>1, Types
<1> QED BY <1>1, <1>2, <1>4, <1>5, <1>6, <1>7, DrainStepInv

\* A failed call or a refused batch: the rows of the batch are pending again or
\* dead, and the drain rests.
LEMMA FailureInv ==
  ASSUME IInv, NEW d \in Drains, drain[d].pc \in {"failed", "poisoned"},
         drain' = [drain EXCEPT ![d] = Resting],
         UNCHANGED <<ledger, old, local, cursor, account, net, faults>>,
         queue' \in [Mutations -> Rows],
         \A m \in Mutations : \/ queue'[m] = queue[m]
                              \/ m \in drain[d].batch /\ queue'[m].status \in {"pending", "dead"}
  PROVE  IInv'
<1>0. PICK q : q = Resting
  OBVIOUS
<1>1. q \in DrainRecords /\ q.pc = "idle"
  BY <1>0, RestingOK
<1>2. ASSUME OneCycle, Calm, alone
      PROVE  d \in Cycles /\ LoneOK(q)' /\ \A m \in Mutations : queue'[m].status # "gone" /\ Shown(m)'
  <2>1. d \in Cycles
    BY <1>2, Lone
  <2>2. LoneOK(q)'
    BY <1>1 DEF LoneOK
  <2>3. ASSUME NEW m \in Mutations PROVE queue'[m].status # "gone" /\ Shown(m)'
    BY <1>2, BatchShown DEF ledger
  <2> QED BY <2>1, <2>2, <2>3
<1>3. \A m \in Mutations : queue'[m].status = "applied" => queue[m].status = "applied" \/ verdict[m] # "none"
  OBVIOUS
<1>4. faults' \in 0 .. MaxFaults /\ local' \in Rowful /\ cursor' \in Page
  BY Types
<1> QED BY <1>0, <1>1, <1>2, <1>3, <1>4, DrainStepInv

\* Offline, timeout, 5xx and 429.
LEMMA TransportInv == ASSUME IInv, NEW d \in Drains, TransportFailure(d) PROVE IInv'
<1>1. queue' = Marked(drain[d].batch, "pending")
  BY DEF TransportFailure
<1>2. queue' \in [Mutations -> Rows]
  BY <1>1, MarkedRows DEF Statuses
<1>3. ASSUME NEW m \in Mutations
      PROVE  queue'[m] = queue[m] \/ (m \in drain[d].batch /\ queue'[m].status \in {"pending", "dead"})
  <2>1. CASE m \in drain[d].batch /\ Present(m)
    BY <1>1, <2>1, MarkedRows DEF Statuses
  <2>2. CASE ~(m \in drain[d].batch /\ Present(m))
    BY <1>1, <2>2 DEF Marked
  <2> QED BY <2>1, <2>2
<1> QED BY <1>2, <1>3, FailureInv DEF TransportFailure

\* A 4xx for the whole batch.
LEMMA PoisonInv == ASSUME IInv, NEW d \in Drains, PoisonFailure(d) PROVE IInv'
<1>1. queue' = [m \in Mutations |-> IF m \in drain[d].batch /\ Present(m) THEN Aged(queue[m]) ELSE queue[m]]
  BY DEF PoisonFailure
<1>2. \A m \in Mutations : Aged(queue[m]) \in Rows /\ Aged(queue[m]).status \in {"pending", "dead"}
  BY AgedRow
<1>3. queue' \in [Mutations -> Rows]
  BY <1>1, <1>2, Types
<1>4. \A m \in Mutations : queue'[m] = queue[m] \/ (m \in drain[d].batch /\ queue'[m].status \in {"pending", "dead"})
  BY <1>1, <1>2
<1> QED BY <1>3, <1>4, FailureInv DEF PoisonFailure

\* What the answer to one mutation of the batch does to its rows.
LEMMA AnswerRows ==
  ASSUME NEW answer \in Answers, NEW here \in SUBSET {"temp", "server"}
  PROVE  /\ NextStatus(answer) \in {"applied", "rejected", "pending"}
         /\ NextStatus(answer) = "applied" <=> answer \in {"applied", "duplicate"}
         /\ NextRows(answer, here) \in SUBSET {"temp", "server"}
         /\ NextStatus(answer) # "rejected" => NextRows(answer, here) \in {here, {"server"}}
<1>1. answer \in {"applied", "rejected", "duplicate", "later"}
  BY DEF Answers
<1>2. /\ answer \in {"applied", "duplicate"} => NextStatus(answer) = "applied"
      /\ answer = "rejected" => NextStatus(answer) = "rejected"
      /\ answer = "later" => NextStatus(answer) = "pending"
  BY DEF NextStatus
<1>3. /\ answer = "applied" => NextRows(answer, here) = {"server"}
      /\ answer = "rejected" => NextRows(answer, here) = {}
      /\ answer \in {"duplicate", "later"} => NextRows(answer, here) = here
  BY DEF NextRows
<1> QED BY <1>1, <1>2, <1>3

\* The results of a batch reach the queue and the local tables together.
LEMMA ReconcileInv == ASSUME IInv, NEW d \in Drains, Reconcile(d) PROVE IInv'
<1>. DEFINE ans == drain[d].answers
<1>0. PICK q : q = [drain[d] EXCEPT !.pc = IF drain[d].page = NoCursor THEN "ready" ELSE "page",
                                    !.drained = drain[d].drained + 1]
  OBVIOUS
<1>1. /\ drain[d].pc = "answered" /\ drain' = [drain EXCEPT ![d] = q]
      /\ UNCHANGED <<ledger, old, cursor, account, net, faults>>
  BY <1>0, Types DEF Reconcile
<1>2. q \in DrainRecords /\ q.pc \in {"ready", "page"}
  <2>1. PICK pc \in {"ready", "page"} : pc = IF drain[d].page = NoCursor THEN "ready" ELSE "page"
    OBVIOUS
  <2>2. PICK n \in Nat : n = drain[d].drained + 1
    BY DrainTypes
  <2>3. q = [drain[d] EXCEPT !.pc = pc, !.drained = n]
    BY <1>0, <2>1, <2>2
  <2> QED BY <2>3, DrainTypes DEF DrainRecords, Steps
<1>3. Truth(ans) /\ DOMAIN ans \subseteq drain[d].batch /\ \A m \in DOMAIN ans : ans[m] \in Answers
  <2>1. PICK T \in SUBSET Mutations : ans \in [T -> Answers]
    BY DrainTypes DEF Answered
  <2> QED BY <1>1, <2>1 DEF IInv, DrainOK
<1>4. ASSUME NEW m \in Mutations
      PROVE  /\ queue'[m] \in Rows /\ local'[m] \in SUBSET {"temp", "server"}
             /\ m \in DOMAIN ans => local'[m] = NextRows(ans[m], local[m])
             /\ m \notin DOMAIN ans => local'[m] = local[m]
             /\ \/ queue'[m] = queue[m] /\ (~Present(m) \/ m \notin DOMAIN ans)
                \/ m \in DOMAIN ans /\ queue'[m].status = NextStatus(ans[m])
                \/ /\ m \in drain[d].batch \ DOMAIN ans
                   /\ queue'[m].status \in {"pending", "dead"}
  <2>1. queue[m] \in Rows /\ local[m] \in SUBSET {"temp", "server"}
    BY Types DEF Rowful
  <2>2. /\ m \in DOMAIN ans => local'[m] = NextRows(ans[m], local[m])
        /\ m \notin DOMAIN ans => local'[m] = local[m]
    BY DEF Reconcile
  <2>3. \/ queue'[m] = queue[m] /\ (~Present(m) \/ m \notin DOMAIN ans)
        \/ m \in DOMAIN ans /\ queue'[m] = [queue[m] EXCEPT !.status = NextStatus(ans[m])]
        \/ m \in drain[d].batch \ DOMAIN ans /\ queue'[m] = Aged(queue[m])
    BY DEF Reconcile
  <2>4. m \in DOMAIN ans => /\ NextStatus(ans[m]) \in Statuses
                            /\ NextRows(ans[m], local[m]) \in SUBSET {"temp", "server"}
    BY <1>3, <2>1, AnswerRows DEF Statuses
  <2>5. \A s \in Statuses : [queue[m] EXCEPT !.status = s] \in Rows /\ [queue[m] EXCEPT !.status = s].status = s
    BY <2>1 DEF Rows
  <2>6. Aged(queue[m]) \in Rows /\ Aged(queue[m]).status \in {"pending", "dead"}
    BY AgedRow
  <2> HIDE DEF ans
  <2>7. CASE m \in DOMAIN ans
    BY <2>1, <2>2, <2>3, <2>4, <2>5, <2>7
  <2>8. CASE m \notin DOMAIN ans
    BY <2>1, <2>2, <2>3, <2>6, <2>8
  <2> QED BY <2>7, <2>8
<1>5. queue' \in [Mutations -> Rows] /\ local' \in Rowful
  <2>1. queue' = [m \in Mutations |-> queue'[m]] /\ local' = [m \in Mutations |-> local'[m]]
    BY Zenon DEF Reconcile
  <2> QED BY <1>4, <2>1 DEF Rowful
<1> HIDE DEF ans
<1>6. ASSUME OneCycle, Calm, alone
      PROVE  d \in Cycles /\ LoneOK(q)' /\ \A m \in Mutations : queue'[m].status # "gone" /\ Shown(m)'
  <2>1. d \in Cycles /\ BatchOK(d)
    BY <1>1, <1>6, Lone
  <2>2. LoneOK(q)'
    BY <1>2 DEF LoneOK
  <2>3. ASSUME NEW m \in Mutations PROVE queue'[m].status # "gone" /\ Shown(m)'
    <3>1. CASE m \in DOMAIN ans
      <4>1. queue[m].status = "inflight" /\ local[m] # {}
        BY <1>1, <1>3, <1>6, <2>1, <3>1 DEF BatchOK, Calm, WritesStayVisible
      <4>2. queue'[m].status = NextStatus(ans[m]) /\ local'[m] = NextRows(ans[m], local[m])
        BY <1>4, <3>1, <4>1 DEF Present
      <4>3. /\ NextStatus(ans[m]) \in {"applied", "rejected", "pending"}
            /\ NextStatus(ans[m]) # "rejected" => NextRows(ans[m], local[m]) \in {local[m], {"server"}}
        BY <1>3, <3>1, AnswerRows, Types DEF Rowful
      <4> QED BY <4>1, <4>2, <4>3 DEF Shown
    <3>2. CASE m \notin DOMAIN ans
      BY <1>1, <1>4, <1>6, <3>2, BatchShown DEF ledger
    <3> QED BY <3>1, <3>2
  <2> QED BY <2>1, <2>2, <2>3
<1>7. ASSUME NEW m \in Mutations, queue'[m].status = "applied"
      PROVE  queue[m].status = "applied" \/ verdict[m] # "none"
  <2>1. queue'[m] = queue[m] \/ (m \in DOMAIN ans /\ NextStatus(ans[m]) = "applied")
    BY <1>4, <1>7
  <2>2. m \in DOMAIN ans /\ NextStatus(ans[m]) = "applied" => ans[m] \in {"applied", "duplicate"}
    BY <1>3, AnswerRows
  <2> QED BY <1>3, <1>7, <2>1, <2>2 DEF Truth
<1>8. faults' \in 0 .. MaxFaults /\ cursor' \in Page
  BY <1>1, Types
<1> QED BY <1>1, <1>2, <1>5, <1>6, <1>7, <1>8, DrainStepInv

\* Rows of a page are added to the local tables, none is taken.
LEMMA ApplyPageInv == ASSUME IInv, NEW d \in Drains, ApplyPage(d) PROVE IInv'
<1>0. PICK q : q = [Resting EXCEPT
                      !.pc = IF drain[d].pc = "pullpage" THEN "idle" ELSE "ready",
                      !.pulls = drain[d].pulls /\ drain[d].pc # "pullpage",
                      !.drained = drain[d].drained]
  OBVIOUS
<1>1. /\ drain[d].pc \in {"page", "pullpage", "coldpage"} /\ drain' = [drain EXCEPT ![d] = q]
      /\ UNCHANGED <<ledger, queue, old, account, net, faults>> /\ cursor' = drain[d].page
  BY <1>0, Types DEF ApplyPage
<1>2. q \in DrainRecords /\ q.pc \in {"idle", "ready"}
  BY <1>0, DrainTypes, RestingOK DEF DrainRecords, Steps
<1>3. ASSUME NEW m \in Mutations
      PROVE  local[m] \subseteq local'[m] /\ local'[m] \in SUBSET {"temp", "server"}
  BY Types DEF ApplyPage, Rowful
<1>4. local' \in Rowful
  <2>1. local' = [m \in Mutations |-> local'[m]]
    BY Zenon DEF ApplyPage
  <2> QED BY <1>3, <2>1 DEF Rowful
<1>5. ASSUME OneCycle, Calm, alone
      PROVE  d \in Cycles /\ LoneOK(q)' /\ \A m \in Mutations : queue'[m].status # "gone" /\ Shown(m)'
  <2>1. d \in Cycles /\ LoneOK(q)'
    BY <1>1, <1>2, <1>5, Lone DEF LoneOK
  <2>2. ASSUME NEW m \in Mutations PROVE queue'[m].status # "gone" /\ Shown(m)'
    BY <1>1, <1>3, <1>5, StillShown DEF ledger
  <2> QED BY <2>1, <2>2
<1>6. \A m \in Mutations : queue'[m].status = "applied" => queue[m].status = "applied" \/ verdict[m] # "none"
  BY <1>1
<1>7. faults' \in 0 .. MaxFaults /\ cursor' \in Page /\ queue' \in [Mutations -> Rows]
  BY <1>1, Types, DrainTypes
<1> QED BY <1>1, <1>2, <1>4, <1>5, <1>6, <1>7, DrainStepInv
-----------------------------------------------------------------------------
\* Steps of the user and of time: no drain and no call moves, rows on their way
\* stay as they are, and alone is only ever lost.
LEMMA DeviceStepInv ==
  ASSUME IInv, UNCHANGED <<ledger, drain, net>>, old' \subseteq Mutations, cursor' \in Page,
         session' \in Sessions, alone' \in BOOLEAN, faults' \in 0 .. MaxFaults,
         queue' \in [Mutations -> Rows], local' \in Rowful,
         \A m \in Mutations : queue'[m].status = "applied" => queue[m].status = "applied",
         OneCycle /\ Calm /\ alone' =>
            /\ alone /\ session' = "in"
            /\ \A m \in Mutations :
                 /\ queue[m].status \in {"pending", "inflight"} => queue'[m] = queue[m]
                 /\ queue'[m].status # "gone" /\ Shown(m)'
  PROVE  IInv'
<1>1. UNCHANGED <<verdict, effects>>
  BY DEF ledger
<1>2. TypeOK'
  BY <1>1, Types, Parts DEF TypeOK, Rows, Rowful, Sessions
<1>3. (\A c \in Calls : CallOK(c))' /\ (\A d \in Drains : DrainOK(d))' /\ SettledIsDecided'
  BY <1>1 DEF IInv, CallOK, DrainOK, Truth, SettledIsDecided
<1>4. ASSUME OneCycle, Calm PROVE Calm'
  <2>1. SUFFICES ASSUME alone' PROVE Calm'
    BY DEF Calm
  <2>2. alone /\ session' = "in" /\ \A d \in Flushes : drain'[d].pc = "idle"
    BY <1>4, <2>1 DEF Calm
  <2>3. ASSUME NEW d \in Cycles PROVE BatchOK(d)'
    BY <1>4, <2>1, <2>2, Types, DrainTypes DEF Calm, BatchOK
  <2>4. WritesStayVisible' /\ \A m \in Mutations : queue'[m].status # "gone"
    BY <1>4, <2>1 DEF WritesStayVisible, Shown
  <2> QED BY <2>2, <2>3, <2>4 DEF Calm
<1> QED BY <1>2, <1>3, <1>4, Types DEF IInv

\* A new write: its optimistic row and its queue row.
LEMMA EnqueueInv == ASSUME IInv, NEW m \in Mutations, Enqueue(m) PROVE IInv'
<1>1. /\ session = "in" /\ queue[m].status = "unborn" /\ local' = [local EXCEPT ![m] = {"temp"}]
      /\ queue' = [queue EXCEPT ![m].status = "pending"]
      /\ UNCHANGED <<ledger, old, cursor, session, alone, drain, net, faults>>
  BY DEF Enqueue, account
<1>2. [queue[m] EXCEPT !.status = "pending"] \in Rows /\ [queue[m] EXCEPT !.status = "pending"].status = "pending"
  BY Types DEF Rows, Statuses
<1>3. /\ queue' \in [Mutations -> Rows] /\ queue'[m].status = "pending"
      /\ \A n \in Mutations : n # m => queue'[n] = queue[n]
  BY <1>1, <1>2, Types
<1>4. local' \in Rowful /\ local'[m] = {"temp"} /\ \A n \in Mutations : n # m => local'[n] = local[n]
  BY <1>1, Types DEF Rowful
<1>5. ASSUME OneCycle, Calm, alone'
      PROVE  /\ alone /\ session' = "in"
             /\ \A n \in Mutations :
                  /\ queue[n].status \in {"pending", "inflight"} => queue'[n] = queue[n]
                  /\ queue'[n].status # "gone" /\ Shown(n)'
  <2>1. ASSUME NEW n \in Mutations
        PROVE  /\ queue[n].status \in {"pending", "inflight"} => queue'[n] = queue[n]
               /\ queue'[n].status # "gone" /\ Shown(n)'
    <3>1. CASE n = m
      BY <1>1, <1>3, <1>4, <3>1 DEF Shown
    <3>2. CASE n # m
      BY <1>1, <1>3, <1>4, <1>5, <3>2, StillShown DEF ledger
    <3> QED BY <3>1, <3>2
  <2> QED BY <1>1, <1>5, <2>1
<1>6. \A n \in Mutations : queue'[n].status = "applied" => queue[n].status = "applied"
  BY <1>1, <1>3
<1> QED BY <1>1, <1>3, <1>4, <1>5, <1>6, Types, DeviceStepInv

\* A row grows older than the replay window.
LEMMA AgeInv == ASSUME IInv, NEW m \in Mutations, Age(m) PROVE IInv'
<1>1. /\ old' \subseteq Mutations
      /\ UNCHANGED <<ledger, queue, local, cursor, session, alone, drain, net, faults>>
  BY Types DEF Age, account
<1>2. OneCycle /\ Calm /\ alone' =>
        /\ alone /\ session' = "in"
        /\ \A n \in Mutations :
             /\ queue[n].status \in {"pending", "inflight"} => queue'[n] = queue[n]
             /\ queue'[n].status # "gone" /\ Shown(n)'
  BY <1>1, StillShown DEF ledger, Calm
<1> QED BY <1>1, <1>2, Types, DeviceStepInv

\* The wipe of a logout.
LEMMA WipeInv == ASSUME IInv, Wipe PROVE IInv'
<1>1. /\ session = "flushing" /\ session' = "out" /\ cursor' = NoCursor
      /\ queue' = [m \in Mutations |-> [status |-> IF queue[m].status = "unborn" THEN "unborn"
                                                   ELSE "gone", attempts |-> 0]]
      /\ local' = [m \in Mutations |-> {}] /\ UNCHANGED <<ledger, old, alone, drain, net, faults>>
  BY DEF Wipe
<1>2. \A s \in {"unborn", "gone"} : [status |-> s, attempts |-> 0] \in Rows
  BY QueueAssumption DEF Rows, Statuses
<1>3. queue' \in [Mutations -> Rows] /\ \A m \in Mutations : queue'[m].status # "applied"
  BY <1>1, <1>2
<1>4. local' \in Rowful /\ cursor' \in Page /\ session' \in Sessions
  BY <1>1 DEF Rowful, Page, Sessions
<1>5. ~(Calm /\ alone')
  BY <1>1 DEF Calm
<1> QED BY <1>1, <1>3, <1>4, <1>5, Types, DeviceStepInv

\* The next login.
LEMMA LoginInv == ASSUME IInv, Login PROVE IInv'
<1>1. session = "out" /\ session' = "in" /\ UNCHANGED <<ledger, queue, old, local, cursor, alone, drain, net, faults>>
  BY DEF Login, device
<1>2. ~(Calm /\ alone')
  BY <1>1 DEF Calm
<1>3. session' \in Sessions
  BY <1>1 DEF Sessions
<1> QED BY <1>1, <1>2, <1>3, Types, DeviceStepInv

\* The head of a logout: an idle flush may start.
LEMMA LogoutInv == ASSUME IInv, NEW d \in Flushes, Logout(d) PROVE IInv'
<1>1. /\ drain[d].pc = "idle" /\ session' = "flushing" /\ alone' = FALSE /\ d \in Drains
      /\ UNCHANGED <<verdict, effects, queue, old, local, cursor, net, faults>>
  BY DEF Logout, ledger, device, Drains
<1>2. PICK q : q \in {drain[d], [drain[d] EXCEPT !.pc = "ready"]} /\ drain' = [drain EXCEPT ![d] = q]
  BY <1>1, Types DEF Logout, Move
<1>3. q \in DrainRecords /\ q.pc \in {"idle", "ready"}
  BY <1>1, <1>2, DrainTypes DEF DrainRecords, Steps
<1>4. drain' \in [Drains -> DrainRecords] /\ drain'[d] = q /\ \A e \in Drains : e # d => drain'[e] = drain[e]
  BY <1>1, <1>2, <1>3, Types
<1>5. TypeOK'
  BY <1>1, <1>4, Types, Parts DEF TypeOK, Rows, Rowful, Sessions
<1>6. (\A c \in Calls : CallOK(c))'
  BY <1>1, <1>4, Deaf DEF IInv, CallOK, Truth
<1>7. (\A e \in Drains : DrainOK(e))' /\ SettledIsDecided'
  BY <1>1, <1>3, <1>4 DEF IInv, DrainOK, Truth, SettledIsDecided
<1>8. Calm'
  BY <1>1 DEF Calm
<1> QED BY <1>1, <1>4, <1>5, <1>6, <1>7, <1>8, Types DEF IInv
-----------------------------------------------------------------------------
\* One more answer for a batch.
LEMMA OneMore ==
  ASSUME NEW a \in Answered(Mutations), NEW m \in Mutations, NEW x \in Answers
  PROVE  [n \in DOMAIN a \cup {m} |-> IF n = m THEN x ELSE a[n]] \in Answered(Mutations)
<1>1. PICK T \in SUBSET Mutations : a \in [T -> Answers]
  BY DEF Answered
<1>2. /\ [n \in DOMAIN a \cup {m} |-> IF n = m THEN x ELSE a[n]] \in [T \cup {m} -> Answers]
      /\ T \cup {m} \in SUBSET Mutations
  BY <1>1
<1> QED BY <1>2 DEF Answered

\* The fields of a call.
LEMMA CallTypes ==
  ASSUME IInv, NEW c \in Calls
  PROVE  /\ net[c] \in CallRecords /\ net[c].open \in BOOLEAN
         /\ net[c].owner \in Drains \cup {Nobody} /\ net[c].batch \in SUBSET Mutations
         /\ net[c].answers \in Answered(Mutations) /\ net[c].sent \in Page
BY Types DEF CallRecords

\* The server answers one mutation of a call: a verdict once reached stays, and
\* what it calls settled is decided.
LEMMA SayInv ==
  ASSUME IInv, NEW c \in Calls, NEW m \in Undecided(c), NEW answer \in Answers,
         Say(c, m, answer), UNCHANGED <<device, account, drain>>, faults' \in 0 .. MaxFaults,
         verdict' \in [Mutations -> Ledger!Verdicts], effects' \in [Mutations -> Nat],
         \A n \in Mutations : verdict[n] # "none" => verdict'[n] = verdict[n],
         answer \in {"applied", "duplicate"} => verdict'[m] # "none"
  PROVE  IInv'
<1>. UNCHANGED <<queue, old, local, cursor, session, alone>>
  BY DEF device, account
<1>0. m \in Mutations /\ m \in net[c].batch /\ m \notin DOMAIN net[c].answers
  BY CallTypes DEF Undecided
<1>1. PICK a : a = [n \in DOMAIN net[c].answers \cup {m} |-> IF n = m THEN answer ELSE net[c].answers[n]]
  OBVIOUS
<1>2. /\ a \in Answered(Mutations) /\ DOMAIN a = DOMAIN net[c].answers \cup {m} /\ a[m] = answer
      /\ \A n \in DOMAIN net[c].answers : a[n] = net[c].answers[n]
  <2>1. net[c].answers \in Answered(Mutations)
    BY CallTypes, Zenon
  <2>2. a \in Answered(Mutations)
    BY <1>0, <1>1, <2>1, OneMore, Zenon
  <2> QED BY <1>0, <1>1, <2>2
<1>3. PICK k : k = [net[c] EXCEPT !.answers = a]
  OBVIOUS
<1>4. /\ k \in CallRecords /\ k.answers = a /\ k.owner = net[c].owner /\ k.batch = net[c].batch
      /\ k.open = net[c].open
  BY <1>2, <1>3, CallTypes DEF CallRecords
<1>5. net' = [net EXCEPT ![c] = k]
  BY <1>1, <1>3, Types DEF Say
<1>6. net' \in [Calls -> CallRecords] /\ net'[c] = k /\ \A b \in Calls : b # c => net'[b] = net[b]
  BY <1>4, <1>5, Types
<1>7. \A b \in Calls : DOMAIN net[b].answers \subseteq Mutations
  <2>1. ASSUME NEW b \in Calls PROVE DOMAIN net[b].answers \subseteq Mutations
    <3>1. PICK T \in SUBSET Mutations : net[b].answers \in [T -> Answers]
      BY CallTypes DEF Answered
    <3> QED BY <3>1
  <2> QED BY <2>1
<1>8. ASSUME NEW b \in Calls PROVE Truth(net[b].answers)'
  <2>1. CASE b = c
    BY <1>0, <1>2, <1>4, <1>6, <1>7, <2>1 DEF IInv, CallOK, Truth
  <2>2. CASE b # c
    BY <1>6, <1>7, <2>2 DEF IInv, CallOK, Truth
  <2> QED BY <2>1, <2>2
<1>9. ASSUME NEW b \in Calls PROVE CallOK(b)'
  <2>1. \A e \in Calls : net'[e].owner = net[e].owner /\ net'[e].batch = net[e].batch /\ net'[e].open = net[e].open
    BY <1>4, <1>6
  <2>2. net[b].owner \in Drains => DOMAIN net'[b].answers \subseteq net[b].batch
    BY <1>0, <1>2, <1>4, <1>6 DEF IInv, CallOK
  <2> QED BY <1>8, <2>1, <2>2 DEF IInv, CallOK
<1>10. ASSUME NEW d \in Drains PROVE DrainOK(d)'
  <2>1. DOMAIN drain[d].answers \subseteq Mutations
    <3>1. PICK T \in SUBSET Mutations : drain[d].answers \in [T -> Answers]
      BY DrainTypes DEF Answered
    <3> QED BY <3>1
  <2> QED BY <2>1 DEF IInv, DrainOK, Truth
<1>11. SettledIsDecided'
  BY DEF IInv, SettledIsDecided
<1>12. TypeOK'
  BY <1>6, Types, Parts DEF TypeOK, Rows, Rowful, Sessions
<1>13. ASSUME Calm PROVE Calm'
  <2>1. alone => WritesStayVisible'
    BY <1>13 DEF IInv, SettledIsDecided, Calm, WritesStayVisible
  <2>2. \A d \in Cycles : BatchOK(d) => BatchOK(d)'
    BY DEF BatchOK
  <2> QED BY <1>13, <2>1, <2>2 DEF Calm
<1> QED BY <1>6, <1>9, <1>10, <1>11, <1>12, <1>13, Types DEF IInv

\* The four ways a mutation of a call is answered.
LEMMA ServerInv ==
  ASSUME IInv, NEW c \in Calls, NEW m \in Mutations,
         Replay(c, m) \/ Decide(c, m) \/ CrashHandler(c, m) \/ Postpone(c, m)
  PROVE  IInv'
<1>1. {"applied", "duplicate", "rejected", "later"} \subseteq Answers
  BY DEF Answers
<1>2. CASE Replay(c, m)
  <2>1. /\ m \in Undecided(c) /\ verdict[m] # "none" /\ Say(c, m, "duplicate")
        /\ UNCHANGED <<verdict, effects, device, account, drain, faults>>
    BY <1>2 DEF Replay, ledger
  <2> QED BY <1>1, <2>1, Types, SayInv
<1>3. CASE CrashHandler(c, m)
  <2>1. /\ m \in Undecided(c) /\ Say(c, m, "rejected")
        /\ UNCHANGED <<verdict, effects, device, account, drain, faults>>
    BY <1>3 DEF CrashHandler, ledger
  <2> QED BY <1>1, <2>1, Types, SayInv
<1>4. CASE Postpone(c, m)
  <2>1. /\ m \in Undecided(c) /\ Say(c, m, "later") /\ faults' \in 0 .. MaxFaults
        /\ UNCHANGED <<verdict, effects, device, account, drain>>
    BY <1>4, Types DEF Postpone, Fault, ledger
  <2> QED BY <1>1, <2>1, Types, SayInv
<1>5. CASE Decide(c, m)
  <2>1. m \in Undecided(c) /\ UNCHANGED <<device, account, drain, faults>>
    BY <1>5 DEF Decide
  <2>2. \/ Ledger!Apply(m) /\ Say(c, m, "applied")
        \/ Ledger!Refuse(m) /\ Say(c, m, "rejected")
    BY <1>5 DEF Decide
  <2>3. CASE Ledger!Apply(m) /\ Say(c, m, "applied")
    <3>1. /\ verdict[m] = "none" /\ verdict' = [verdict EXCEPT ![m] = "applied"]
          /\ effects' = [effects EXCEPT ![m] = effects[m] + 1]
      BY <2>3 DEF Ledger!Apply
    <3>2. verdict' \in [Mutations -> Ledger!Verdicts] /\ effects' \in [Mutations -> Nat]
      BY <3>1, Types DEF Ledger!Verdicts
    <3>3. \A n \in Mutations : verdict[n] # "none" => verdict'[n] = verdict[n]
      BY <3>1, Types
    <3>4. verdict'[m] # "none"
      BY <3>1, Types
    <3> QED BY <1>1, <2>1, <2>3, <3>2, <3>3, <3>4, Types, SayInv
  <2>4. CASE Ledger!Refuse(m) /\ Say(c, m, "rejected")
    <3>1. PICK v \in {"rejected", "conflict"} :
            verdict[m] = "none" /\ verdict' = [verdict EXCEPT ![m] = v] /\ effects' = effects
      BY <2>4 DEF Ledger!Refuse
    <3>2. verdict' \in [Mutations -> Ledger!Verdicts] /\ effects' \in [Mutations -> Nat]
      BY <3>1, Types DEF Ledger!Verdicts
    <3>3. \A n \in Mutations : verdict[n] # "none" => verdict'[n] = verdict[n]
      BY <3>1, Types
    <3> QED BY <1>1, <2>1, <2>4, <3>2, <3>3, Types, SayInv
  <2> QED BY <2>2, <2>3, <2>4
<1> QED BY <1>2, <1>3, <1>4, <1>5
-----------------------------------------------------------------------------
\* Steps that move only drains and calls.
LEMMA CallStepInv ==
  ASSUME IInv, UNCHANGED <<ledger, device, alone>>, faults' \in 0 .. MaxFaults,
         session' \in Sessions, session = "in" => session' = "in",
         drain' \in [Drains -> DrainRecords], net' \in [Calls -> CallRecords],
         \A c \in Calls : CallOK(c)', \A d \in Drains : DrainOK(d)',
         Calm /\ alone => /\ \A d \in Flushes : drain'[d].pc = "idle"
                          /\ \A d \in Cycles : BatchOK(d)'
  PROVE  IInv'
<1>. UNCHANGED <<verdict, effects, queue, old, local, cursor, alone>>
  BY DEF ledger, device
<1>1. TypeOK'
  BY Types, Parts DEF TypeOK, Rows, Rowful, Sessions
<1>2. SettledIsDecided'
  BY DEF IInv, SettledIsDecided
<1>3. Calm => Calm'
  BY DEF Calm, WritesStayVisible
<1> QED BY <1>1, <1>2, <1>3, Types DEF IInv

\* The batch leaves on a free call.
LEMMA SendInv == ASSUME IInv, NEW d \in Drains, Send(d) PROVE IInv'
<1>1. PICK c \in Calls :
        /\ drain[d].pc = "send" /\ ~net[c].open
        /\ net' = [net EXCEPT ![c] = [open |-> TRUE, owner |-> d, batch |-> drain[d].batch,
                                      answers |-> NoAnswers, sent |-> cursor]]
        /\ drain' = [drain EXCEPT ![d].pc = "wait", ![d].sent = cursor]
        /\ UNCHANGED <<ledger, device, account, faults>>
  BY DEF Send
<1>2. PICK q, k : /\ q = [drain[d] EXCEPT !.pc = "wait", !.sent = cursor]
                  /\ k = [open |-> TRUE, owner |-> d, batch |-> drain[d].batch,
                          answers |-> NoAnswers, sent |-> cursor]
  OBVIOUS
<1>3. q \in DrainRecords /\ q.pc = "wait" /\ q.batch = drain[d].batch
  BY <1>2, DrainTypes, Types DEF DrainRecords, Steps
<1>4. k \in CallRecords /\ k.open /\ k.owner = d /\ k.batch = drain[d].batch /\ k.answers = NoAnswers
  BY <1>2, DrainTypes, NoneAnswered, Types DEF CallRecords
<1>5. /\ drain' \in [Drains -> DrainRecords] /\ drain'[d] = q
      /\ \A e \in Drains : e # d => drain'[e] = drain[e]
  BY <1>1, <1>2, <1>3, Types
<1>6. /\ net' \in [Calls -> CallRecords] /\ net'[c] = k
      /\ \A b \in Calls : b # c => net'[b] = net[b]
  BY <1>1, <1>2, <1>4, Types
<1>7. UNCHANGED <<verdict, queue, session>>
  BY <1>1 DEF ledger, device, account
<1>8. ASSUME NEW b \in Calls PROVE CallOK(b)'
  <2>1. CASE b = c
    <3>1. \A e \in Calls : e # c => net'[e].owner # d
      BY <1>1, <1>6, Deaf
    <3>2. Truth(net[b].answers)'
      BY <1>4, <1>6, <2>1, NoneAnswered DEF Truth
    <3>3. DOMAIN net'[b].answers = {}
      BY <1>4, <1>6, <2>1, NoneAnswered
    <3> QED BY <1>3, <1>4, <1>5, <1>6, <2>1, <3>1, <3>2, <3>3 DEF CallOK
  <2>2. CASE b # c
    <3>1. net'[b] = net[b] /\ net[b].owner # d
      BY <1>1, <1>6, <2>2, Deaf
    <3>2. Truth(net[b].answers)'
      BY <1>7, <3>1 DEF IInv, CallOK, Truth
    <3> QED BY <1>1, <1>4, <1>5, <1>6, <3>1, <3>2 DEF IInv, CallOK
  <2> QED BY <2>1, <2>2
<1>9. ASSUME NEW e \in Drains PROVE DrainOK(e)'
  BY <1>3, <1>5, <1>7 DEF IInv, DrainOK, Truth
<1>10. ASSUME Calm, alone
       PROVE (\A e \in Flushes : drain'[e].pc = "idle") /\ (\A e \in Cycles : BatchOK(e)')
  <2>1. d \in Cycles /\ d \notin Flushes
    BY <1>1, <1>10, Lone, Types
  <2> QED BY <1>1, <1>3, <1>5, <1>7, <1>10, <2>1 DEF Calm, BatchOK, Drains
<1> QED BY <1>1, <1>5, <1>6, <1>7, <1>8, <1>9, <1>10, Types, CallStepInv DEF account

\* The phone gives a call up; the server may still have it.
LEMMA GiveUpInv == ASSUME IInv, NEW d \in Drains, GiveUp(d) PROVE IInv'
<1>1. /\ drain[d].pc \in {"send", "wait"} /\ faults' \in 0 .. MaxFaults
      /\ drain' = [drain EXCEPT ![d].pc = "failed"]
      /\ net' = [c \in Calls |-> IF net[c].owner = d THEN [net[c] EXCEPT !.owner = Nobody] ELSE net[c]]
      /\ UNCHANGED <<ledger, device, account>>
  BY Types DEF GiveUp, Fault, Move
<1>2. PICK q : q = [drain[d] EXCEPT !.pc = "failed"]
  OBVIOUS
<1>3. q \in DrainRecords /\ q.pc = "failed" /\ q.batch = drain[d].batch
  BY <1>2, DrainTypes DEF DrainRecords, Steps
<1>4. /\ drain' \in [Drains -> DrainRecords] /\ drain'[d] = q
      /\ \A e \in Drains : e # d => drain'[e] = drain[e]
  BY <1>1, <1>2, <1>3, Types
<1>5. ASSUME NEW c \in Calls
      PROVE  /\ net'[c] \in CallRecords /\ net'[c].answers = net[c].answers
             /\ net'[c].batch = net[c].batch /\ net'[c].open = net[c].open
             /\ net'[c].owner = IF net[c].owner = d THEN Nobody ELSE net[c].owner
  <2>1. /\ [net[c] EXCEPT !.owner = Nobody] \in CallRecords
        /\ [net[c] EXCEPT !.owner = Nobody].answers = net[c].answers
        /\ [net[c] EXCEPT !.owner = Nobody].batch = net[c].batch
        /\ [net[c] EXCEPT !.owner = Nobody].open = net[c].open
        /\ [net[c] EXCEPT !.owner = Nobody].owner = Nobody
    BY CallTypes DEF CallRecords
  <2> QED BY <1>1, <2>1, CallTypes
<1>6. net' \in [Calls -> CallRecords]
  BY <1>1, <1>5
<1>7. UNCHANGED <<verdict, queue, session>>
  BY <1>1 DEF ledger, device, account
<1>8. ASSUME NEW b \in Calls PROVE CallOK(b)'
  <2>1. Truth(net[b].answers)'
    BY <1>5, <1>7 DEF IInv, CallOK, Truth
  <2>2. CASE net[b].owner = d
    BY <1>5, <2>1, <2>2, Types DEF CallOK
  <2>3. CASE net[b].owner # d
    BY <1>4, <1>5, <2>1, <2>3, Types DEF IInv, CallOK
  <2> QED BY <2>2, <2>3
<1>9. ASSUME NEW e \in Drains PROVE DrainOK(e)'
  BY <1>3, <1>4, <1>7 DEF IInv, DrainOK, Truth
<1>10. ASSUME Calm, alone
       PROVE (\A e \in Flushes : drain'[e].pc = "idle") /\ (\A e \in Cycles : BatchOK(e)')
  <2>1. d \in Cycles /\ d \notin Flushes
    BY <1>1, <1>10, Lone, Types
  <2> QED BY <1>1, <1>3, <1>4, <1>7, <1>10, <2>1 DEF Calm, BatchOK, Drains
<1> QED BY <1>1, <1>4, <1>6, <1>7, <1>8, <1>9, <1>10, Types, CallStepInv DEF account

\* A call ends without anyone listening.
LEMMA UnheardInv ==
  ASSUME IInv, NEW c \in Calls, net[c].owner \notin Drains, Close(c),
         UNCHANGED <<ledger, device, account, drain, faults>>
  PROVE  IInv'
<1>1. /\ net' \in [Calls -> CallRecords] /\ net'[c].owner = Nobody /\ net'[c].answers = NoAnswers
      /\ \A b \in Calls : b # c => net'[b] = net[b]
  BY RestingOK, Types DEF Close
<1>2. UNCHANGED <<verdict, queue, session, alone>>
  BY DEF ledger, device, account
<1>3. ASSUME NEW b \in Calls PROVE CallOK(b)'
  <2>1. CASE b = c
    BY <1>1, <2>1, NoneAnswered, Types DEF CallOK, Truth
  <2>2. CASE b # c
    BY <1>1, <1>2, <2>2, Types DEF IInv, CallOK, Truth
  <2> QED BY <2>1, <2>2
<1>4. \A d \in Drains : DrainOK(d)'
  BY <1>2 DEF IInv, DrainOK, Truth
<1>5. Calm /\ alone => (\A e \in Flushes : drain'[e].pc = "idle") /\ (\A e \in Cycles : BatchOK(e)')
  BY <1>2 DEF Calm, BatchOK
<1> QED BY <1>1, <1>2, <1>3, <1>4, <1>5, Types, CallStepInv DEF account

\* A call ends, and the drain that waits for it goes on with its batch.
LEMMA HeardInv ==
  ASSUME IInv, NEW c \in Calls, NEW d \in Drains, net[c].owner = d, Close(c),
         NEW q \in DrainRecords, q.pc \in {"answered", "poisoned"}, q.batch = drain[d].batch,
         q.pc = "answered" => q.answers = net[c].answers,
         drain' = [drain EXCEPT ![d] = q], UNCHANGED <<ledger, device, account, faults>>
  PROVE  IInv'
<1>1. /\ net' \in [Calls -> CallRecords] /\ net'[c].owner = Nobody /\ net'[c].answers = NoAnswers
      /\ \A b \in Calls : b # c => net'[b] = net[b]
  BY RestingOK, Types DEF Close
<1>2. UNCHANGED <<verdict, queue, session, alone>>
  BY DEF ledger, device, account
<1>3. /\ drain' \in [Drains -> DrainRecords] /\ drain'[d] = q
      /\ \A e \in Drains : e # d => drain'[e] = drain[e]
  BY Types
<1>4. /\ drain[d].pc = "wait" /\ drain[d].batch = net[c].batch
      /\ \A b \in Calls : net[b].owner = d => b = c
      /\ Truth(net[c].answers) /\ DOMAIN net[c].answers \subseteq net[c].batch
  BY DEF IInv, CallOK
<1>5. ASSUME NEW b \in Calls PROVE CallOK(b)'
  <2>1. CASE b = c
    BY <1>1, <2>1, NoneAnswered, Types DEF CallOK, Truth
  <2>2. CASE b # c
    BY <1>1, <1>2, <1>3, <1>4, <2>2, Types DEF IInv, CallOK, Truth
  <2> QED BY <2>1, <2>2
<1>6. ASSUME NEW e \in Drains PROVE DrainOK(e)'
  BY <1>2, <1>3, <1>4 DEF IInv, DrainOK, Truth
<1>7. ASSUME Calm, alone
      PROVE (\A e \in Flushes : drain'[e].pc = "idle") /\ (\A e \in Cycles : BatchOK(e)')
  <2>1. d \in Cycles /\ d \notin Flushes
    BY <1>4, <1>7, Lone, Types
  <2> QED BY <1>2, <1>3, <1>4, <1>7, <2>1 DEF Calm, BatchOK, Drains
<1> QED BY <1>1, <1>2, <1>3, <1>5, <1>6, <1>7, Types, CallStepInv DEF account

\* The whole batch is answered.
LEMMA RespondInv == ASSUME IInv, NEW c \in Calls, Respond(c) PROVE IInv'
<1>1. Close(c) /\ UNCHANGED <<ledger, device, account, faults>>
  BY DEF Respond
<1>2. CASE net[c].owner \notin Drains
  BY <1>1, <1>2, UnheardInv DEF Respond
<1>3. CASE net[c].owner \in Drains
  <2>1. PICK d \in Drains : d = net[c].owner
    BY <1>3
  <2>2. PICK page : page = IF net[c].sent = NoCursor THEN NoCursor ELSE {m \in Mutations : verdict[m] = "applied"}
    OBVIOUS
  <2>3. page \in Page
    BY <2>2 DEF Page
  <2>4. PICK q : q = [drain[d] EXCEPT !.pc = "answered", !.answers = net[c].answers, !.page = page]
    OBVIOUS
  <2>5. drain' = [drain EXCEPT ![d] = q]
    BY <1>3, <2>1, <2>2, <2>4, Types DEF Respond
  <2>6. q \in DrainRecords /\ q.pc = "answered" /\ q.batch = drain[d].batch /\ q.answers = net[c].answers
    BY <2>3, <2>4, DrainTypes, CallTypes DEF DrainRecords, Steps
  <2> QED BY <1>1, <2>1, <2>5, <2>6, HeardInv
<1> QED BY <1>2, <1>3

\* The batch is refused.
LEMMA RefuseInv == ASSUME IInv, NEW c \in Calls, RefuseBatch(c) PROVE IInv'
<1>1. Close(c) /\ UNCHANGED <<ledger, device, account, faults>>
  BY DEF RefuseBatch
<1>2. CASE net[c].owner \notin Drains
  BY <1>1, <1>2, UnheardInv DEF RefuseBatch
<1>3. CASE net[c].owner \in Drains
  <2>1. PICK d \in Drains : d = net[c].owner
    BY <1>3
  <2>2. PICK q : q = [drain[d] EXCEPT !.pc = "poisoned"]
    OBVIOUS
  <2>3. drain' = [drain EXCEPT ![d] = q]
    BY <1>3, <2>1, <2>2, Types DEF RefuseBatch, Move
  <2>4. q \in DrainRecords /\ q.pc = "poisoned" /\ q.batch = drain[d].batch
    BY <2>2, DrainTypes DEF DrainRecords, Steps
  <2> QED BY <1>1, <2>1, <2>3, <2>4, HeardInv
<1> QED BY <1>2, <1>3

\* A call nobody waits for is gone.
LEMMA VanishInv == ASSUME IInv, NEW c \in Calls, Vanish(c) PROVE IInv'
BY UnheardInv, QueueAssumption DEF Vanish, Drains

\* The app is killed: the queue and what is on its way stay.
LEMMA AppCrashInv == ASSUME IInv, AppCrash PROVE IInv'
<1>1. /\ faults' \in 0 .. MaxFaults /\ drain' = [d \in Drains |-> Resting]
      /\ net' = [c \in Calls |-> [net[c] EXCEPT !.owner = Nobody]]
      /\ session' = IF session = "flushing" THEN "in" ELSE session
      /\ UNCHANGED <<ledger, device, alone>>
  BY Types DEF AppCrash, Fault
<1>2. drain' \in [Drains -> DrainRecords] /\ \A d \in Drains : drain'[d].pc = "idle"
  BY <1>1, RestingOK
<1>3. ASSUME NEW c \in Calls
      PROVE  net'[c] \in CallRecords /\ net'[c].owner = Nobody /\ net'[c].answers = net[c].answers
  <2>1. /\ [net[c] EXCEPT !.owner = Nobody] \in CallRecords
        /\ [net[c] EXCEPT !.owner = Nobody].answers = net[c].answers
        /\ [net[c] EXCEPT !.owner = Nobody].owner = Nobody
    BY CallTypes DEF CallRecords
  <2> QED BY <1>1, <2>1
<1>4. net' \in [Calls -> CallRecords]
  BY <1>1, <1>3
<1>5. UNCHANGED verdict /\ session' \in Sessions /\ (session = "in" => session' = "in")
  BY <1>1, Types DEF ledger, Sessions
<1>6. \A c \in Calls : CallOK(c)'
  BY <1>3, <1>5, Types DEF IInv, CallOK, Truth
<1>7. \A d \in Drains : DrainOK(d)' /\ BatchOK(d)'
  BY <1>2 DEF DrainOK, BatchOK
<1> QED BY <1>1, <1>2, <1>4, <1>5, <1>6, <1>7, Types, CallStepInv DEF Drains
-----------------------------------------------------------------------------
\* Every step keeps the invariant.
LEMMA NextInv == ASSUME IInv, [Next]_vars PROVE IInv'
<1>1. ASSUME NEW m \in Mutations, Enqueue(m) \/ Age(m) PROVE IInv'
  BY <1>1, EnqueueInv, AgeInv
<1>2. ASSUME NEW d \in Drains, DrainStep(d) PROVE IInv'
  BY <1>2, OpenInv, TakeInv, DrainEndsInv, MarkInv, SendInv, ReconcileInv, TransportInv,
     PoisonInv, FetchInv, CannotCallInv, ApplyPageInv DEF DrainStep
<1>3. ASSUME NEW d \in Drains, Background(d) \/ GiveUp(d) \/ FetchFails(d) PROVE IInv'
  BY <1>3, BackgroundInv, GiveUpInv, FetchFailsInv
<1>4. ASSUME NEW c \in Calls, Respond(c) \/ RefuseBatch(c) \/ Vanish(c) PROVE IInv'
  BY <1>4, RespondInv, RefuseInv, VanishInv
<1>5. ASSUME NEW c \in Calls, NEW m \in Mutations,
             Replay(c, m) \/ Decide(c, m) \/ CrashHandler(c, m) \/ Postpone(c, m)
      PROVE  IInv'
  BY <1>5, ServerInv
<1>6. ASSUME NEW d \in Flushes, Logout(d) PROVE IInv'
  BY <1>6, LogoutInv
<1>7. CASE AppCrash \/ Wipe \/ Login
  BY <1>7, AppCrashInv, WipeInv, LoginInv
<1>8. CASE UNCHANGED vars
  <2>1. UNCHANGED <<ledger, drain, net, session, alone, faults, queue, old, local, cursor>>
    BY <1>8 DEF vars, device, account
  <2>2. OneCycle /\ Calm /\ alone' =>
          /\ alone /\ session' = "in"
          /\ \A m \in Mutations :
               /\ queue[m].status \in {"pending", "inflight"} => queue'[m] = queue[m]
               /\ queue'[m].status # "gone" /\ Shown(m)'
    BY <2>1, StillShown DEF ledger, Calm
  <2> QED BY <2>1, <2>2, Types, DeviceStepInv
<1> QED BY <1>1, <1>2, <1>3, <1>4, <1>5, <1>6, <1>7, <1>8 DEF Next

\* The strengthened invariant, with any number of cycles and flushes at once.
THEOREM Invariant == Spec => []IInv
BY InitInv, NextInv, PTL DEF Spec

\* What the phone calls applied the server has decided, whatever kills, lost
\* answers, overlapping drains and wipes there are (reconcileMutationResult,
\* resetOrphanedInflight).
THEOREM SettledAreDecided == Spec => []Inv
<1>1. IInv => Inv
  BY DEF IInv, Inv
<1> QED BY <1>1, Invariant, PTL

\* With one cycle at a time, what the user has entered is on the screen as long
\* as no logout has begun.
THEOREM EntriesStayOnScreen == ASSUME OneCycle PROVE Spec => []WritesStayVisible
<1>1. IInv => WritesStayVisible
  BY DEF IInv, Calm, WritesStayVisible
<1> QED BY <1>1, Invariant, PTL

\* A drain changes only rows of the batch it holds.
LEMMA OnlyTheBatch ==
  ASSUME IInv, NEW d \in Drains,
         MarkInflight(d) \/ Reconcile(d) \/ TransportFailure(d) \/ PoisonFailure(d),
         NEW m \in Mutations, queue'[m] # queue[m]
  PROVE  /\ drain[d].pc \in {"mark", "answered", "failed", "poisoned"}
         /\ m \in drain[d].batch \/ (drain[d].pc = "mark" /\ m \in drain[d].expired)
<1>1. CASE MarkInflight(d)
  BY <1>1 DEF MarkInflight
<1>2. CASE Reconcile(d)
  BY <1>2 DEF Reconcile, IInv, DrainOK
<1>3. CASE TransportFailure(d)
  BY <1>3 DEF TransportFailure, Marked
<1>4. CASE PoisonFailure(d)
  BY <1>4 DEF PoisonFailure
<1> QED BY <1>1, <1>2, <1>3, <1>4

\* Before a logout, a step leaves the rows a lone cycle has settled.
LEMMA SettledStep ==
  ASSUME IInv, OneCycle, [Next]_vars, alone, NEW m \in Mutations,
         queue[m].status \in {"applied", "rejected", "dead"}
  PROVE  queue'[m].status = queue[m].status
<1>1. ASSUME NEW d \in Drains,
             MarkInflight(d) \/ Reconcile(d) \/ TransportFailure(d) \/ PoisonFailure(d)
      PROVE  queue'[m] = queue[m]
  <2>1. SUFFICES ASSUME queue'[m] # queue[m] PROVE FALSE
    OBVIOUS
  <2>2. /\ drain[d].pc \in {"mark", "answered", "failed", "poisoned"}
        /\ m \in drain[d].batch \/ (drain[d].pc = "mark" /\ m \in drain[d].expired)
    BY <1>1, <2>1, OnlyTheBatch
  <2>3. BatchOK(d)
    BY <2>2, Lone DEF IInv
  <2> QED BY <2>2, <2>3 DEF BatchOK
<1>2. ASSUME NEW d \in Drains, Open(d) PROVE queue'[m].status = queue[m].status
  <2>1. queue' = Marked(With("inflight"), "pending") /\ m \notin With("inflight")
    BY <1>2 DEF Open, With
  <2> QED BY <2>1, MarkedRows DEF Statuses
<1>3. ASSUME NEW n \in Mutations, Enqueue(n) PROVE queue'[m].status = queue[m].status
  BY <1>3, Types DEF Enqueue
<1>4. CASE Wipe
  BY <1>4 DEF Wipe, IInv, Calm
<1>5. CASE UNCHANGED queue
  BY <1>5
<1>6. \/ UNCHANGED queue \/ Wipe \/ \E n \in Mutations : Enqueue(n)
      \/ \E d \in Drains : Open(d) \/ MarkInflight(d) \/ Reconcile(d)
                           \/ TransportFailure(d) \/ PoisonFailure(d)
  <2>1. \A n \in Mutations : Age(n) => UNCHANGED queue
    BY DEF Age
  <2>2. \A d \in Drains : Background(d) \/ GiveUp(d) \/ FetchFails(d) \/ TakeDrainable(d) \/ DrainEnds(d)
                          \/ Send(d) \/ Fetch(d) \/ CannotCall(d) \/ ApplyPage(d) => UNCHANGED queue
    BY DEF Background, GiveUp, FetchFails, TakeDrainable, DrainEnds, Send, Fetch, CannotCall, ApplyPage, device
  <2>3. \A c \in Calls : Respond(c) \/ RefuseBatch(c) \/ Vanish(c) => UNCHANGED queue
    BY DEF Respond, RefuseBatch, Vanish, device
  <2>4. \A c \in Calls, n \in Mutations :
          Replay(c, n) \/ Decide(c, n) \/ CrashHandler(c, n) \/ Postpone(c, n) => UNCHANGED queue
    BY DEF Replay, Decide, CrashHandler, Postpone, device
  <2>5. (\A d \in Flushes : Logout(d) => UNCHANGED queue) /\ (AppCrash \/ Login => UNCHANGED queue)
    BY DEF Logout, AppCrash, Login, device
  <2>6. UNCHANGED vars => UNCHANGED queue
    BY DEF vars, device
  <2> QED BY <2>1, <2>2, <2>3, <2>4, <2>5, <2>6 DEF Next, DrainStep
<1> QED BY <1>1, <1>2, <1>3, <1>4, <1>5, <1>6

\* With one cycle at a time, a result is never taken back as long as no logout
\* has begun.
THEOREM ResultsStay == ASSUME OneCycle PROVE Spec => SettledStaysSettled
<1>1. IInv /\ [Next]_vars =>
        [alone => \A m \in Mutations : queue[m].status \in {"applied", "rejected", "dead"}
                    => queue'[m].status = queue[m].status]_vars
  BY SettledStep
<1> QED BY <1>1, Invariant, PTL DEF Spec, SettledStaysSettled
=============================================================================
