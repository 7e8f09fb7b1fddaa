-------------------------- MODULE DeltaPull_proofs --------------------------
(***************************************************************************)
(* Proofs about DeltaPull, for every set of entities and rows, any number  *)
(* of open transactions, and any page size, lag and bounds: the delta pull *)
(* leaves no gap behind its watermarks, and what a tombstone has passed    *)
(* the phone does not hold.                                                *)
(***************************************************************************)
EXTENDS DeltaPull, TLAPS, FiniteSetTheorems, WellFoundedInduction

ServerRow == [mod : Times, version : Versions, alive : BOOLEAN]
ServerProgress == [phase : Phases, cursor : Rows \cup {0}, started : Times]
LocalProgress == [phase : Phases, cursor : Rows \cup {0}]
DeadLetter == [version : Versions, attempts : Nat]
Perms == [version : Nat, view : SUBSET Entities]
Phones == [pc : Steps, entity : Entities \cup {0}, rows : SUBSET (Rows \X Versions), more : BOOLEAN,
           last : Rows \cup {0}, next : Cursors \cup {NoCursor}, cut : Int, view : SUBSET Entities,
           todo : SUBSET Entities, deletes : SUBSET Rows, seen : Perms]

TypesOK ==
  /\ clock \in 1 .. MaxClock /\ events \in 0 .. MaxEvents
  /\ row \in [Rows -> ServerRow] /\ tomb \in [Rows -> Times] /\ txn \in [Writers -> Times]
  /\ granted \in Perms /\ snapshot \in Perms /\ meta \in Perms
  /\ progress \in [Entities -> ServerProgress] /\ lprog \in [Entities -> LocalProgress]
  /\ told \in [Rows -> Versions]
  /\ cursor \in Cursors \cup {NoCursor} /\ phone \in Phones
  /\ owed \in SUBSET Entities /\ late \in SUBSET Rows

\* The phone has been told of the row as it is committed; the entity of the dump
\* page on its way, and the position that page starts from; the place the
\* tombstones of a new cursor start from; a pull that has its cutoff.
Told(r) == told[r] = row[r].version
InFlight(e) == phone.pc = "coldpage" /\ phone.entity = e
After(e) == IF e \in Resumed THEN lprog[e].cursor ELSE 0
Anchor == <<Oldest(Started), 0>>
Pulling == phone.pc \in {"read", "page"}
Complete == \A e \in Entities : progress[e].phase = "completed"

\* Nothing is stamped later than now.
TimesOK ==
  /\ \A w \in Writers : txn[w] <= clock
  /\ \A r \in Rows : row[r].mod <= clock /\ tomb[r] <= clock
  /\ \A e \in Entities : progress[e].started <= clock

\* A row that exists has no tombstone.
RowsOK == \A r \in Rows :
  /\ row[r].alive => row[r].version # 0 /\ tomb[r] = 0
  /\ row[r].version = 0 => tomb[r] = 0

\* A version of the permissions names one view; the phone never knows a version
\* the server has not reached.
PermsOK ==
  /\ granted.version >= 1 /\ snapshot.version >= 1
  /\ snapshot.version <= granted.version /\ meta.version <= snapshot.version
  /\ phone.seen.version <= snapshot.version
  /\ \A p, q \in {granted, snapshot, meta, phone.seen, NoMeta} : p.version = q.version => p = q
  /\ phone.pc \in {"cold", "coldpage", "stamp"} => phone.seen.version >= 1
  /\ phone.pc \in {"push", "pull", "read", "page"} => meta.version >= 1
  /\ Pulling /\ meta.version = granted.version => phone.view = meta.view

\* A cursor exists only after the cold start, which it ends.
CursorOK ==
  /\ phone.pc \in {"cold", "coldpage"} => cursor = NoCursor
  /\ phone.pc \in {"stamp", "push", "pull", "read", "page"} => cursor # NoCursor
  /\ Pulling => phone.next # NoCursor
  /\ cursor # NoCursor => Resumed = {} /\ Complete
  /\ ~Pulling /\ phone.pc # "coldpage" => phone.rows = {}
  /\ phone.pc # "page" => phone.deletes = {}

\* The two halves of the cold start's progress: the phone is in the middle of
\* at most one entity, never past the server, and a page on its way is the one
\* the server's progress row has just been saved for.
DumpOK ==
  /\ \A e, f \in Resumed : e = f
  /\ \A e \in Entities : progress[e].phase = "none" => progress[e].cursor = 0
  /\ \A e \in Resumed : progress[e].phase # "none"
                        /\ (progress[e].phase = "completed" \/ lprog[e].cursor <= progress[e].cursor)
  /\ \A e \in Entities \ owed : e \in Resumed \/ InFlight(e) \/ progress[e].phase # "in_progress"

PageOK == phone.pc = "coldpage" =>
  /\ phone.entity = 0 => phone.rows = {} /\ phone.next # NoCursor /\ Resumed = {}
  /\ phone.next # NoCursor => phone.next = Anchors(progress) /\ Complete
  /\ phone.entity # 0 =>
        /\ Resumed \subseteq {phone.entity}
        /\ progress[phone.entity].phase = IF phone.more THEN "in_progress" ELSE "completed"
        /\ phone.more => progress[phone.entity].cursor = phone.last /\ After(phone.entity) <= phone.last
  /\ \A r \in Rows : In(phone.rows, r) => EntityOf[r] = phone.entity /\ After(phone.entity) < r
                                          /\ (phone.more => r <= phone.last)

\* What the dump has gone past and was written before it began has arrived, is
\* in the page on its way, or will be asked for again.
DumpedOK == \A r \in Rows :
  EntityOf[r] \notin owed /\ Dumped(r) /\ row[r].alive /\ r \notin late
    /\ row[r].mod < progress[EntityOf[r]].started =>
        \/ Told(r)
        \/ InFlight(EntityOf[r]) /\ After(EntityOf[r]) < r /\ <<r, row[r].version>> \in phone.rows
        \/ EntityOf[r] \in Resumed /\ lprog[EntityOf[r]].cursor < r /\ ~InFlight(EntityOf[r])

\* A page has one version of a row, and no deleted row; the entities still to be read have none.
PageRowsOK ==
  /\ \A r \in Rows : <<r, 0>> \notin phone.rows
  /\ \A r \in Rows : \A v, u \in Versions : <<r, v>> \in phone.rows /\ <<r, u>> \in phone.rows => v = u
  /\ phone.pc = "read" => \A r \in Rows : In(phone.rows, r) => EntityOf[r] \notin phone.todo

\* The cutoff is older than every open transaction, and the positions read so
\* far are older than the cutoff.
CutOK == Pulling =>
  /\ phone.cut < clock
  /\ \A w \in Writers : txn[w] # 0 => phone.cut <= txn[w]
  /\ \A e \in Entities : phone.next.e[e] = cursor.e[e] \/ phone.next.e[e][1] < phone.cut
  /\ phone.next.t = cursor.t \/ phone.next.t[1] < phone.cut
  /\ phone.pc = "read" => phone.next.t = cursor.t

\* A watermark stands at its anchor or behind every open transaction.
Behind(p, a) == p = a \/ (p[1] < clock /\ \A w \in Writers : txn[w] # 0 => p[1] < txn[w])
MarksOK == cursor # NoCursor =>
  /\ \A e \in Entities : Behind(cursor.e[e], <<progress[e].started, 0>>)
  /\ Behind(cursor.t, Anchor)

\* A row that was served and has changed since is one the pull serves again, or
\* serves after the cold start.
StaleOK ==
  /\ Pulling => \A r \in Rows : In(phone.rows, r) =>
       /\ row[r].alive => \/ <<r, row[r].version>> \in phone.rows \/ r \in late
                          \/ phone.cut <= row[r].mod /\ Before(cursor.e[EntityOf[r]], At(r))
                             /\ progress[EntityOf[r]].started <= row[r].mod
       /\ tomb[r] # 0 => r \in late \/ (phone.cut <= tomb[r] /\ Before(cursor.t, Grave(r)))
  /\ phone.pc = "coldpage" => \A r \in Rows : In(phone.rows, r) /\ row[r].alive =>
       <<r, row[r].version>> \in phone.rows \/ r \in late \/ progress[EntityOf[r]].started <= row[r].mod

\* No gap behind the watermarks of the page in hand.
NextOK == Pulling => \A r \in Rows :
  row[r].alive /\ UpTo(At(r), phone.next.e[EntityOf[r]]) /\ ~Excused(r) =>
     Told(r) \/ <<r, row[r].version>> \in phone.rows

\* Rows the phone was told of came from a dump that has gone past them, and those
\* with a tombstone older than every dump are not among them.
ToldOK == \A r \in Rows : told[r] # 0 =>
  IF EntityOf[r] \in Resumed THEN r <= lprog[EntityOf[r]].cursor ELSE Dumped(r)
OldTombs == \A r \in Rows :
  tomb[r] # 0 /\ r \notin late /\ Started # {} /\ tomb[r] < Oldest(Started) =>
    told[r] = 0 /\ ~In(phone.rows, r)

\* What the tombstone watermark has passed is gone, unless the tombstone was
\* out of view, or the permissions have changed since.
Passed == cursor # NoCursor => \A r \in Rows :
  tomb[r] # 0 /\ UpTo(Grave(r), cursor.t) /\ r \notin late =>
    told[r] = 0 \/ EntityOf[r] \notin meta.view \/ granted.version > meta.version
DeletesOK ==
  /\ \A r \in phone.deletes : tomb[r] # 0
  /\ phone.pc = "page" => \A r \in Rows :
        tomb[r] # 0 /\ r \notin late /\ UpTo(Grave(r), phone.next.t) =>
          UpTo(Grave(r), cursor.t) \/ r \in phone.deletes \/ EntityOf[r] \notin phone.view

\* The tombstones are at their anchor when the permissions are stamped anew.
StampOK ==
  /\ phone.pc = "stamp" => cursor.t = Anchor \/ phone.seen = meta
  /\ cursor # NoCursor /\ meta.version = 0 => cursor.t = Anchor

\* No gap in what the phone was told behind the stored watermarks.
CursorGap == cursor # NoCursor => \A r \in Rows :
  row[r].alive /\ UpTo(At(r), cursor.e[EntityOf[r]]) /\ ~Excused(r) => Told(r)

\* The cold start and the pull: what the phone is told.
IInv ==
  /\ TypesOK /\ TimesOK /\ RowsOK /\ PermsOK /\ CursorOK /\ DumpOK /\ PageOK /\ PageRowsOK
  /\ CutOK /\ MarksOK /\ StaleOK /\ NextOK /\ DumpedOK /\ CursorGap
  /\ ToldOK /\ OldTombs /\ Passed /\ DeletesOK /\ StampOK

\* The apply: what the phone was told is in its table or in its dead letters,
\* but for the rows excepted by name; a row a page passed over is one the phone
\* was told of.
KeptOK ==
  /\ local \in [Rows -> Versions] /\ dlq \in [Rows -> DeadLetter]
  /\ (queued \subseteq Rows) /\ (revived \subseteq Rows) /\ (spared \subseteq Rows)
  /\ \A r \in Rows : r \in revived \cup spared \/ Has(r, told[r])
  /\ \A r \in spared : told[r] # 0
-----------------------------------------------------------------------------
(* Data: least and greatest elements, keyset order, first pages. *)

\* The constants, as the proofs use them.
LEMMA Constants ==
  /\ (Entities \subseteq Nat) /\ 0 \notin Entities /\ Entities # {} /\ IsFiniteSet(Entities)
  /\ (Rows \subseteq Nat) /\ 0 \notin Rows /\ IsFiniteSet(Rows) /\ (Initial \subseteq Rows)
  /\ EntityOf \in [Rows -> Entities] /\ PageSize \in Nat /\ PageSize >= 1
  /\ Lag \in Nat /\ Lag >= 1 /\ MaxVersion \in Nat /\ MaxVersion >= 1
  /\ MaxClock \in Nat /\ MaxClock >= 1 /\ NoCursor \notin Cursors
BY PullAssumption

\* A set of integers that is bounded below has an oldest element.
LEMMA OldestIsLeast ==
  ASSUME NEW S \in SUBSET Int, S # {}, NEW b \in Int, \A s \in S : b <= s
  PROVE  Oldest(S) \in S /\ \A u \in S : Oldest(S) <= u
<1> DEFINE T == {n \in Nat : n + b \in S}
<1>1. PICK s \in S : TRUE  OBVIOUS
<1>2. s - b \in T  BY <1>1
<1>3. (T \subseteq Nat) /\ T # {}  BY <1>2
<1>4. PICK m \in T : \A n \in T : ~(<<n, m>> \in OpToRel(<, Nat))
  <2> HIDE DEF T
  <2> QED BY <1>3, NatLessThanWellFounded, WFMin
<1>5. \A n \in T : ~(n < m)  BY <1>4 DEF OpToRel
<1>6. \A u \in S : m + b <= u
  <2> TAKE u \in S
  <2>1. u - b \in T  OBVIOUS
  <2> QED BY <1>5, <2>1
<1> QED BY <1>4, <1>6 DEF Oldest

\* A strict order on a finite set has a maximal element.
LEMMA Maximal ==
  ASSUME NEW C, IsFiniteSet(C), C # {}, NEW R,
         \A x \in C : <<x, x>> \notin R,
         \A x, y, z \in C : <<x, y>> \in R /\ <<y, z>> \in R => <<x, z>> \in R
  PROVE  \E x \in C : \A y \in C : <<x, y>> \notin R
<1> DEFINE Above(x) == {y \in C : <<x, y>> \in R}
           T == {Above(x) : x \in C}
<1>1. T # {} /\ (T \subseteq FiniteSubsetsOf(C))
  <2>1. \A x \in C : Above(x) \in SUBSET C  OBVIOUS
  <2>2. \A x \in C : IsFiniteSet(Above(x))
    <3> TAKE x \in C
    <3> HIDE DEF Above
    <3> QED BY <2>1, FS_Subset
  <2> HIDE DEF Above
  <2> QED BY <2>1, <2>2 DEF FiniteSubsetsOf
<1>2. PICK A \in T : \A B \in T : ~(<<B, A>> \in StrictSubsetOrdering(C))
  <2> HIDE DEF T
  <2> QED BY <1>1, FS_StrictSubsetOrderingWellFounded, WFMin
<1>3. PICK x \in C : A = Above(x)  OBVIOUS
<1>4. ASSUME NEW y \in C, <<x, y>> \in R  PROVE FALSE
  <2>1. Above(y) \subseteq Above(x)  BY <1>4
  <2>2. y \in Above(x) /\ y \notin Above(y)  BY <1>4
  <2>3. <<Above(y), Above(x)>> \in StrictSubsetOrdering(C)
    BY <2>1, <2>2 DEF StrictSubsetOrdering
  <2> QED BY <1>2, <1>3, <2>3
<1> QED BY <1>4

\* The order of a keyset.
LEMMA KeysetOrder ==
  /\ \A p \in Pos : ~Before(p, p)
  /\ \A p, q, s \in Pos : Before(p, q) /\ Before(q, s) => Before(p, s)
  /\ \A p, q \in Pos : p = q \/ Before(p, q) \/ Before(q, p)
  /\ \A p, q, s \in Pos : UpTo(p, q) /\ UpTo(q, s) => UpTo(p, s)
<1> (Rows \cup {0}) \subseteq Int  BY Constants
<1>1. \A p \in Pos : ~Before(p, p)  BY DEF Before, Pos
<1>2. \A p, q, s \in Pos : Before(p, q) /\ Before(q, s) => Before(p, s)  BY DEF Before, Pos
<1>3. \A p, q \in Pos : p = q \/ Before(p, q) \/ Before(q, p)
  <2> SUFFICES ASSUME NEW p \in Pos, NEW q \in Pos, ~Before(p, q), ~Before(q, p)  PROVE p = q
    OBVIOUS
  <2>1. p[1] = q[1] /\ p[2] = q[2]  BY DEF Before, Pos
  <2> QED BY <2>1 DEF Pos
<1> QED BY <1>1, <1>2, <1>3 DEF UpTo

\* The last element of a page, in an order of positions that name their row.
LEMMA LastIsGreatest ==
  ASSUME NEW C \in SUBSET Rows, C # {}, NEW pos, \A r \in C : pos[r] \in Pos
  PROVE  Last(C, pos) \in C /\ \A q \in C : UpTo(pos[q], pos[Last(C, pos)])
<1> DEFINE R == {x \in C \X C : Before(pos[x[1]], pos[x[2]])}
<1>1. IsFiniteSet(C)  BY Constants, FS_Subset
<1>2. \A x, y \in C : <<x, y>> \in R <=> Before(pos[x], pos[y])  OBVIOUS
<1>3. PICK x \in C : \A y \in C : <<x, y>> \notin R
  <2>1. \A u \in C : <<u, u>> \notin R  BY <1>2, KeysetOrder
  <2>2. \A u, v, w \in C : <<u, v>> \in R /\ <<v, w>> \in R => <<u, w>> \in R
    <3> HIDE DEF R
    <3> QED BY <1>2, KeysetOrder
  <2> HIDE DEF R
  <2> QED BY <1>1, <2>1, <2>2, Maximal
<1>4. \A q \in C : UpTo(pos[q], pos[x])
  <2> HIDE DEF R
  <2> QED BY <1>2, <1>3, KeysetOrder DEF UpTo
<1> QED BY <1>4 DEF Last

\* The last element of a page by id.
LEMMA LastIdIsGreatest ==
  ASSUME NEW C \in SUBSET Rows, C # {}
  PROVE  LastId(C) \in C /\ \A q \in C : q <= LastId(C)
<1> DEFINE R == {x \in C \X C : x[1] < x[2]}
<1>1. IsFiniteSet(C)  BY Constants, FS_Subset
<1>2. \A x, y \in C : <<x, y>> \in R <=> x < y  OBVIOUS
<1>3. C \subseteq Int  BY Constants
<1>4. PICK x \in C : \A y \in C : <<x, y>> \notin R
  <2>1. \A u \in C : <<u, u>> \notin R  BY <1>2, <1>3
  <2>2. \A u, v, w \in C : <<u, v>> \in R /\ <<v, w>> \in R => <<u, w>> \in R
    <3> HIDE DEF R
    <3> QED BY <1>2, <1>3
  <2> HIDE DEF R
  <2> QED BY <1>1, <2>1, <2>2, Maximal
<1>5. \A q \in C : q <= x
  <2> HIDE DEF R
  <2> TAKE q \in C
  <2>1. q \in Int /\ x \in Int  BY <1>3
  <2>2. ~(x < q)  BY <1>2, <1>4
  <2> QED BY <2>1, <2>2
<1> QED BY <1>5 DEF LastId

\* A page in keyset order takes what comes before anything it takes.
LEMMA FirstIsClosed ==
  ASSUME NEW C \in SUBSET Rows, NEW pos, \A r \in C : pos[r] \in Pos,
         NEW r \in First(C, pos), NEW q \in C, UpTo(pos[q], pos[r])
  PROVE  q \in First(C, pos) \/ pos[q] = pos[r]
<1> SUFFICES ASSUME pos[q] # pos[r]  PROVE q \in First(C, pos)
  OBVIOUS
<1>1. Before(pos[q], pos[r])  BY DEF UpTo
<1> DEFINE A(x) == {y \in C : Before(pos[y], pos[x])}
<1>2. r \in C /\ Cardinality(A(r)) < PageSize  BY DEF First
<1>3. A(q) \subseteq A(r)  BY <1>1, <1>2, KeysetOrder
<1>4. IsFiniteSet(C) /\ IsFiniteSet(A(r))  BY Constants, FS_Subset
<1>5. Cardinality(A(q)) <= Cardinality(A(r)) /\ Cardinality(A(q)) \in Nat /\ Cardinality(A(r)) \in Nat
  <2> HIDE DEF A
  <2> QED BY <1>3, <1>4, FS_Subset, FS_CardinalityType
<1>6. Cardinality(A(q)) < PageSize
  <2> HIDE DEF A
  <2> QED BY <1>2, <1>5, Constants
<1> QED BY <1>6 DEF First

\* A page by id takes what comes before anything it takes, and is empty only
\* when there is nothing to serve.
LEMMA FirstByIdIsClosed ==
  ASSUME NEW C \in SUBSET Rows
  PROVE  /\ (FirstById(C) \subseteq C)
         /\ \A r \in FirstById(C), q \in C : q <= r => q \in FirstById(C)
         /\ C # {} => FirstById(C) # {}
<1> DEFINE A(x) == {y \in C : y < x}
<1>0. C \subseteq Int  BY Constants
<1>1. IsFiniteSet(C)  BY Constants, FS_Subset
<1>2. ASSUME NEW r \in FirstById(C), NEW q \in C, q <= r  PROVE q \in FirstById(C)
  <2>1. r \in C /\ Cardinality(A(r)) < PageSize  BY DEF FirstById
  <2>2. A(q) \subseteq A(r)
    <3> SUFFICES ASSUME NEW y \in C, y < q  PROVE y < r
      OBVIOUS
    <3> QED BY <1>0, <1>2, <2>1
  <2>3. IsFiniteSet(A(r))  BY <1>1, FS_Subset
  <2>4. Cardinality(A(q)) <= Cardinality(A(r)) /\ Cardinality(A(q)) \in Nat /\ Cardinality(A(r)) \in Nat
    <3> HIDE DEF A
    <3> QED BY <1>1, <2>2, <2>3, FS_Subset, FS_CardinalityType
  <2>5. Cardinality(A(q)) < PageSize
    <3> HIDE DEF A
    <3> QED BY <2>1, <2>4, Constants
  <2> QED BY <2>5 DEF FirstById
<1>3. ASSUME C # {}  PROVE FirstById(C) # {}
  <2> DEFINE R == {x \in C \X C : x[2] < x[1]}
  <2>1. \A x, y \in C : <<x, y>> \in R <=> y < x  OBVIOUS
  <2>2. PICK x \in C : \A y \in C : <<x, y>> \notin R
    <3>1. \A u \in C : <<u, u>> \notin R  BY <2>1, <1>0
    <3>2. \A u, v, w \in C : <<u, v>> \in R /\ <<v, w>> \in R => <<u, w>> \in R
      <4> HIDE DEF R
      <4> QED BY <2>1, <1>0
    <3> HIDE DEF R
    <3> QED BY <1>1, <1>3, <3>1, <3>2, Maximal
  <2>3. A(x) = {}
    <3> HIDE DEF R
    <3> QED BY <2>1, <2>2
  <2>4. Cardinality(A(x)) = 0  BY <2>3, FS_EmptySet
  <2> HIDE DEF A
  <2>5. Cardinality(A(x)) < PageSize  BY <2>4, Constants
  <2> QED BY <2>2, <2>5 DEF FirstById, A
<1>4. FirstById(C) \subseteq C  BY DEF FirstById
<1> QED BY <1>2, <1>3, <1>4

(* Types and frames. *)

\* The types of the state, now and after a step.
LEMMA Types ==
  ASSUME TypesOK
  PROVE  /\ clock \in 1 .. MaxClock /\ events \in 0 .. MaxEvents
         /\ row \in [Rows -> ServerRow] /\ tomb \in [Rows -> Times] /\ txn \in [Writers -> Times]
         /\ granted \in Perms /\ snapshot \in Perms /\ meta \in Perms
         /\ progress \in [Entities -> ServerProgress] /\ lprog \in [Entities -> LocalProgress]
         /\ told \in [Rows -> Versions]
         /\ cursor \in Cursors \cup {NoCursor} /\ phone \in Phones
         /\ owed \in SUBSET Entities /\ late \in SUBSET Rows
BY DEF TypesOK

LEMMA TypesNext ==
  ASSUME clock' \in 1 .. MaxClock, events' \in 0 .. MaxEvents,
         row' \in [Rows -> ServerRow], tomb' \in [Rows -> Times], txn' \in [Writers -> Times],
         granted' \in Perms, snapshot' \in Perms, meta' \in Perms,
         progress' \in [Entities -> ServerProgress], lprog' \in [Entities -> LocalProgress],
         told' \in [Rows -> Versions],
         cursor' \in Cursors \cup {NoCursor}, phone' \in Phones,
         owed' \in SUBSET Entities, late' \in SUBSET Rows
  PROVE  TypesOK'
BY DEF TypesOK

\* The fields of the state's records.
LEMMA Fields ==
  ASSUME TypesOK
  PROVE  /\ \A r \in Rows : row[r].mod \in Nat /\ row[r].version \in Versions /\ row[r].alive \in BOOLEAN
                            /\ tomb[r] \in Nat /\ At(r) \in Pos /\ Grave(r) \in Pos
                            /\ At(r)[1] = row[r].mod /\ At(r)[2] = r /\ Grave(r)[1] = tomb[r] /\ Grave(r)[2] = r
         /\ \A e \in Entities : progress[e].started \in Nat /\ progress[e].cursor \in Rows \cup {0}
                                /\ lprog[e].cursor \in Rows \cup {0}
                                /\ progress[e].phase \in Phases /\ lprog[e].phase \in Phases
         /\ \A w \in Writers : txn[w] \in Nat
         /\ clock \in Nat /\ clock >= 1 /\ (Rows \cup {0}) \subseteq Nat
<1>1. \A r \in Rows : row[r] \in ServerRow /\ tomb[r] \in Times  BY Types
<1>2. \A r \in Rows : row[r].mod \in Nat /\ row[r].version \in Versions /\ row[r].alive \in BOOLEAN /\ tomb[r] \in Nat
  BY <1>1, Constants DEF ServerRow, Times
<1>3. \A r \in Rows : At(r) \in Pos /\ Grave(r) \in Pos
                      /\ At(r)[1] = row[r].mod /\ At(r)[2] = r /\ Grave(r)[1] = tomb[r] /\ Grave(r)[2] = r
  BY <1>2 DEF At, Grave, Pos
<1>4. \A e \in Entities : progress[e] \in ServerProgress /\ lprog[e] \in LocalProgress  BY Types
<1>5. \A e \in Entities : progress[e].started \in Nat /\ progress[e].cursor \in Rows \cup {0}
                          /\ lprog[e].cursor \in Rows \cup {0}
                          /\ progress[e].phase \in Phases /\ lprog[e].phase \in Phases
  BY <1>4, Constants DEF ServerProgress, LocalProgress, Times
<1>6. \A w \in Writers : txn[w] \in Nat  BY Types, Constants DEF Times
<1>7. clock \in Nat /\ clock >= 1  BY Types, Constants
<1>8. (Rows \cup {0}) \subseteq Nat  BY Constants
<1> QED BY <1>2, <1>3, <1>5, <1>6, <1>7, <1>8

\* The fields of the phone.
LEMMA PhoneFields ==
  ASSUME TypesOK
  PROVE  /\ phone.pc \in Steps /\ phone.entity \in Entities \cup {0} /\ (phone.rows \subseteq Rows \X Versions)
         /\ phone.more \in BOOLEAN /\ phone.last \in Rows \cup {0} /\ phone.next \in Cursors \cup {NoCursor}
         /\ phone.cut \in Int /\ (phone.view \subseteq Entities) /\ (phone.todo \subseteq Entities)
         /\ (phone.deletes \subseteq Rows) /\ phone.seen \in Perms
BY Types DEF Phones

\* The positions of a cursor.
LEMMA Marks ==
  ASSUME NEW c \in Cursors \cup {NoCursor}, c # NoCursor
  PROVE  c \in Cursors /\ c.e \in [Entities -> Pos] /\ c.t \in Pos
BY DEF Cursors

\* The starts of the dumps: when every dump is done they are all of them, and
\* the anchor of the tombstones is the oldest.
LEMMA Starts ==
  ASSUME TypesOK
  PROVE  /\ Started \in SUBSET Nat
         /\ Started # {} => Oldest(Started) \in Started /\ \A u \in Started : Oldest(Started) <= u
         /\ Complete => Started = {progress[e].started : e \in Entities} /\ Started # {}
                        /\ Anchors(progress).t = Anchor
         /\ Anchors(progress).e = [e \in Entities |-> <<progress[e].started, 0>>]
<1>1. Started \in SUBSET Nat  BY Fields DEF Started
<1>2. Started # {} => Oldest(Started) \in Started /\ \A u \in Started : Oldest(Started) <= u
  <2>1. Started \in SUBSET Int /\ \A u \in Started : 0 <= u  BY <1>1
  <2> QED BY <2>1, OldestIsLeast
<1>3. ASSUME Complete  PROVE Started = {progress[e].started : e \in Entities} /\ Started # {}
  <2>1. \A e \in Entities : progress[e].phase # "none"  BY <1>3 DEF Complete
  <2>2. Started = {progress[e].started : e \in Entities}  BY <2>1 DEF Started
  <2> QED BY <2>2, Constants
<1>4. Complete => Anchors(progress).t = Anchor  BY <1>3 DEF Anchors, Anchor
<1> QED BY <1>1, <1>2, <1>3, <1>4 DEF Anchors

\* What a step that leaves the tables and the cycle alone keeps.
LEMMA Frame ==
  ASSUME IInv, UNCHANGED <<row, tomb, progress, told, lprog, cursor, phone, owed, late>>
  PROVE  /\ RowsOK' /\ CursorOK' /\ DumpOK' /\ PageOK' /\ PageRowsOK' /\ StaleOK' /\ NextOK'
         /\ DumpedOK' /\ CursorGap' /\ ToldOK' /\ OldTombs' /\ DeletesOK'
<1> USE DEF IInv
<1>1. Resumed' = Resumed /\ Started' = Started /\ (Complete' <=> Complete) /\ (Pulling' <=> Pulling)
  BY DEF Resumed, Started, Complete, Pulling
<1>2. \A r \in Rows : At(r)' = At(r) /\ Grave(r)' = Grave(r) /\ (Dumped(r)' <=> Dumped(r))
                      /\ (Told(r)' <=> Told(r)) /\ (Excused(r)' <=> Excused(r))
  BY DEF At, Grave, Dumped, Told, Excused
<1>3. \A e \in Entities \cup {0} : (InFlight(e)' <=> InFlight(e)) /\ After(e)' = After(e)
  BY <1>1 DEF InFlight, After
<1>4. RowsOK'  BY DEF RowsOK
<1>5. CursorOK'  BY <1>1 DEF CursorOK
<1>6. DumpOK'  BY <1>1, <1>3 DEF DumpOK
<1>7. PageOK'  BY <1>1, <1>3 DEF PageOK, After
<1>8. PageRowsOK'  BY DEF PageRowsOK
<1>9. StaleOK'  BY <1>1, <1>2 DEF StaleOK
<1>10. NextOK'  BY <1>1, <1>2 DEF NextOK
<1>11. DumpedOK'
  <2>1. EntityOf \in [Rows -> Entities]  BY Constants
  <2> QED BY <1>1, <1>2, <1>3, <2>1 DEF DumpedOK
<1>12. CursorGap'  BY <1>2 DEF CursorGap
<1>13. ToldOK'  BY <1>1, <1>2 DEF ToldOK
<1>14. OldTombs'  BY <1>1 DEF OldTombs
<1>15. DeletesOK'  BY <1>2 DEF DeletesOK
<1> QED BY <1>4, <1>5, <1>6, <1>7, <1>8, <1>9, <1>10, <1>11, <1>12, <1>13, <1>14, <1>15

-----------------------------------------------------------------------------
(* Time, transactions and permissions. *)

\* Time passes, transactions begin and end without a write.
LEMMA ClockInv ==
  ASSUME IInv, UNCHANGED <<row, tomb, granted, progress, lprog, cursor, meta, told, snapshot, phone, owed, late>>,
         events' \in 0 .. MaxEvents,
         clock' \in 1 .. MaxClock, clock <= clock', txn' \in [Writers -> Times],
         \A w \in Writers : txn'[w] = txn[w] \/ txn'[w] = 0 \/ txn'[w] = clock
  PROVE  IInv'
<1> USE DEF IInv
<1>1. TypesOK'
  <2> USE Types
  <2> QED BY TypesNext
<1>2. TimesOK'
  <2>1. \A r \in Rows : row[r].mod <= clock /\ tomb[r] <= clock  BY DEF TimesOK
  <2>2. \A e \in Entities : progress[e].started <= clock  BY DEF TimesOK
  <2>3. \A w \in Writers : txn'[w] <= clock'
    BY Fields DEF TimesOK
  <2> QED BY <2>1, <2>2, <2>3, Fields DEF TimesOK
<1>3. PermsOK'  BY DEF PermsOK, Pulling
<1>4. CutOK'
  <2>1. Pulling' <=> Pulling  BY DEF Pulling
  <2>2. phone.cut \in Int /\ clock \in Int /\ clock' \in Int  BY PhoneFields, Fields
  <2>3. ASSUME Pulling, NEW w \in Writers, txn'[w] # 0  PROVE phone.cut <= txn'[w]
    BY <2>2, <2>3, Fields DEF CutOK
  <2> QED BY <2>1, <2>2, <2>3 DEF CutOK
<1>5. MarksOK'
  <2> SUFFICES ASSUME cursor # NoCursor  PROVE MarksOK'  BY DEF MarksOK
  <2>1. cursor.e \in [Entities -> Pos] /\ cursor.t \in Pos  BY Types, Marks
  <2>2. \A p \in Pos : \A a : Behind(p, a) => Behind(p, a)'
    <3> SUFFICES ASSUME NEW p \in Pos, p[1] < clock, \A w \in Writers : txn[w] # 0 => p[1] < txn[w]
                 PROVE  p[1] < clock' /\ \A w \in Writers : txn'[w] # 0 => p[1] < txn'[w]
      BY DEF Behind
    <3>1. p[1] \in Int /\ clock' \in Int  BY DEF Pos
    <3> QED BY <3>1, Fields
  <2>3. Anchor' = Anchor  BY DEF Anchor, Started
  <2> QED BY <2>1, <2>2, <2>3 DEF MarksOK
<1>6. Passed'
  <2>1. \A r \in Rows : Grave(r)' = Grave(r)  BY DEF Grave
  <2> QED BY <2>1 DEF Passed
<1>7. StampOK'
  <2>1. Anchor' = Anchor  BY DEF Anchor, Started
  <2> QED BY <2>1 DEF StampOK
<1> QED BY <1>1, <1>2, <1>3, <1>4, <1>5, <1>6, <1>7, Frame

\* A transaction begins: it is stamped no earlier than any session or cutoff.
LEMMA BeginInv == ASSUME IInv, NEW w \in Writers, Begin(w) PROVE IInv'
<1>1. clock \in Times /\ clock \in 1 .. MaxClock /\ txn \in [Writers -> Times]
  BY Types, Constants DEF IInv, Times
<1>2. txn' \in [Writers -> Times] /\ \A v \in Writers : txn'[v] = txn[v] \/ txn'[v] = clock
  BY <1>1 DEF Begin
<1> QED BY <1>1, <1>2, Types, ClockInv DEF IInv, Begin, device, history

\* A transaction ends without a row.
LEMMA RollbackInv == ASSUME IInv, NEW w \in Writers, Rollback(w) PROVE IInv'
<1>1. clock \in 1 .. MaxClock /\ txn \in [Writers -> Times] /\ 0 \in Times
  BY Types, Constants DEF IInv, Times
<1>2. txn' \in [Writers -> Times] /\ \A v \in Writers : txn'[v] = txn[v] \/ txn'[v] = 0
  BY <1>1 DEF Rollback
<1> QED BY <1>1, <1>2, Types, ClockInv DEF IInv, Rollback, device, history

\* Time passes.
LEMMA TickInv == ASSUME IInv, Tick PROVE IInv'
<1>1. clock \in 1 .. MaxClock /\ txn \in [Writers -> Times]
  BY Types, Constants DEF IInv, Times
<1>2. clock' \in 1 .. MaxClock /\ clock <= clock'  BY <1>1, Constants DEF Tick
<1> QED BY <1>1, <1>2, Types, ClockInv DEF IInv, Tick, device, history

\* The permissions change, or the app hears of them.
LEMMA PermissionsInv ==
  ASSUME IInv, UNCHANGED <<clock, row, tomb, txn, progress, lprog, cursor, meta, told, phone, owed, late>>,
         granted' \in Perms, snapshot' \in Perms, events' \in 0 .. MaxEvents,
         \/ granted'.version = granted.version + 1 /\ snapshot' = snapshot
         \/ granted' = granted /\ snapshot' = granted
  PROVE  IInv'
<1> USE DEF IInv
<1>1. TypesOK'
  <2> USE Types
  <2> QED BY TypesNext
<1>2. granted.version \in Nat /\ snapshot.version \in Nat /\ meta.version \in Nat /\ phone.seen.version \in Nat
      /\ granted'.version \in Nat /\ snapshot'.version \in Nat
  BY Types, PhoneFields DEF Perms
<1>3. granted.version <= granted'.version /\ snapshot.version <= snapshot'.version
      /\ snapshot'.version <= granted'.version
  BY <1>2 DEF PermsOK
<1>4. TimesOK'  BY DEF TimesOK
<1>5. PermsOK'
  <2>1. granted'.version >= 1 /\ snapshot'.version >= 1 /\ meta.version <= snapshot'.version
        /\ phone.seen.version <= snapshot'.version
    BY <1>2, <1>3 DEF PermsOK
  <2>2. \A p, q \in {granted', snapshot', meta, phone.seen, NoMeta} : p.version = q.version => p = q
    <3>1. CASE granted' = granted /\ snapshot' = granted
      BY <3>1 DEF PermsOK
    <3>2. CASE granted'.version = granted.version + 1 /\ snapshot' = snapshot
      <4>1. \A p \in {snapshot, meta, phone.seen, NoMeta} : p.version < granted'.version
        BY <1>2, <3>2 DEF PermsOK, NoMeta
      <4>2. \A p \in {snapshot, meta, phone.seen, NoMeta} : p.version \in Nat
        BY <1>2 DEF NoMeta
      <4> QED BY <1>2, <3>2, <4>1, <4>2 DEF PermsOK
    <3> QED BY <3>1, <3>2
  <2>3. Pulling /\ meta.version = granted'.version => phone.view = meta.view
    BY <1>2, <1>3 DEF PermsOK
  <2>4. Pulling' <=> Pulling  BY DEF Pulling
  <2> QED BY <1>3, <2>1, <2>2, <2>3, <2>4 DEF PermsOK
<1>6. CutOK'  BY DEF CutOK, Pulling
<1>7. MarksOK'
  <2>1. Anchor' = Anchor  BY DEF Anchor, Started
  <2> QED BY <2>1 DEF MarksOK, Behind
<1>8. Passed'
  <2>1. \A r \in Rows : Grave(r)' = Grave(r)  BY DEF Grave
  <2> QED BY <1>2, <1>3, <2>1 DEF Passed
<1>9. StampOK'
  <2>1. Anchor' = Anchor  BY DEF Anchor, Started
  <2> QED BY <2>1 DEF StampOK
<1> QED BY <1>1, <1>4, <1>5, <1>6, <1>7, <1>8, <1>9, Frame

\* An owner grants or revokes an entity.
LEMMA ChangeViewInv == ASSUME IInv, NEW e \in Entities, ChangeView(e) PROVE IInv'
<1>1. granted \in Perms /\ snapshot \in Perms /\ events \in 0 .. MaxEvents /\ MaxEvents \in Nat
  BY Types, PullAssumption DEF IInv
<1>2. granted' \in Perms /\ granted'.version = granted.version + 1
  BY <1>1 DEF ChangeView, Perms
<1>3. events' \in 0 .. MaxEvents  BY <1>1 DEF ChangeView, Event
<1> QED BY <1>1, <1>2, <1>3, PermissionsInv DEF ChangeView, device, history

\* The phone hears of its permissions.
LEMMA RefreshInv == ASSUME IInv, RefreshSnapshot PROVE IInv'
<1>1. granted \in Perms /\ events \in 0 .. MaxEvents  BY Types DEF IInv
<1> QED BY <1>1, PermissionsInv DEF RefreshSnapshot, server, device, history

-----------------------------------------------------------------------------
(* Writes. *)

\* What is before a position is not up to it.
LEMMA NotUpTo == \A p, q \in Pos : Before(p, q) => ~UpTo(q, p)
BY KeysetOrder DEF UpTo

\* A write that is not too late lands behind no watermark: not the cursor's,
\* and not the page's in hand.
LEMMA LandsAhead ==
  ASSUME IInv, NEW w \in Writers, txn[w] # 0, NEW r \in Rows
  PROVE  LET e == EntityOf[r]
             p == <<txn[w], r>>
         IN  /\ p \in Pos
             /\ cursor # NoCursor /\ progress[e].started <= txn[w] =>
                  Before(cursor.e[e], p) /\ ~UpTo(p, cursor.e[e])
             /\ cursor # NoCursor /\ Oldest(Started) <= txn[w] =>
                  Before(cursor.t, p) /\ ~UpTo(p, cursor.t)
             /\ Pulling => phone.cut <= txn[w]
             /\ Pulling /\ progress[e].started <= txn[w] => ~UpTo(p, phone.next.e[e])
             /\ Pulling /\ Oldest(Started) <= txn[w] => ~UpTo(p, phone.next.t)
<1> DEFINE e == EntityOf[r]
           p == <<txn[w], r>>
<1> USE DEF IInv
<1>1. e \in Entities /\ txn[w] \in Nat /\ r \in Nat /\ r > 0 /\ clock \in Nat
  BY Constants, Fields
<1>2. p \in Pos /\ p[1] = txn[w] /\ p[2] = r  BY <1>1 DEF Pos
<1>3. progress[e].started \in Nat /\ (cursor # NoCursor => Oldest(Started) \in Nat)
  BY <1>1, Fields, Starts DEF CursorOK
<1>4. ASSUME cursor # NoCursor
      PROVE  cursor.e[e] \in Pos /\ cursor.t \in Pos
             /\ Behind(cursor.e[e], <<progress[e].started, 0>>) /\ Behind(cursor.t, Anchor)
  BY <1>1, <1>4, Types, Marks DEF MarksOK
<1>5. \A q \in Pos : \A a \in Nat : Behind(q, <<a, 0>>) /\ a <= txn[w] => Before(q, p)
  <2> SUFFICES ASSUME NEW q \in Pos, NEW a \in Nat, Behind(q, <<a, 0>>), a <= txn[w]  PROVE Before(q, p)
    OBVIOUS
  <2> (Rows \cup {0}) \subseteq Int  BY Constants
  <2>1. q[1] \in Int /\ q[2] \in Int  BY DEF Pos
  <2>2. CASE q = <<a, 0>>
    <3>1. q[1] = a /\ q[2] = 0  BY <2>2
    <3> HIDE DEF p
    <3> QED BY <1>1, <1>2, <3>1 DEF Before
  <2>3. CASE q[1] < txn[w]  BY <1>2, <2>3 DEF Before
  <2> QED BY <2>2, <2>3 DEF Behind
<1>6. cursor # NoCursor /\ progress[e].started <= txn[w] => Before(cursor.e[e], p) /\ ~UpTo(p, cursor.e[e])
  <2> HIDE DEF p, e
  <2> QED BY <1>2, <1>3, <1>4, <1>5, NotUpTo
<1>7. cursor # NoCursor /\ Oldest(Started) <= txn[w] => Before(cursor.t, p) /\ ~UpTo(p, cursor.t)
  <2> HIDE DEF p, e
  <2> QED BY <1>2, <1>3, <1>4, <1>5, NotUpTo DEF Anchor
<1>8. Pulling => phone.cut <= txn[w]  BY DEF CutOK
<1>9. Pulling => cursor # NoCursor /\ phone.next # NoCursor  BY DEF CursorOK, Pulling
<1>10. Pulling => phone.next.e[e] \in Pos /\ phone.next.t \in Pos /\ phone.cut \in Int
  BY <1>1, <1>9, PhoneFields, Marks
<1>11. \A q \in Pos : q[1] < txn[w] => ~UpTo(p, q)
  <2> SUFFICES ASSUME NEW q \in Pos, q[1] < txn[w]  PROVE Before(q, p)
    BY <1>2, NotUpTo
  <2> QED BY <1>2 DEF Before
<1>12. ASSUME Pulling, progress[e].started <= txn[w]  PROVE ~UpTo(p, phone.next.e[e])
  <2>1. CASE phone.next.e[e] = cursor.e[e]  BY <1>6, <1>9, <1>12, <2>1
  <2>2. CASE phone.next.e[e][1] < phone.cut
    <3>1. phone.next.e[e][1] < txn[w]
      <4>1. phone.next.e[e][1] \in Int  BY <1>10, <1>12 DEF Pos
      <4> QED BY <1>1, <1>8, <1>10, <1>12, <2>2, <4>1
    <3> QED BY <1>10, <1>11, <1>12, <3>1
  <2> QED BY <1>1, <1>12, <2>1, <2>2 DEF CutOK
<1>13. ASSUME Pulling, Oldest(Started) <= txn[w]  PROVE ~UpTo(p, phone.next.t)
  <2>1. CASE phone.next.t = cursor.t  BY <1>7, <1>9, <1>13, <2>1
  <2>2. CASE phone.next.t[1] < phone.cut
    <3>1. phone.next.t[1] < txn[w]
      <4>1. phone.next.t[1] \in Int  BY <1>10, <1>13 DEF Pos
      <4> QED BY <1>1, <1>8, <1>10, <1>13, <2>2, <4>1
    <3> QED BY <1>10, <1>11, <1>13, <3>1
  <2> QED BY <1>13, <2>1, <2>2 DEF CutOK
<1> QED BY <1>2, <1>6, <1>7, <1>8, <1>12, <1>13

\* A row the phone holds, or is about to be handed, is one the dump has gone
\* past.
LEMMA HeldIsDumped ==
  ASSUME IInv, NEW r \in Rows, told[r] # 0 \/ In(phone.rows, r)
  PROVE  Dumped(r)
<1> USE DEF IInv
<1>1. EntityOf[r] \in Entities /\ r \in Nat  BY Constants
<1>2. progress[EntityOf[r]].cursor \in Nat /\ lprog[EntityOf[r]].cursor \in Nat  BY <1>1, Fields
<1>3. CASE told[r] # 0
  <2>1. CASE EntityOf[r] \in Resumed
    BY <1>1, <1>2, <1>3, <2>1 DEF ToldOK, DumpOK, Dumped
  <2>2. CASE EntityOf[r] \notin Resumed  BY <1>3, <2>2 DEF ToldOK
  <2> QED BY <2>1, <2>2
<1>4. CASE In(phone.rows, r) /\ phone.pc = "coldpage"
  <2>1. EntityOf[r] = phone.entity /\ (phone.more => r <= phone.last)  BY <1>4 DEF PageOK
  <2>2. phone.entity # 0  BY <1>1, <2>1, Constants
  <2>3. phone.more => progress[phone.entity].cursor = phone.last  BY <1>4, <2>2 DEF PageOK
  <2>4. ~phone.more => progress[phone.entity].phase = "completed"  BY <1>4, <2>2 DEF PageOK
  <2> QED BY <1>1, <1>2, <2>1, <2>3, <2>4 DEF Dumped
<1>5. CASE In(phone.rows, r) /\ Pulling
  BY <1>1, <1>5 DEF CursorOK, Pulling, Complete, Dumped
<1>6. ~Pulling /\ phone.pc # "coldpage" => ~In(phone.rows, r)  BY DEF CursorOK, In
<1> QED BY <1>3, <1>4, <1>5, <1>6

\* What a write leaves alone.
LEMMA WriteFrame ==
  ASSUME IInv, NEW w \in Writers, NEW r \in Rows, NEW b \in BOOLEAN,
         row[r].version < MaxVersion, late' \in {late \cup {r}, late \ {r}},
         row' = [row EXCEPT ![r] = [mod |-> txn[w], version |-> row[r].version + 1, alive |-> b]],
         txn' = [txn EXCEPT ![w] = 0],
         UNCHANGED <<clock, granted, progress, lprog, cursor, meta, snapshot, phone, owed, events>>,
         tomb' \in [Rows -> Times], \A q \in Rows : tomb'[q] = tomb[q] \/ (q = r /\ tomb'[q] = txn[w]),
         told' \in [Rows -> Versions], \A q \in Rows : told'[q] = told[q] \/ (q = r /\ cursor # NoCursor)
  PROVE  /\ TypesOK' /\ TimesOK' /\ PermsOK' /\ CursorOK' /\ DumpOK' /\ PageOK' /\ PageRowsOK'
         /\ CutOK' /\ MarksOK' /\ ToldOK' /\ StampOK'
         /\ Resumed' = Resumed /\ Started' = Started /\ (Pulling' <=> Pulling)
         /\ row'[r].mod = txn[w] /\ row'[r].version = row[r].version + 1 /\ row'[r].alive = b
         /\ At(r)' = <<txn[w], r>> /\ (Dumped(r)' <=> Dumped(r))
         /\ \A q \in Rows : q # r => row'[q] = row[q] /\ (q \in late' <=> q \in late) /\ tomb'[q] = tomb[q]
                                     /\ At(q)' = At(q) /\ Grave(q)' = Grave(q) /\ (Dumped(q)' <=> Dumped(q))
                                     /\ (Told(q)' <=> Told(q)) /\ (Excused(q)' <=> Excused(q))
<1> USE DEF IInv
<1>1. row \in [Rows -> ServerRow] /\ txn \in [Writers -> Times] /\ txn[w] \in Times /\ late \in SUBSET Rows
  BY Types
<1>2. row[r].version + 1 \in Versions
  BY Fields, Constants DEF Versions
<1>3. row' \in [Rows -> ServerRow] /\ row'[r].mod = txn[w] /\ row'[r].version = row[r].version + 1 /\ row'[r].alive = b
      /\ \A q \in Rows : q # r => row'[q] = row[q]
  BY <1>1, <1>2 DEF ServerRow
<1>4. txn' \in [Writers -> Times] /\ \A v \in Writers : txn'[v] = txn[v] \/ txn'[v] = 0
  BY <1>1, Constants DEF Times
<1>5. late' \in SUBSET Rows /\ \A q \in Rows : q # r => (q \in late' <=> q \in late)
  BY <1>1
<1>6. TypesOK'  BY <1>3, <1>4, <1>5, Types, TypesNext
<1>7. TimesOK'
  <2>1. \A v \in Writers : txn'[v] <= clock  BY <1>4, Fields DEF TimesOK
  <2>2. \A q \in Rows : row'[q].mod <= clock /\ tomb'[q] <= clock  BY <1>3, Fields DEF TimesOK
  <2> QED BY <2>1, <2>2 DEF TimesOK
<1>8. Resumed' = Resumed /\ Started' = Started /\ (Complete' <=> Complete) /\ (Pulling' <=> Pulling)
  BY DEF Resumed, Started, Complete, Pulling
<1>9. \A e \in Entities \cup {0} : (InFlight(e)' <=> InFlight(e)) /\ After(e)' = After(e)
  BY <1>8 DEF InFlight, After
<1>10. PermsOK'  BY <1>8 DEF PermsOK
<1>11. CursorOK'  BY <1>8 DEF CursorOK
<1>12. DumpOK'  BY <1>8, <1>9 DEF DumpOK
<1>13. PageOK'  BY <1>8, <1>9 DEF PageOK, After
<1>14. PageRowsOK'  BY DEF PageRowsOK
<1>15. CutOK'  BY <1>4, <1>8 DEF CutOK
<1>16. MarksOK'
  <2>1. Anchor' = Anchor  BY <1>8 DEF Anchor
  <2>2. ASSUME NEW p, NEW a, Behind(p, a)  PROVE p = a \/ (p[1] < clock /\ \A v \in Writers : txn'[v] # 0 => p[1] < txn'[v])
    BY <1>4, <2>2 DEF Behind
  <2> QED BY <2>1, <2>2 DEF MarksOK, Behind
<1>17. \A q \in Rows : Dumped(q)' <=> Dumped(q)  BY DEF Dumped
<1>18. ToldOK'
  <2>1. cursor # NoCursor => Resumed = {} /\ \A q \in Rows : Dumped(q)
    BY Constants DEF CursorOK, Complete, Dumped
  <2> QED BY <1>8, <1>17, <2>1 DEF ToldOK
<1>19. StampOK'
  <2>1. Anchor' = Anchor  BY <1>8 DEF Anchor
  <2> QED BY <2>1 DEF StampOK
<1>20. At(r)' = <<txn[w], r>>  BY <1>3 DEF At
<1>21. ASSUME NEW q \in Rows, q # r
       PROVE  tomb'[q] = tomb[q] /\ At(q)' = At(q) /\ Grave(q)' = Grave(q)
              /\ (Told(q)' <=> Told(q)) /\ (Excused(q)' <=> Excused(q))
  BY <1>3, <1>5, <1>21 DEF At, Grave, Told, Excused
<1> QED BY <1>3, <1>5, <1>6, <1>7, <1>8, <1>10, <1>11, <1>12, <1>13, <1>14, <1>15, <1>16, <1>17, <1>18, <1>19, <1>20, <1>21

\* A row commits: ahead of every watermark and cutoff, or too late for its dump.
LEMMA CommitInv ==
  ASSUME IInv, NEW w \in Writers, NEW r \in Rows, Writes(w, r, TRUE, TooLate(r, txn[w])), tomb[r] = 0,
         UNCHANGED <<tomb, lprog, cursor, meta>>, told' \in [Rows -> Versions],
         \A q \in Rows : told'[q] = told[q] \/ (q = r /\ cursor # NoCursor)
  PROVE  IInv'
<1> USE DEF IInv
<1> DEFINE e == EntityOf[r]
           l == TooLate(r, txn[w])
<1>1. tomb \in [Rows -> Times] /\ tomb' = tomb /\ EntityOf \in [Rows -> Entities]
  BY Types, Constants
<1>2. Writes(w, r, TRUE, l) /\ l \in BOOLEAN /\ txn[w] # 0  BY DEF Writes, TooLate, Dumped
<1>3. tomb[r] = 0  OBVIOUS
<1>4. phone' = phone /\ cursor' = cursor /\ progress' = progress /\ lprog' = lprog
      /\ owed' = owed /\ granted' = granted /\ meta' = meta
  BY <1>2 DEF Writes
<1>5. /\ TypesOK' /\ TimesOK' /\ PermsOK' /\ CursorOK' /\ DumpOK' /\ PageOK' /\ PageRowsOK'
      /\ CutOK' /\ MarksOK' /\ ToldOK' /\ StampOK'
      /\ Resumed' = Resumed /\ Started' = Started /\ (Pulling' <=> Pulling)
      /\ row'[r].mod = txn[w] /\ row'[r].version = row[r].version + 1 /\ row'[r].alive = TRUE
      /\ (r \in late' <=> l) /\ (Dumped(r)' <=> Dumped(r))
      /\ \A q \in Rows : q # r => row'[q] = row[q] /\ (q \in late' <=> q \in late) /\ tomb'[q] = tomb[q]
                                  /\ At(q)' = At(q) /\ Grave(q)' = Grave(q) /\ (Dumped(q)' <=> Dumped(q))
                                  /\ (Told(q)' <=> Told(q)) /\ (Excused(q)' <=> Excused(q))
  <2>1. late' \in {late \cup {r}, late \ {r}} /\ (r \in late' <=> l)
    <3>1. CASE l  BY <1>2, <3>1 DEF Writes
    <3>2. CASE ~l  BY <1>2, <3>2 DEF Writes
    <3> QED BY <3>1, <3>2
  <2>2. PICK b : b = TRUE /\ b \in BOOLEAN  OBVIOUS
  <2>3. /\ row[r].version < MaxVersion /\ txn' = [txn EXCEPT ![w] = 0]
        /\ row' = [row EXCEPT ![r] = [mod |-> txn[w], version |-> row[r].version + 1, alive |-> b]]
        /\ UNCHANGED <<clock, granted, progress, lprog, cursor, meta, snapshot, phone, owed, events>>
    BY <1>2, <2>2 DEF Writes
  <2>4. tomb' \in [Rows -> Times] /\ \A q \in Rows : tomb'[q] = tomb[q] \/ (q = r /\ tomb'[q] = txn[w])
    BY <1>1
  <2> HIDE DEF l, IInv
  <2>5. \A q \in Rows : q # r => tomb'[q] = tomb[q]  BY <1>1
  <2> QED BY <2>1, <2>2, <2>3, <2>4, <2>5, WriteFrame
<1>6. e \in Entities /\ progress[e].started \in Nat /\ txn[w] \in Nat  BY <1>1, Fields
<1>7. Dumped(r) /\ txn[w] < progress[e].started => r \in late'  BY <1>5 DEF TooLate
<1>8. cursor # NoCursor => Dumped(r)  BY <1>6 DEF CursorOK, Complete, Dumped
<1>9. Pulling => cursor # NoCursor  BY DEF CursorOK, Pulling
<1>10. cursor # NoCursor /\ r \notin late' => progress[e].started <= txn[w]
  BY <1>6, <1>7, <1>8
<1>11. cursor # NoCursor /\ progress[e].started <= txn[w] =>
         Before(cursor.e[e], <<txn[w], r>>) /\ ~UpTo(<<txn[w], r>>, cursor.e[e])
  BY <1>2, LandsAhead
<1>12. Pulling => phone.cut <= txn[w]  BY <1>2, LandsAhead
<1>13. Pulling /\ progress[e].started <= txn[w] => ~UpTo(<<txn[w], r>>, phone.next.e[e])
  BY <1>2, LandsAhead
<1>14. \A q \in Rows : q # r => row'[q] = row[q] /\ (q \in late' <=> q \in late)
                                /\ At(q)' = At(q) /\ Grave(q)' = Grave(q) /\ (Dumped(q)' <=> Dumped(q))
                                /\ (Told(q)' <=> Told(q)) /\ (Excused(q)' <=> Excused(q))
  BY <1>5
<1>15. r \in late' => Excused(r)'  BY DEF Excused
<1>16. RowsOK'
  <2>1. row[r].version + 1 # 0  BY Fields DEF Versions
  <2> QED BY <1>1, <1>3, <1>5, <1>14, <2>1 DEF RowsOK
<1>17. StaleOK'
  <2> SUFFICES ASSUME Pulling, NEW q \in Rows, In(phone.rows, q)
      PROVE  /\ row'[q].alive => \/ <<q, row'[q].version>> \in phone.rows \/ q \in late'
                                 \/ phone.cut <= row'[q].mod /\ Before(cursor.e[EntityOf[q]], At(q)')
                                    /\ progress[EntityOf[q]].started <= row'[q].mod
             /\ tomb[q] # 0 => q \in late' \/ (phone.cut <= tomb[q] /\ Before(cursor.t, Grave(q)'))
    <3>1. ASSUME phone.pc = "coldpage", NEW q \in Rows, In(phone.rows, q), row'[q].alive
          PROVE  <<q, row'[q].version>> \in phone.rows \/ q \in late' \/ progress[EntityOf[q]].started <= row'[q].mod
      <4>1. CASE q = r
        <5>1. Dumped(r)  BY <3>1, <4>1, HeldIsDumped
        <5>2. row'[r].mod = txn[w]  BY <1>5
        <5> QED BY <1>6, <1>7, <4>1, <5>1, <5>2
      <4>2. CASE q # r  BY <1>14, <3>1, <4>2 DEF StaleOK
      <4> QED BY <4>1, <4>2
    <3> QED BY <1>1, <1>4, <1>5, <3>1 DEF StaleOK
  <2>1. CASE q = r
    <3>1. row'[r].mod = txn[w] /\ At(r)' = <<txn[w], r>>  BY <1>5 DEF At
    <3> QED BY <1>3, <1>9, <1>10, <1>11, <1>12, <2>1, <3>1
  <2>2. CASE q # r  BY <1>14, <2>2 DEF StaleOK
  <2> QED BY <2>1, <2>2
<1>18. NextOK'
  <2> SUFFICES ASSUME Pulling, NEW q \in Rows, row'[q].alive, UpTo(At(q)', phone.next.e[EntityOf[q]]), ~Excused(q)'
      PROVE  Told(q)' \/ <<q, row'[q].version>> \in phone.rows
    BY <1>4, <1>5 DEF NextOK
  <2>1. CASE q = r
    <3>1. At(r)' = <<txn[w], r>>  BY <1>5 DEF At
    <3> QED BY <1>9, <1>10, <1>13, <1>15, <2>1, <3>1
  <2>2. CASE q # r  BY <1>14, <2>2 DEF NextOK
  <2> QED BY <2>1, <2>2
<1>19. CursorGap'
  <2> SUFFICES ASSUME cursor # NoCursor, NEW q \in Rows, row'[q].alive, UpTo(At(q)', cursor.e[EntityOf[q]]), ~Excused(q)'
      PROVE  Told(q)'
    BY <1>4 DEF CursorGap, Told
  <2>1. CASE q = r
    <3>1. At(r)' = <<txn[w], r>>  BY <1>5 DEF At
    <3> QED BY <1>10, <1>11, <1>15, <2>1, <3>1
  <2>2. CASE q # r  BY <1>14, <2>2 DEF CursorGap, Told
  <2> QED BY <2>1, <2>2
<1>20. DumpedOK'
  <2> SUFFICES ASSUME NEW q \in Rows, EntityOf[q] \notin owed, Dumped(q)', row'[q].alive, q \notin late',
                      row'[q].mod < progress[EntityOf[q]].started
      PROVE  \/ Told(q)'
             \/ InFlight(EntityOf[q]) /\ After(EntityOf[q]) < q /\ <<q, row'[q].version>> \in phone.rows
             \/ EntityOf[q] \in Resumed /\ lprog[EntityOf[q]].cursor < q /\ ~InFlight(EntityOf[q])
    BY <1>4, <1>5 DEF DumpedOK, InFlight, After
  <2>1. CASE q = r
    <3>1. row'[r].mod = txn[w]  BY <1>5
    <3> QED BY <1>5, <1>7, <2>1, <3>1
  <2>2. CASE q # r  BY <1>14, <2>2 DEF DumpedOK
  <2> QED BY <2>1, <2>2
<1>21. OldTombs'
  <2> SUFFICES ASSUME NEW q \in Rows, tomb[q] # 0, q \notin late', Started # {}, tomb[q] < Oldest(Started)
      PROVE  told'[q] = 0 /\ ~In(phone.rows, q)
    BY <1>1, <1>4, <1>5 DEF OldTombs
  <2> QED BY <1>3, <1>14 DEF OldTombs
<1>22. Passed'
  <2> SUFFICES ASSUME cursor # NoCursor, NEW q \in Rows, tomb[q] # 0, UpTo(Grave(q)', cursor.t), q \notin late'
      PROVE  told'[q] = 0 \/ EntityOf[q] \notin meta.view \/ granted.version > meta.version
    BY <1>1, <1>4 DEF Passed
  <2> QED BY <1>3, <1>14 DEF Passed
<1>23. DeletesOK'
  <2>1. ASSUME phone.pc = "page", NEW q \in Rows, tomb[q] # 0, q \notin late', UpTo(Grave(q)', phone.next.t)
        PROVE  UpTo(Grave(q)', cursor.t) \/ q \in phone.deletes \/ EntityOf[q] \notin phone.view
    BY <1>3, <1>14, <2>1 DEF DeletesOK
  <2> QED BY <1>1, <1>4, <2>1 DEF DeletesOK
<1> QED BY <1>5, <1>16, <1>17, <1>18, <1>19, <1>20, <1>21, <1>22, <1>23

\* A create or an update of anyone.
LEMMA UpsertInv == ASSUME IInv, NEW w \in Writers, NEW r \in Rows, Upsert(w, r) PROVE IInv'
<1>1. tomb[r] = 0  BY DEF Upsert, IInv, RowsOK
<1>2. told \in [Rows -> Versions]  BY Types DEF IInv
<1>3. UNCHANGED <<tomb, lprog, cursor, meta, told>> /\ Writes(w, r, TRUE, TooLate(r, txn[w]))
  BY DEF Upsert, device, history
<1> QED BY <1>1, <1>2, <1>3, CommitInv

\* A create of the phone, of which it is told by the answer.
LEMMA PushAppliedInv == ASSUME IInv, NEW w \in Writers, NEW r \in Rows, PushApplied(w, r) PROVE IInv'
<1>1. tomb[r] = 0  BY DEF PushApplied, IInv, RowsOK
<1>2. cursor # NoCursor  BY DEF PushApplied, IInv, CursorOK
<1>3. told \in [Rows -> Versions] /\ 1 \in Versions  BY Types, Constants DEF IInv, Versions
<1>4. told' \in [Rows -> Versions] /\ \A q \in Rows : told'[q] = told[q] \/ (q = r /\ cursor # NoCursor)
  BY <1>2, <1>3 DEF PushApplied
<1>5. UNCHANGED <<tomb, lprog, cursor, meta>> /\ Writes(w, r, TRUE, TooLate(r, txn[w]))
  BY DEF PushApplied
<1> QED BY <1>1, <1>4, <1>5, CommitInv

\* A soft delete commits with its tombstone.
LEMMA DeleteInv == ASSUME IInv, NEW w \in Writers, NEW r \in Rows, Delete(w, r) PROVE IInv'
<1> USE DEF IInv
<1> DEFINE e == EntityOf[r]
           l == TooLateToDelete(r, txn[w])
<1>1. tomb \in [Rows -> Times] /\ tomb' = [tomb EXCEPT ![r] = txn[w]] /\ EntityOf \in [Rows -> Entities]
      /\ txn[w] \in Times
  BY Types, Constants DEF Delete
<1>2. Writes(w, r, FALSE, l) /\ l \in BOOLEAN /\ txn[w] # 0  BY DEF Delete, Writes, TooLateToDelete, Dumped
<1>3. tomb' \in [Rows -> Times] /\ tomb'[r] = txn[w] /\ \A q \in Rows : q # r => tomb'[q] = tomb[q]
  BY <1>1
<1>4. phone' = phone /\ cursor' = cursor /\ progress' = progress /\ lprog' = lprog /\ told' = told
      /\ owed' = owed /\ granted' = granted /\ meta' = meta
  BY <1>2 DEF Delete, Writes, device, history
<1>5. /\ TypesOK' /\ TimesOK' /\ PermsOK' /\ CursorOK' /\ DumpOK' /\ PageOK' /\ PageRowsOK'
      /\ CutOK' /\ MarksOK' /\ ToldOK' /\ StampOK'
      /\ Resumed' = Resumed /\ Started' = Started /\ (Pulling' <=> Pulling)
      /\ row'[r].version = row[r].version + 1 /\ row'[r].alive = FALSE
      /\ (r \in late' <=> l)
      /\ \A q \in Rows : q # r => row'[q] = row[q] /\ (q \in late' <=> q \in late) /\ tomb'[q] = tomb[q]
                                  /\ At(q)' = At(q) /\ Grave(q)' = Grave(q) /\ (Dumped(q)' <=> Dumped(q))
                                  /\ (Told(q)' <=> Told(q)) /\ (Excused(q)' <=> Excused(q))
  <2>1. late' \in {late \cup {r}, late \ {r}} /\ (r \in late' <=> l)
    <3>1. CASE l  BY <1>2, <3>1 DEF Writes
    <3>2. CASE ~l  BY <1>2, <3>2 DEF Writes
    <3> QED BY <3>1, <3>2
  <2>2. PICK b : b = FALSE /\ b \in BOOLEAN  OBVIOUS
  <2>3. /\ row[r].version < MaxVersion /\ txn' = [txn EXCEPT ![w] = 0]
        /\ row' = [row EXCEPT ![r] = [mod |-> txn[w], version |-> row[r].version + 1, alive |-> b]]
        /\ UNCHANGED <<clock, granted, progress, lprog, cursor, meta, snapshot, phone, owed, events>>
    BY <1>2, <1>4, <2>2 DEF Writes
  <2>4. tomb' \in [Rows -> Times] /\ \A q \in Rows : tomb'[q] = tomb[q] \/ (q = r /\ tomb'[q] = txn[w])
    BY <1>3
  <2>5. told' \in [Rows -> Versions] /\ told' = told  BY <1>4, Types
  <2> HIDE DEF l, IInv
  <2>6. \A q \in Rows : q # r => tomb'[q] = tomb[q]  BY <1>3
  <2> QED BY <2>1, <2>2, <2>3, <2>4, <2>5, <2>6, WriteFrame
<1>6. txn[w] \in Nat /\ e \in Entities  BY <1>1, Fields
<1>7. Dumped(r) /\ txn[w] < Oldest(Started) => r \in late'  BY <1>5 DEF TooLateToDelete
<1>8. cursor # NoCursor => Dumped(r) /\ Oldest(Started) \in Nat
  BY <1>6, Starts DEF CursorOK, Complete, Dumped
<1>9. Pulling => cursor # NoCursor  BY DEF CursorOK, Pulling
<1>10. cursor # NoCursor /\ r \notin late' => Oldest(Started) <= txn[w]
  BY <1>6, <1>7, <1>8
<1>11. cursor # NoCursor /\ Oldest(Started) <= txn[w] =>
         Before(cursor.t, <<txn[w], r>>) /\ ~UpTo(<<txn[w], r>>, cursor.t)
  BY <1>2, LandsAhead
<1>12. Pulling => phone.cut <= txn[w]  BY <1>2, LandsAhead
<1>13. Pulling /\ Oldest(Started) <= txn[w] => ~UpTo(<<txn[w], r>>, phone.next.t)
  BY <1>2, LandsAhead
<1>14. \A q \in Rows : q # r => row'[q] = row[q] /\ (q \in late' <=> q \in late) /\ tomb'[q] = tomb[q]
                                /\ At(q)' = At(q) /\ Grave(q)' = Grave(q) /\ (Dumped(q)' <=> Dumped(q))
                                /\ (Told(q)' <=> Told(q)) /\ (Excused(q)' <=> Excused(q))
  BY <1>5
<1>15. Grave(r)' = <<txn[w], r>> /\ ~row'[r].alive  BY <1>3, <1>5 DEF Grave
<1>16. RowsOK'
  <2>1. row[r].version + 1 # 0  BY Fields DEF Versions
  <2> QED BY <1>5, <1>14, <1>15, <2>1 DEF RowsOK
<1>17. StaleOK'
  <2> SUFFICES ASSUME Pulling, NEW q \in Rows, In(phone.rows, q)
      PROVE  /\ row'[q].alive => \/ <<q, row'[q].version>> \in phone.rows \/ q \in late'
                                 \/ phone.cut <= row'[q].mod /\ Before(cursor.e[EntityOf[q]], At(q)')
                                    /\ progress[EntityOf[q]].started <= row'[q].mod
             /\ tomb'[q] # 0 => q \in late' \/ (phone.cut <= tomb'[q] /\ Before(cursor.t, Grave(q)'))
    <3>1. ASSUME phone.pc = "coldpage", NEW q \in Rows, In(phone.rows, q), row'[q].alive
          PROVE  <<q, row'[q].version>> \in phone.rows \/ q \in late' \/ progress[EntityOf[q]].started <= row'[q].mod
      BY <1>14, <1>15, <3>1 DEF StaleOK
    <3> QED BY <1>4, <1>5, <3>1 DEF StaleOK
  <2>1. CASE q = r
    BY <1>3, <1>9, <1>10, <1>11, <1>12, <1>15, <2>1
  <2>2. CASE q # r  BY <1>14, <2>2 DEF StaleOK
  <2> QED BY <2>1, <2>2
<1>18. NextOK'
  <2> SUFFICES ASSUME Pulling, NEW q \in Rows, row'[q].alive, UpTo(At(q)', phone.next.e[EntityOf[q]]), ~Excused(q)'
      PROVE  Told(q)' \/ <<q, row'[q].version>> \in phone.rows
    BY <1>4, <1>5 DEF NextOK
  <2> QED BY <1>14, <1>15 DEF NextOK
<1>19. CursorGap'
  <2> SUFFICES ASSUME cursor # NoCursor, NEW q \in Rows, row'[q].alive, UpTo(At(q)', cursor.e[EntityOf[q]]), ~Excused(q)'
      PROVE  Told(q)'
    BY <1>4 DEF CursorGap, Told
  <2> QED BY <1>14, <1>15 DEF CursorGap, Told
<1>20. DumpedOK'
  <2> SUFFICES ASSUME NEW q \in Rows, EntityOf[q] \notin owed, Dumped(q)', row'[q].alive, q \notin late',
                      row'[q].mod < progress[EntityOf[q]].started
      PROVE  \/ Told(q)'
             \/ InFlight(EntityOf[q]) /\ After(EntityOf[q]) < q /\ <<q, row'[q].version>> \in phone.rows
             \/ EntityOf[q] \in Resumed /\ lprog[EntityOf[q]].cursor < q /\ ~InFlight(EntityOf[q])
    BY <1>4, <1>5 DEF DumpedOK, InFlight, After
  <2> QED BY <1>14, <1>15 DEF DumpedOK
<1>21. OldTombs'
  <2> SUFFICES ASSUME NEW q \in Rows, tomb'[q] # 0, q \notin late', Started # {}, tomb'[q] < Oldest(Started)
      PROVE  told[q] = 0 /\ ~In(phone.rows, q)
    BY <1>4, <1>5 DEF OldTombs
  <2>1. CASE q = r
    <3>1. ~Dumped(r)  BY <1>3, <1>7, <2>1
    <3> QED BY <2>1, <3>1, HeldIsDumped
  <2>2. CASE q # r  BY <1>14, <2>2 DEF OldTombs
  <2> QED BY <2>1, <2>2
<1>22. Passed'
  <2> SUFFICES ASSUME cursor # NoCursor, NEW q \in Rows, tomb'[q] # 0, UpTo(Grave(q)', cursor.t), q \notin late'
      PROVE  told[q] = 0 \/ EntityOf[q] \notin meta.view \/ granted.version > meta.version
    BY <1>4 DEF Passed
  <2>1. CASE q = r  BY <1>10, <1>11, <1>15, <2>1
  <2>2. CASE q # r  BY <1>14, <2>2 DEF Passed
  <2> QED BY <2>1, <2>2
<1>23. DeletesOK'
  <2>1. ASSUME phone.pc = "page", NEW q \in Rows, tomb'[q] # 0, q \notin late', UpTo(Grave(q)', phone.next.t)
        PROVE  UpTo(Grave(q)', cursor.t) \/ q \in phone.deletes \/ EntityOf[q] \notin phone.view
    <3>1. CASE q = r
      <4>1. Pulling  BY <2>1 DEF Pulling
      <4> QED BY <1>9, <1>10, <1>13, <1>15, <2>1, <3>1, <4>1
    <3>2. CASE q # r  BY <1>14, <2>1, <3>2 DEF DeletesOK
    <3> QED BY <3>1, <3>2
  <2>2. \A q \in phone.deletes : tomb'[q] # 0
    <3>1. phone.deletes \subseteq Rows  BY PhoneFields
    <3> QED BY <1>2, <1>3, <3>1 DEF DeletesOK
  <2> QED BY <1>4, <2>1, <2>2 DEF DeletesOK
<1> QED BY <1>5, <1>16, <1>17, <1>18, <1>19, <1>20, <1>21, <1>22, <1>23

-----------------------------------------------------------------------------
(* Steps of the phone that write nothing the tables hold. *)

\* The phone between two calls.
LEMMA IdlePhone ==
  /\ \A x \in Steps : LET q == [Idle EXCEPT !.pc = x]
                      IN  q \in Phones /\ q.pc = x /\ q.rows = {} /\ q.deletes = {} /\ q.seen = NoMeta
  /\ \A x \in Steps, s \in Perms :
        LET p == [Idle EXCEPT !.pc = x, !.seen = s]
        IN  p \in Phones /\ p.pc = x /\ p.rows = {} /\ p.deletes = {} /\ p.seen = s
  /\ Idle \in Phones /\ Idle.pc = "idle" /\ Idle.rows = {} /\ Idle.deletes = {} /\ Idle.seen = NoMeta
  /\ NoMeta \in Perms /\ NoMeta.version = 0
<1>1. NoMeta \in Perms /\ NoMeta.version = 0  BY DEF NoMeta, Perms
<1>2. Idle \in Phones  BY <1>1 DEF Idle, Phones, Steps
<1>3. Idle.pc = "idle" /\ Idle.rows = {} /\ Idle.deletes = {} /\ Idle.seen = NoMeta  BY DEF Idle
<1> HIDE DEF Idle
<1>4. \A x \in Steps, s \in Perms :
        LET p == [Idle EXCEPT !.pc = x, !.seen = s]
        IN  p \in Phones /\ p.pc = x /\ p.rows = {} /\ p.deletes = {} /\ p.seen = s
  BY <1>2, <1>3 DEF Phones
<1>5. \A x \in Steps : LET q == [Idle EXCEPT !.pc = x]
                       IN  q \in Phones /\ q.pc = x /\ q.rows = {} /\ q.deletes = {} /\ q.seen = NoMeta
  BY <1>2, <1>3 DEF Phones
<1> QED BY <1>1, <1>2, <1>3, <1>4, <1>5

\* Between two calls the phone has no page in hand.
LEMMA RestInv ==
  ASSUME phone'.pc \in {"idle", "cold", "stamp", "push", "pull", "retry"}, phone'.rows = {}, phone'.deletes = {}
  PROVE  /\ PageOK' /\ PageRowsOK' /\ CutOK' /\ StaleOK' /\ NextOK' /\ DeletesOK'
         /\ ~Pulling' /\ (\A r \in Rows : ~In(phone'.rows, r)) /\ \A e \in Entities \cup {0} : ~InFlight(e)'
<1>1. ~Pulling' /\ phone'.pc # "coldpage" /\ phone'.pc # "page"  BY DEF Pulling
<1>2. PageOK'  BY <1>1 DEF PageOK
<1>3. PageRowsOK'  BY DEF PageRowsOK
<1>4. CutOK' /\ StaleOK' /\ NextOK'  BY <1>1 DEF CutOK, StaleOK, NextOK
<1>5. DeletesOK'  BY <1>1 DEF DeletesOK
<1>6. (\A r \in Rows : ~In(phone'.rows, r)) /\ \A e \in Entities \cup {0} : ~InFlight(e)'
  BY <1>1 DEF In, InFlight
<1> QED BY <1>1, <1>2, <1>3, <1>4, <1>5, <1>6

\* What a step of the phone keeps when it leaves its tables alone.
LEMMA QuietInv ==
  ASSUME IInv, UNCHANGED <<clock, row, tomb, txn, progress, told, lprog, cursor, late>>, owed \subseteq owed'
  PROVE  /\ TimesOK' /\ RowsOK' /\ MarksOK' /\ CursorGap' /\ ToldOK'
         /\ Resumed' = Resumed /\ Started' = Started /\ (Complete' <=> Complete) /\ Anchor' = Anchor
         /\ (phone.pc # "coldpage" /\ phone'.pc # "coldpage" => DumpOK' /\ DumpedOK')
         /\ \A r \in Rows : At(r)' = At(r) /\ Grave(r)' = Grave(r) /\ (Dumped(r)' <=> Dumped(r))
                            /\ (Told(r)' <=> Told(r)) /\ (Excused(r) => Excused(r)')
<1> USE DEF IInv
<1>1. Resumed' = Resumed /\ Started' = Started /\ (Complete' <=> Complete) /\ Anchor' = Anchor
  BY DEF Resumed, Started, Complete, Anchor
<1>2. \A r \in Rows : At(r)' = At(r) /\ Grave(r)' = Grave(r) /\ (Dumped(r)' <=> Dumped(r))
                      /\ (Told(r)' <=> Told(r)) /\ (Excused(r) => Excused(r)')
  BY DEF At, Grave, Dumped, Told, Excused
<1>3. TimesOK' /\ RowsOK'  BY DEF TimesOK, RowsOK
<1>4. MarksOK'  BY <1>1 DEF MarksOK, Behind
<1>5. CursorGap'  BY <1>2 DEF CursorGap, Told
<1>6. ToldOK'  BY <1>1, <1>2 DEF ToldOK
<1>7. ASSUME phone.pc # "coldpage", phone'.pc # "coldpage"  PROVE DumpOK' /\ DumpedOK'
  <2>1. \A e \in Entities : ~InFlight(e) /\ ~InFlight(e)'  BY <1>7 DEF InFlight
  <2>2. DumpOK'  BY <1>1, <2>1 DEF DumpOK
  <2>3. EntityOf \in [Rows -> Entities]  BY Constants
  <2>4. DumpedOK'  BY <1>1, <1>2, <2>1, <2>3 DEF DumpedOK
  <2> QED BY <2>2, <2>4
<1> QED BY <1>1, <1>2, <1>3, <1>4, <1>5, <1>6, <1>7

\* A position up to the anchor of the tombstones is older than every dump.
LEMMA UpToAnchor ==
  ASSUME IInv, cursor # NoCursor \/ Complete, NEW r \in Rows, UpTo(Grave(r), Anchor)
  PROVE  Started # {} /\ tomb[r] < Oldest(Started)
<1>1. Complete  BY DEF IInv, CursorOK
<1>2. Started # {} /\ Oldest(Started) \in Nat  BY <1>1, Starts DEF IInv
<1>3. tomb[r] \in Nat /\ r \in Nat /\ r # 0  BY Constants, Fields DEF IInv
<1> QED BY <1>2, <1>3 DEF UpTo, Before, Grave, Anchor

\* The phone stamps the permissions it has synced under.
LEMMA StampInv == ASSUME IInv, Stamp PROVE IInv'
<1> USE DEF IInv, Stamp, server, history
<1> DEFINE x == IF queued = {} THEN "pull" ELSE "push"
<1>1. phone' = [Idle EXCEPT !.pc = x] /\ phone.pc = "stamp" /\ x \in Steps /\ x \in {"push", "pull"}  BY DEF Steps
<1>2. phone' \in Phones /\ phone'.pc \in {"push", "pull"} /\ phone'.rows = {} /\ phone'.deletes = {} /\ phone'.seen = NoMeta
      /\ NoMeta \in Perms /\ NoMeta.version = 0
  <2> HIDE DEF x
  <2> DEFINE q == [Idle EXCEPT !.pc = x]
  <2>1. q \in Phones /\ q.pc = x /\ q.rows = {} /\ q.deletes = {} /\ q.seen = NoMeta
    BY <1>1, IdlePhone, Zenon
  <2>2. phone' = q  BY <1>1
  <2> HIDE DEF q
  <2> QED BY <1>1, <2>1, <2>2, IdlePhone
<1>3. TimesOK' /\ RowsOK' /\ MarksOK' /\ CursorGap' /\ ToldOK' /\ DumpOK' /\ DumpedOK'
      /\ Resumed' = Resumed /\ Started' = Started /\ (Complete' <=> Complete) /\ Anchor' = Anchor
      /\ \A r \in Rows : Grave(r)' = Grave(r)
  BY <1>1, <1>2, QuietInv
<1>4. PageOK' /\ PageRowsOK' /\ CutOK' /\ StaleOK' /\ NextOK' /\ DeletesOK' /\ ~Pulling'
      /\ (\A r \in Rows : ~In(phone'.rows, r))
  BY <1>2, RestInv
<1>5. cursor # NoCursor  BY <1>1 DEF CursorOK
<1>6. TypesOK'
  <2> USE Types
  <2> QED BY <1>2, PhoneFields, TypesNext
<1>7. phone.seen.version \in Nat /\ snapshot.version \in Nat /\ granted.version \in Nat /\ phone.seen.version >= 1
  BY <1>1, Types, PhoneFields DEF PermsOK, Perms
<1>8. PermsOK'
  <2>1. \A p, q \in {granted, snapshot, phone.seen, NoMeta} : p.version = q.version => p = q  BY DEF PermsOK
  <2> QED BY <1>2, <1>4, <1>7, <2>1 DEF PermsOK
<1>9. CursorOK'  BY <1>2, <1>3, <1>4, <1>5 DEF CursorOK
<1>10. OldTombs'  BY <1>3, <1>4 DEF OldTombs
<1>11. Passed'
  <2> SUFFICES ASSUME NEW r \in Rows, tomb[r] # 0, UpTo(Grave(r), cursor.t), r \notin late
               PROVE  told[r] = 0 \/ EntityOf[r] \notin phone.seen.view \/ granted.version > phone.seen.version
    BY <1>3 DEF Passed
  <2>1. CASE cursor.t = Anchor
    <3>1. Started # {} /\ tomb[r] < Oldest(Started)  BY <1>5, <2>1, UpToAnchor
    <3> QED BY <3>1 DEF OldTombs
  <2>2. CASE phone.seen = meta  BY <1>5, <2>2 DEF Passed
  <2> QED BY <1>1, <2>1, <2>2 DEF StampOK
<1>12. StampOK'  BY <1>2, <1>7 DEF StampOK
<1> QED BY <1>3, <1>4, <1>6, <1>8, <1>9, <1>10, <1>11, <1>12

\* The phone has no page in hand, and goes on or ends its cycle.
LEMMA GoesOn ==
  ASSUME IInv, UNCHANGED <<clock, row, tomb, txn, granted, progress, told, lprog, cursor, meta, snapshot, owed, late, events>>,
         phone.pc # "coldpage", phone' \in Phones, phone'.pc \in {"idle", "pull"},
         phone'.rows = {}, phone'.deletes = {}, phone'.seen = NoMeta,
         phone'.pc = "pull" => phone.pc = "push"
  PROVE  IInv'
<1> USE DEF IInv
<1>1. NoMeta \in Perms /\ NoMeta.version = 0  BY IdlePhone
<1>2. TimesOK' /\ RowsOK' /\ MarksOK' /\ CursorGap' /\ ToldOK' /\ DumpOK' /\ DumpedOK'
      /\ Resumed' = Resumed /\ Started' = Started /\ (Complete' <=> Complete) /\ Anchor' = Anchor
      /\ \A r \in Rows : Grave(r)' = Grave(r)
  BY QuietInv
<1>3. PageOK' /\ PageRowsOK' /\ CutOK' /\ StaleOK' /\ NextOK' /\ DeletesOK' /\ ~Pulling'
      /\ (\A r \in Rows : ~In(phone'.rows, r))
  BY RestInv
<1>4. TypesOK'
  <2> USE Types
  <2> QED BY TypesNext
<1>5. PermsOK'
  <2>1. granted.version >= 1 /\ snapshot.version >= 1 /\ snapshot.version \in Nat
    BY Types DEF PermsOK, Perms
  <2>2. \A p, q \in {granted, snapshot, meta, NoMeta} : p.version = q.version => p = q  BY DEF PermsOK
  <2> QED BY <1>1, <1>3, <2>1, <2>2 DEF PermsOK
<1>6. CursorOK'  BY <1>2, <1>3 DEF CursorOK
<1>7. OldTombs'  BY <1>2, <1>3 DEF OldTombs
<1>8. Passed'  BY <1>2 DEF Passed
<1>9. StampOK'  BY <1>2 DEF StampOK
<1> QED BY <1>2, <1>3, <1>4, <1>5, <1>6, <1>7, <1>8, <1>9

\* The dead letters are tried again.
LEMMA RetryInv == ASSUME IInv, RetryFailedApplies PROVE IInv'
<1>1. phone' = Idle /\ phone.pc = "retry"  BY DEF RetryFailedApplies
<1>2. UNCHANGED <<clock, row, tomb, txn, granted, progress, told, lprog, cursor, meta, snapshot, owed, late, events>>
  BY DEF RetryFailedApplies, server
<1> QED BY <1>1, <1>2, IdlePhone, GoesOn

\* The drain ends.
LEMMA DrainEndsInv == ASSUME IInv, DrainEnds PROVE IInv'
<1>1. phone' = [Idle EXCEPT !.pc = "pull"] /\ phone.pc = "push" /\ "pull" \in Steps  BY DEF DrainEnds, Steps
<1>2. phone' \in Phones /\ phone'.pc = "pull" /\ phone'.rows = {} /\ phone'.deletes = {} /\ phone'.seen = NoMeta
  <2> DEFINE q == [Idle EXCEPT !.pc = "pull"]
  <2>1. q \in Phones /\ q.pc = "pull" /\ q.rows = {} /\ q.deletes = {} /\ q.seen = NoMeta
    BY <1>1, IdlePhone, Zenon
  <2>2. phone' = q  BY <1>1
  <2> HIDE DEF q
  <2> QED BY <2>1, <2>2
<1>3. UNCHANGED <<clock, row, tomb, txn, granted, progress, told, lprog, cursor, meta, snapshot, owed, late, events>>
  BY DEF DrainEnds, server, history
<1> QED BY <1>1, <1>2, <1>3, GoesOn

\* The phone makes a row of its own.
LEMMA EnqueueInv == ASSUME IInv, NEW r \in Rows, Enqueue(r) PROVE IInv'
<1>1. clock \in 1 .. MaxClock /\ txn \in [Writers -> Times] /\ clock <= clock
  BY Types, Fields DEF IInv
<1>2. events' \in 0 .. MaxEvents  BY Types, PullAssumption DEF IInv, Enqueue, Event
<1> QED BY <1>1, <1>2, ClockInv DEF Enqueue, server, history

\* The cycle breaks off; what was in hand is read again from the cursor.
LEMMA CycleFailsInv == ASSUME IInv, CycleFails PROVE IInv'
<1> USE DEF IInv, CycleFails, server, device, history
<1>1. phone' = Idle  OBVIOUS
<1>2. phone' \in Phones /\ phone'.pc = "idle" /\ phone'.rows = {} /\ phone'.deletes = {} /\ phone'.seen = NoMeta
      /\ NoMeta \in Perms /\ NoMeta.version = 0
  BY <1>1, IdlePhone, PhoneFields
<1>3. owed' \in SUBSET Entities /\ owed \subseteq owed'
      /\ \A e \in Entities \ owed' : InFlight(e) => e \in Resumed
  <2>1. LostDump \in SUBSET Entities  BY PhoneFields DEF LostDump
  <2>2. \A e \in Entities \ owed' : InFlight(e) => e \in Resumed
    BY Constants DEF LostDump, InFlight
  <2> QED BY <2>1, <2>2, Types
<1>4. TimesOK' /\ RowsOK' /\ MarksOK' /\ CursorGap' /\ ToldOK'
      /\ Resumed' = Resumed /\ Started' = Started /\ (Complete' <=> Complete) /\ Anchor' = Anchor
      /\ \A r \in Rows : At(r)' = At(r) /\ Grave(r)' = Grave(r) /\ (Dumped(r)' <=> Dumped(r)) /\ (Told(r)' <=> Told(r))
  BY <1>1, <1>2, <1>3, QuietInv
<1>5. PageOK' /\ PageRowsOK' /\ CutOK' /\ StaleOK' /\ NextOK' /\ DeletesOK' /\ ~Pulling'
      /\ (\A r \in Rows : ~In(phone'.rows, r)) /\ \A e \in Entities \cup {0} : ~InFlight(e)'
  BY <1>2, RestInv
<1>6. TypesOK'
  <2>1. events' \in 0 .. MaxEvents  BY Types, PullAssumption DEF Event
  <2> USE Types
  <2> QED BY <1>2, <1>3, <2>1, TypesNext
<1>7. PermsOK'
  <2>1. granted.version >= 1 /\ snapshot.version >= 1 /\ snapshot.version \in Nat
    BY Types DEF PermsOK, Perms
  <2>2. \A p, q \in {granted, snapshot, meta, NoMeta} : p.version = q.version => p = q  BY DEF PermsOK
  <2> QED BY <1>2, <1>5, <2>1, <2>2 DEF PermsOK
<1>8. CursorOK'  BY <1>2, <1>4, <1>5 DEF CursorOK
<1>9. OldTombs'  BY <1>4, <1>5 DEF OldTombs
<1>10. Passed'  BY <1>4 DEF Passed
<1>11. StampOK'  BY <1>2, <1>4 DEF StampOK
<1>12. DumpOK'  BY <1>3, <1>4 DEF DumpOK
<1>13. DumpedOK'
  <2> SUFFICES ASSUME NEW r \in Rows, EntityOf[r] \notin owed', Dumped(r), row[r].alive, r \notin late,
                      row[r].mod < progress[EntityOf[r]].started, ~Told(r)
               PROVE  EntityOf[r] \in Resumed /\ lprog[EntityOf[r]].cursor < r
    BY <1>4, <1>5, Constants DEF DumpedOK
  <2>1. EntityOf[r] \in Entities \ owed' /\ EntityOf[r] \notin owed  BY <1>3, Constants
  <2>2. CASE InFlight(EntityOf[r]) /\ After(EntityOf[r]) < r
    <3>1. EntityOf[r] \in Resumed  BY <1>3, <2>1, <2>2
    <3> QED BY <2>2, <3>1 DEF After
  <2> QED BY <2>1, <2>2 DEF DumpedOK
<1> QED BY <1>4, <1>5, <1>6, <1>7, <1>8, <1>9, <1>10, <1>11, <1>12, <1>13

-----------------------------------------------------------------------------
(* The delta pull: cutoff and reads. *)

\* The last row of a page, and what comes before it.
LEMMA PageUpTo ==
  ASSUME NEW C \in SUBSET Rows, NEW f, \A r \in Rows : f[r] \in Pos /\ f[r][2] = r,
         NEW page, page = First(C, f), page # {},
         NEW g, \A r \in page : g[r] = f[r]
  PROVE  /\ Last(page, g) \in page /\ Last(page, g) \in C /\ (page \subseteq C)
         /\ \A r \in C : UpTo(f[r], f[Last(page, g)]) => r \in page
<1>1. page \subseteq C  BY DEF First
<1>2. page \in SUBSET Rows /\ \A r \in page : g[r] \in Pos  BY <1>1
<1>3. Last(page, g) \in page  BY <1>2, LastIsGreatest
<1>4. ASSUME NEW r \in C, UpTo(f[r], f[Last(page, g)])  PROVE r \in page
  <2>1. \A q \in C : f[q] \in Pos  OBVIOUS
  <2>2. r \in page \/ f[r] = f[Last(page, g)]  BY <1>3, <1>4, <2>1, FirstIsClosed
  <2>3. f[r] = f[Last(page, g)] => r = Last(page, g)  BY <1>1, <1>3
  <2> QED BY <1>3, <2>2, <2>3
<1> QED BY <1>1, <1>3, <1>4

\* The cutoff is older than now and than every open transaction.
LEMMA CutoffIsOld ==
  ASSUME TypesOK
  PROVE  /\ ReadCutoff \in Int /\ ReadCutoff < clock
         /\ \A w \in Writers : txn[w] # 0 => ReadCutoff <= txn[w]
<1> DEFINE S == {clock - Lag} \cup {txn[w] : w \in {v \in Writers : txn[v] # 0}}
<1>1. clock \in Nat /\ Lag \in Nat /\ Lag >= 1 /\ \A w \in Writers : txn[w] \in Nat
  BY Constants, Fields
<1>2. S \in SUBSET Int /\ S # {} /\ 0 - Lag \in Int /\ \A s \in S : 0 - Lag <= s
  BY <1>1
<1>3. clock - Lag \in S /\ \A w \in Writers : txn[w] # 0 => txn[w] \in S  OBVIOUS
<1>4. ReadCutoff = Oldest(S)  BY DEF ReadCutoff
<1> HIDE DEF S
<1>5. Oldest(S) \in S /\ \A u \in S : Oldest(S) <= u  BY <1>2, OldestIsLeast
<1>6. Oldest(S) \in Int /\ Oldest(S) <= clock - Lag  BY <1>2, <1>3, <1>5
<1> QED BY <1>1, <1>3, <1>4, <1>5, <1>6

\* A pull takes its cutoff: no open transaction is stamped before it.
LEMMA ChangesInv == ASSUME IInv, Changes PROVE IInv'
<1> USE DEF IInv, server, device, history
<1>1. /\ phone' \in Phones
      /\ phone'.pc = "read" /\ phone'.cut = ReadCutoff /\ phone'.view = granted.view /\ phone'.rows = {}
      /\ phone'.next = cursor /\ phone'.deletes = phone.deletes /\ phone'.seen = phone.seen
  BY Types, CutoffIsOld DEF Changes, Phones, Perms, Steps
<1>2. phone.pc = "pull" /\ cursor # NoCursor /\ phone.deletes = {}
  BY DEF Changes, CursorOK
<1>3. TimesOK' /\ RowsOK' /\ MarksOK' /\ CursorGap' /\ ToldOK' /\ DumpOK' /\ DumpedOK'
      /\ Resumed' = Resumed /\ Started' = Started /\ (Complete' <=> Complete) /\ Anchor' = Anchor
      /\ \A r \in Rows : At(r)' = At(r) /\ Grave(r)' = Grave(r) /\ (Told(r)' <=> Told(r)) /\ (Excused(r) => Excused(r)')
  BY <1>1, <1>2, QuietInv DEF Changes
<1>4. Pulling' /\ \A r \in Rows : ~In(phone'.rows, r)  BY <1>1 DEF Pulling, In
<1>5. TypesOK'
  <2> USE Types
  <2> QED BY <1>1, TypesNext DEF Changes
<1>6. UNCHANGED <<clock, row, tomb, txn, granted, progress, told, lprog, cursor, meta, snapshot, owed, late>>
  BY DEF Changes
<1>7. PermsOK'
  <2>1. meta.version = granted.version => granted.view = meta.view  BY DEF PermsOK
  <2> QED BY <1>1, <1>2, <1>4, <1>6, <2>1 DEF PermsOK
<1>8. CursorOK'  BY <1>1, <1>2, <1>3, <1>4, <1>6 DEF CursorOK
<1>9. PageOK' /\ PageRowsOK' /\ StaleOK' /\ OldTombs'
  <2>1. PageOK'  BY <1>1 DEF PageOK
  <2>2. PageRowsOK'  BY <1>1, <1>4 DEF PageRowsOK
  <2>3. StaleOK'  BY <1>1, <1>4 DEF StaleOK
  <2>4. OldTombs'  BY <1>3, <1>4, <1>6 DEF OldTombs
  <2> QED BY <2>1, <2>2, <2>3, <2>4
<1>10. CutOK'  BY <1>1, <1>6, CutoffIsOld DEF CutOK
<1>11. NextOK'  BY <1>1, <1>2, <1>3, <1>6 DEF NextOK, CursorGap, Told
<1>12. Passed'  BY <1>3, <1>6 DEF Passed
<1>13. DeletesOK'  BY <1>1, <1>2 DEF DeletesOK
<1>14. StampOK'  BY <1>1, <1>3, <1>6 DEF StampOK
<1> QED BY <1>3, <1>5, <1>7, <1>8, <1>9, <1>10, <1>11, <1>12, <1>13, <1>14

\* The page of one entity: what its watermark passes is in the page.
LEMMA ReadEntityInv == ASSUME IInv, NEW e \in Entities, ReadEntity(e) PROVE IInv'
<1> USE DEF IInv, server, device, history
<1> DEFINE f == [r \in Rows |-> At(r)]
           page == First(Pending(e), f)
           got == {<<r, row[r].version>> : r \in page}
           mark == Watermark(e, page)
<1>1. phone.pc = "read" /\ e \in phone.todo /\ Pulling /\ cursor # NoCursor /\ phone.next # NoCursor
  BY DEF ReadEntity, CursorOK, Pulling
<1>2. UNCHANGED <<clock, row, tomb, txn, granted, progress, told, lprog, cursor, meta, snapshot, owed, late>>
  BY DEF ReadEntity
<1>3. /\ page \subseteq Pending(e) /\ Pending(e) \subseteq Rows
      /\ \A r \in page : r \in Rows /\ row[r].alive /\ EntityOf[r] = e /\ row[r].mod < phone.cut /\ row[r].version \in Versions
  BY Fields DEF First, Pending, Of
<1>4. got \subseteq Rows \X Versions
  <2>1. \A r \in page : r \in Rows /\ row[r].version \in Versions  BY <1>3
  <2> HIDE DEF page
  <2> QED BY <2>1
<1>5. phone.next \in Cursors /\ phone.next.e \in [Entities -> Pos] /\ phone.next.t \in Pos
      /\ cursor.e \in [Entities -> Pos] /\ cursor.t \in Pos
  BY <1>1, Types, PhoneFields, Marks
<1>6. \A r \in Rows : f[r] \in Pos /\ f[r] = At(r) /\ f[r][2] = r  BY Fields
<1>7. ASSUME page # {}
      PROVE  \E l \in page : /\ mark = At(l) /\ \A r \in Pending(e) : UpTo(At(r), At(l)) => r \in page
  <2> DEFINE g == [r \in page |-> At(r)]
  <2>1. \A r \in page : g[r] = f[r]  BY <1>3, <1>6
  <2>2. mark = At(Last(page, g))  BY <1>7 DEF Watermark
  <2>3. Pending(e) \in SUBSET Rows  BY <1>3
  <2> HIDE DEF g, mark
  <2>4. Last(page, g) \in page /\ \A r \in Pending(e) : UpTo(f[r], f[Last(page, g)]) => r \in page
    <3> DEFINE p == page
    <3>1. p = First(Pending(e), f) /\ p # {} /\ \A r \in p : g[r] = f[r]  BY <1>7, <2>1
    <3> HIDE DEF p, f
    <3>2. Last(p, g) \in p /\ \A r \in Pending(e) : UpTo(f[r], f[Last(p, g)]) => r \in p
      BY <1>6, <2>3, <3>1, PageUpTo
    <3> QED BY <3>1, <3>2
  <2> HIDE DEF f
  <2> QED BY <1>3, <1>6, <2>2, <2>3, <2>4
<1>8. mark \in Pos /\ (page = {} => mark = phone.next.e[e]) /\ (page # {} => mark[1] < phone.cut)
  <2>1. page = {} => mark = phone.next.e[e]  BY DEF Watermark
  <2> HIDE DEF mark, page
  <2> QED BY <1>3, <1>5, <1>7, <2>1, Fields
<1>9. /\ phone' \in Phones
      /\ phone'.pc = "read" /\ phone'.cut = phone.cut /\ phone'.view = phone.view /\ phone'.rows = phone.rows \cup got
      /\ phone'.todo = phone.todo \ {e} /\ phone'.deletes = phone.deletes /\ phone'.seen = phone.seen
      /\ phone'.next.e = [phone.next.e EXCEPT ![e] = mark] /\ phone'.next.t = phone.next.t /\ phone'.next # NoCursor
  <2> DEFINE more == phone.more \/ page # Pending(e)
             next == [e |-> [phone.next.e EXCEPT ![e] = mark], t |-> phone.next.t]
  <2>1. phone' = [phone EXCEPT !.todo = phone.todo \ {e}, !.more = more, !.rows = phone.rows \cup got, !.next = next]
    BY DEF ReadEntity
  <2>2. more \in BOOLEAN  OBVIOUS
  <2> HIDE DEF mark, got
  <2>3. next \in Cursors /\ next.e = [phone.next.e EXCEPT ![e] = mark] /\ next.t = phone.next.t
    BY <1>5, <1>8 DEF Cursors
  <2>4. next # NoCursor  BY <2>3, Constants
  <2> HIDE DEF next, more
  <2>5. phone \in Phones  BY Types
  <2> QED BY <1>1, <1>4, <2>1, <2>2, <2>3, <2>4, <2>5 DEF Phones
<1> HIDE DEF mark
<1>10. TimesOK' /\ RowsOK' /\ MarksOK' /\ CursorGap' /\ ToldOK' /\ DumpOK' /\ DumpedOK'
      /\ Resumed' = Resumed /\ Started' = Started /\ (Complete' <=> Complete) /\ Anchor' = Anchor
      /\ \A r \in Rows : At(r)' = At(r) /\ Grave(r)' = Grave(r) /\ (Told(r)' <=> Told(r)) /\ (Excused(r) => Excused(r)')
  BY <1>1, <1>2, <1>9, QuietInv
<1>11. \A r \in Rows : \A v : <<r, v>> \in got <=> r \in page /\ v = row[r].version  OBVIOUS
<1> HIDE DEF page, got
<1>12. Pulling' /\ \A r \in Rows : In(phone'.rows, r) => In(phone.rows, r) \/ r \in page
  BY <1>9, <1>11 DEF Pulling, In
<1>13. TypesOK'
  <2> USE Types
  <2> QED BY <1>2, <1>9, TypesNext DEF ReadEntity
<1>14. PermsOK'  BY <1>1, <1>2, <1>9, <1>12 DEF PermsOK
<1>15. CursorOK'  BY <1>1, <1>2, <1>9, <1>10, <1>12 DEF CursorOK
<1>16. PageOK'  BY <1>9 DEF PageOK
<1>17. PageRowsOK'
  <2>1. \A r \in page : ~In(phone.rows, r)  BY <1>1, <1>3 DEF PageRowsOK
  <2>2. ASSUME NEW r \in Rows, NEW v \in Versions, NEW u \in Versions,
               <<r, v>> \in phone'.rows, <<r, u>> \in phone'.rows
        PROVE  v = u
    <3>1. CASE r \in page
      <4>1. <<r, v>> \notin phone.rows /\ <<r, u>> \notin phone.rows  BY <2>1, <3>1 DEF In
      <4> QED BY <1>9, <1>11, <2>2, <4>1
    <3>2. CASE r \notin page
      <4>1. <<r, v>> \in phone.rows /\ <<r, u>> \in phone.rows  BY <1>9, <1>11, <2>2, <3>2
      <4> QED BY <4>1 DEF PageRowsOK
    <3> QED BY <3>1, <3>2
  <2>3. \A r \in Rows : In(phone'.rows, r) => EntityOf[r] \notin phone'.todo
    BY <1>1, <1>3, <1>9, <1>12 DEF PageRowsOK
  <2>4. \A r \in Rows : <<r, 0>> \notin phone'.rows
    <3>1. \A r \in page : row[r].version # 0  BY <1>3 DEF RowsOK
    <3>2. \A r \in Rows : <<r, 0>> \notin phone.rows  BY DEF PageRowsOK
    <3>3. \A r \in Rows : <<r, 0>> \notin got  BY <1>11, <3>1
    <3>4. phone'.rows = phone.rows \cup got  BY <1>9
    <3> QED BY <3>2, <3>3, <3>4
  <2> QED BY <2>2, <2>3, <2>4 DEF PageRowsOK
<1>18. CutOK'
  <2>1. ASSUME NEW x \in Entities
        PROVE  phone'.next.e[x] = cursor.e[x] \/ phone'.next.e[x][1] < phone.cut
    <3>1. CASE x # e
      <4>1. phone'.next.e[x] = phone.next.e[x]  BY <1>5, <1>9, <3>1
      <4> QED BY <1>1, <4>1 DEF CutOK
    <3>2. CASE x = e
      <4>1. phone'.next.e[x] = mark  BY <1>5, <1>9, <3>2
      <4> QED BY <1>1, <1>8, <3>2, <4>1 DEF CutOK
    <3> QED BY <3>1, <3>2
  <2> QED BY <1>1, <1>2, <1>9, <2>1 DEF CutOK
<1>19. StaleOK'
  <2> SUFFICES ASSUME NEW r \in Rows, In(phone'.rows, r)
      PROVE  /\ row[r].alive => \/ <<r, row[r].version>> \in phone'.rows \/ r \in late
                                \/ phone.cut <= row[r].mod /\ Before(cursor.e[EntityOf[r]], At(r))
                                   /\ progress[EntityOf[r]].started <= row[r].mod
             /\ tomb[r] # 0 => r \in late \/ (phone.cut <= tomb[r] /\ Before(cursor.t, Grave(r)))
    BY <1>2, <1>9, <1>10 DEF StaleOK
  <2>1. CASE r \in page
    <3>1. <<r, row[r].version>> \in phone'.rows  BY <1>9, <1>11, <2>1
    <3>2. tomb[r] = 0  BY <1>3, <2>1 DEF RowsOK
    <3> QED BY <3>1, <3>2
  <2>2. CASE In(phone.rows, r)  BY <1>1, <1>9, <2>2 DEF StaleOK
  <2> QED BY <1>12, <2>1, <2>2
<1>20. NextOK'
  <2> SUFFICES ASSUME NEW r \in Rows, row[r].alive, UpTo(At(r), phone'.next.e[EntityOf[r]]), ~Excused(r), ~Told(r)
               PROVE  <<r, row[r].version>> \in phone'.rows
    BY <1>2, <1>10 DEF NextOK
  <2>0. EntityOf[r] \in Entities  BY Constants
  <2>1. CASE UpTo(At(r), phone.next.e[EntityOf[r]])  BY <1>1, <1>9, <2>1 DEF NextOK
  <2>2. CASE EntityOf[r] # e
    <3>1. phone'.next.e[EntityOf[r]] = phone.next.e[EntityOf[r]]  BY <1>5, <1>9, <2>0, <2>2
    <3> QED BY <2>1, <3>1
  <2>3. CASE EntityOf[r] = e /\ ~UpTo(At(r), phone.next.e[e])
    <3>1. phone'.next.e[e] = mark  BY <1>5, <1>9
    <3>2. page # {}  BY <1>8, <2>3, <3>1
    <3>3. PICK l \in page : mark = At(l) /\ \A q \in Pending(e) : UpTo(At(q), At(l)) => q \in page
      BY <1>7, <3>2
    <3>4. UpTo(At(r), At(l)) /\ row[l].mod < phone.cut /\ l \in Rows  BY <1>3, <2>3, <3>1, <3>3
    <3>5. row[r].mod <= row[l].mod  BY <3>4, Fields DEF UpTo, Before
    <3>6. row[r].mod < phone.cut  BY <3>4, <3>5, Fields, PhoneFields
    <3>7. ~UpTo(At(r), cursor.e[e])  BY <1>1, <2>3 DEF CursorGap, Told
    <3>8. Before(cursor.e[e], At(r))
      <4>1. At(r) \in Pos /\ cursor.e[e] \in Pos  BY <1>5, Fields
      <4> QED BY <3>7, <4>1, KeysetOrder DEF UpTo
    <3>9. r \in Pending(e)  BY <2>3, <3>6, <3>8 DEF Pending, Of
    <3> QED BY <1>9, <1>11, <3>3, <3>4, <3>9
  <2> QED BY <2>1, <2>2, <2>3
<1>21. OldTombs'
  <2>1. \A r \in page : tomb[r] = 0  BY <1>3 DEF RowsOK
  <2> QED BY <1>2, <1>10, <1>12, <2>1 DEF OldTombs
<1>22. Passed'  BY <1>2, <1>10 DEF Passed
<1>23. DeletesOK'  BY <1>1, <1>2, <1>9 DEF DeletesOK
<1>24. StampOK'  BY <1>2, <1>9, <1>10 DEF StampOK
<1> QED BY <1>10, <1>13, <1>14, <1>15, <1>16, <1>17, <1>18, <1>19, <1>20, <1>21, <1>22, <1>23, <1>24

\* The page of tombstones, and the answer.
LEMMA ReadTombstonesInv == ASSUME IInv, ReadTombstones PROVE IInv'
<1> USE DEF IInv, server, device, history
<1> DEFINE f == [r \in Rows |-> Grave(r)]
           page == First(Buried, f)
           gone == {r \in page : EntityOf[r] \in phone.view}
           mark == IF page = {} THEN phone.next.t ELSE Grave(Last(page, [r \in page |-> Grave(r)]))
<1>1. phone.pc = "read" /\ Pulling /\ cursor # NoCursor /\ phone.next # NoCursor
  BY DEF ReadTombstones, CursorOK, Pulling
<1>2. UNCHANGED <<clock, row, tomb, txn, granted, progress, told, lprog, cursor, meta, snapshot, owed, late, events>>
  BY DEF ReadTombstones
<1>3. /\ page \subseteq Buried /\ Buried \subseteq Rows
      /\ \A r \in page : r \in Rows /\ tomb[r] # 0 /\ tomb[r] < phone.cut
  BY DEF First, Buried
<1>4. gone \subseteq Rows /\ (\A r \in gone : tomb[r] # 0) /\ \A r \in page : r \in gone \/ EntityOf[r] \notin phone.view
  BY <1>3
<1>5. phone.next \in Cursors /\ phone.next.e \in [Entities -> Pos] /\ phone.next.t \in Pos
      /\ cursor.e \in [Entities -> Pos] /\ cursor.t \in Pos /\ phone.next.t = cursor.t
  BY <1>1, Types, PhoneFields, Marks DEF CutOK
<1>6. \A r \in Rows : f[r] \in Pos /\ f[r] = Grave(r) /\ f[r][2] = r  BY Fields
<1>7. ASSUME page # {}
      PROVE  \E l \in page : mark = Grave(l) /\ \A r \in Buried : UpTo(Grave(r), Grave(l)) => r \in page
  <2> DEFINE g == [r \in page |-> Grave(r)]
             p == page
  <2>1. \A r \in page : g[r] = f[r]  BY <1>3, <1>6
  <2>2. mark = Grave(Last(page, g))  BY <1>7
  <2>3. Buried \in SUBSET Rows  BY <1>3
  <2>4. p = First(Buried, f) /\ p # {} /\ \A r \in p : g[r] = f[r]  BY <1>7, <2>1
  <2> HIDE DEF g, mark, p, f
  <2>5. Last(p, g) \in p /\ \A r \in Buried : UpTo(f[r], f[Last(p, g)]) => r \in p
    BY <1>6, <2>3, <2>4, PageUpTo
  <2>6. p \subseteq Rows /\ mark = Grave(Last(p, g))  BY <1>3, <2>2 DEF p
  <2>7. mark = Grave(Last(p, g)) /\ \A r \in Buried : UpTo(Grave(r), Grave(Last(p, g))) => r \in p
    BY <1>6, <2>3, <2>5, <2>6
  <2>8. \E l \in p : mark = Grave(l) /\ \A r \in Buried : UpTo(Grave(r), Grave(l)) => r \in p
    BY <2>5, <2>7
  <2> QED BY <2>8 DEF p
<1>8. mark \in Pos /\ (page = {} => mark = phone.next.t) /\ (page # {} => mark[1] < phone.cut)
  <2>1. page = {} => mark = phone.next.t  OBVIOUS
  <2> HIDE DEF mark, page
  <2> QED BY <1>3, <1>5, <1>7, <2>1, Fields
<1>9. /\ phone' \in Phones
      /\ phone'.pc = "page" /\ phone'.cut = phone.cut /\ phone'.view = phone.view /\ phone'.rows = phone.rows
      /\ phone'.deletes = gone /\ phone'.seen = phone.seen
      /\ phone'.next.e = phone.next.e /\ phone'.next.t = mark /\ phone'.next # NoCursor
  <2> DEFINE more == phone.more \/ page # Buried
             next == [e |-> phone.next.e, t |-> mark]
  <2>1. phone' = [phone EXCEPT !.pc = "page", !.more = more, !.deletes = gone, !.next = next]
    BY DEF ReadTombstones
  <2>2. more \in BOOLEAN  OBVIOUS
  <2> HIDE DEF mark, gone
  <2>3. next \in Cursors /\ next.e = phone.next.e /\ next.t = mark
    BY <1>5, <1>8 DEF Cursors
  <2>4. next # NoCursor  BY <2>3, Constants
  <2> HIDE DEF next, more
  <2>5. phone \in Phones /\ "page" \in Steps /\ gone \in SUBSET Rows  BY <1>4, Types DEF Steps
  <2> QED BY <2>1, <2>2, <2>3, <2>4, <2>5 DEF Phones
<1> HIDE DEF mark
<1>10. TimesOK' /\ RowsOK' /\ MarksOK' /\ CursorGap' /\ ToldOK' /\ DumpOK' /\ DumpedOK'
      /\ Resumed' = Resumed /\ Started' = Started /\ (Complete' <=> Complete) /\ Anchor' = Anchor
      /\ \A r \in Rows : At(r)' = At(r) /\ Grave(r)' = Grave(r) /\ (Told(r)' <=> Told(r)) /\ (Excused(r) => Excused(r)')
  BY <1>1, <1>2, <1>9, QuietInv
<1> HIDE DEF page, gone
<1>11. Pulling'  BY <1>9 DEF Pulling
<1>12. TypesOK'
  <2> USE Types
  <2> QED BY <1>2, <1>9, TypesNext
<1>13. PermsOK'  BY <1>1, <1>2, <1>9, <1>11 DEF PermsOK
<1>14. CursorOK'  BY <1>1, <1>2, <1>9, <1>10, <1>11 DEF CursorOK
<1>15. PageOK'  BY <1>9 DEF PageOK
<1>16. PageRowsOK'  BY <1>9 DEF PageRowsOK
<1>17. CutOK'
  <2>1. mark = cursor.t \/ mark[1] < phone.cut  BY <1>5, <1>8
  <2> QED BY <1>1, <1>2, <1>9, <2>1 DEF CutOK
<1>18. StaleOK'  BY <1>1, <1>2, <1>9, <1>10 DEF StaleOK
<1>19. NextOK'  BY <1>1, <1>2, <1>9, <1>10 DEF NextOK
<1>20. OldTombs'  BY <1>2, <1>9, <1>10 DEF OldTombs
<1>21. Passed'  BY <1>2, <1>10 DEF Passed
<1>22. DeletesOK'
  <2>1. ASSUME NEW r \in Rows, tomb[r] # 0, UpTo(Grave(r), mark), ~UpTo(Grave(r), cursor.t)
        PROVE  r \in gone \/ EntityOf[r] \notin phone.view
    <3>1. page # {}  BY <1>5, <1>8, <2>1
    <3>2. PICK l \in page : mark = Grave(l) /\ \A q \in Buried : UpTo(Grave(q), Grave(l)) => q \in page
      BY <1>7, <3>1
    <3>3. UpTo(Grave(r), Grave(l)) /\ tomb[l] < phone.cut /\ l \in Rows  BY <1>3, <2>1, <3>2
    <3>4. tomb[r] <= tomb[l]  BY <3>3, Fields DEF UpTo, Before
    <3>5. tomb[r] < phone.cut  BY <3>3, <3>4, Fields, PhoneFields
    <3>6. Before(cursor.t, Grave(r))
      <4>1. Grave(r) \in Pos /\ cursor.t \in Pos  BY <1>5, Fields
      <4> QED BY <2>1, <4>1, KeysetOrder DEF UpTo
    <3>7. r \in Buried  BY <2>1, <3>5, <3>6 DEF Buried
    <3> QED BY <1>4, <3>2, <3>3, <3>7
  <2> QED BY <1>2, <1>4, <1>9, <1>10, <2>1 DEF DeletesOK
<1>23. StampOK'  BY <1>2, <1>9, <1>10 DEF StampOK
<1> QED BY <1>10, <1>12, <1>13, <1>14, <1>15, <1>16, <1>17, <1>18, <1>19, <1>20, <1>21, <1>22, <1>23

-----------------------------------------------------------------------------
(* The cold start. *)

\* The entity an initial call is about.
LEMMA WantedOne ==
  ASSUME TypesOK
  PROVE  /\ Wanted = {} => Resumed = {} /\ Complete
         /\ \A e \in Wanted : e \in Entities
                              /\ (e \in Resumed \/ (Resumed = {} /\ progress[e].phase # "completed"))
<1> DEFINE S == {e \in Entities : progress[e].phase # "completed"}
<1>1. S \in SUBSET Int /\ \A s \in S : 0 <= s
  <2>1. S \subseteq Nat  BY Constants
  <2> HIDE DEF S
  <2> QED BY <2>1
<1>2. CASE Resumed # {}
  <2>1. Wanted = Resumed  BY <1>2 DEF Wanted
  <2>2. Resumed \subseteq Entities  BY DEF Resumed
  <2> QED BY <1>2, <2>1, <2>2
<1>3. CASE Resumed = {}
  <2>1. Wanted = Lowest(S)  BY <1>3 DEF Wanted
  <2>2. CASE S = {}
    <3>1. Wanted = {}  BY <2>1, <2>2 DEF Lowest
    <3> QED BY <1>3, <2>2, <3>1 DEF Complete
  <2>3. CASE S # {}
    <3> HIDE DEF S
    <3>1. Wanted = {Oldest(S)}  BY <2>1, <2>3 DEF Lowest, Oldest
    <3>2. Oldest(S) \in S  BY <1>1, <2>3, OldestIsLeast
    <3> QED BY <1>3, <3>1, <3>2 DEF S
  <2> QED BY <2>2, <2>3
<1> QED BY <1>2, <1>3

\* The cursor of a completed cold start.
LEMMA AnchorsIsCursor == ASSUME TypesOK, Complete PROVE Anchors(progress) \in Cursors
<1>1. Anchors(progress).t = Anchor /\ Anchors(progress).e = [e \in Entities |-> <<progress[e].started, 0>>]
  BY Starts
<1>2. Anchor \in Pos  BY Starts DEF Anchor, Pos
<1>3. [e \in Entities |-> <<progress[e].started, 0>>] \in [Entities -> Pos]  BY Fields DEF Pos
<1>4. Anchors(progress) = [e |-> Anchors(progress).e, t |-> Anchors(progress).t]  BY DEF Anchors
<1> QED BY <1>1, <1>2, <1>3, <1>4 DEF Cursors

\* A cold start that finds every dump complete.
LEMMA InitialCompleteInv == ASSUME IInv, InitialComplete PROVE IInv'
<1> USE DEF IInv, server, device, history
<1>1. phone.pc = "cold" /\ Resumed = {} /\ Complete  BY WantedOne DEF InitialComplete
<1>2. Anchors(progress) \in Cursors /\ Anchors(progress) # NoCursor  BY <1>1, AnchorsIsCursor, Constants
<1>3. /\ phone' \in Phones
      /\ phone'.pc = "coldpage" /\ phone'.entity = 0 /\ phone'.rows = {} /\ phone'.next = Anchors(progress)
      /\ phone'.deletes = phone.deletes /\ phone'.seen = phone.seen
  BY <1>2, Types DEF InitialComplete, Phones, Steps
<1>4. UNCHANGED <<clock, row, tomb, txn, granted, progress, told, lprog, cursor, meta, snapshot, owed, late, events>>
  BY DEF InitialComplete
<1>5. TimesOK' /\ RowsOK' /\ MarksOK' /\ CursorGap' /\ ToldOK'
      /\ Resumed' = Resumed /\ Started' = Started /\ (Complete' <=> Complete) /\ Anchor' = Anchor
      /\ \A r \in Rows : At(r)' = At(r) /\ Grave(r)' = Grave(r) /\ (Dumped(r)' <=> Dumped(r)) /\ (Told(r)' <=> Told(r))
  BY <1>4, QuietInv
<1>6. ~Pulling' /\ (\A r \in Rows : ~In(phone'.rows, r)) /\ \A e \in Entities : ~InFlight(e)' /\ ~InFlight(e)
  BY <1>1, <1>3, Constants DEF Pulling, In, InFlight
<1>7. TypesOK'
  <2> USE Types
  <2> QED BY <1>3, <1>4, TypesNext
<1>8. PermsOK'  BY <1>1, <1>3, <1>4, <1>6 DEF PermsOK
<1>9. CursorOK'  BY <1>1, <1>3, <1>4, <1>5, <1>6 DEF CursorOK
<1>10. DumpOK'  BY <1>4, <1>5, <1>6 DEF DumpOK
<1>11. PageOK'
  <2>1. Anchors(progress)' = Anchors(progress)  BY <1>4 DEF Anchors
  <2> QED BY <1>1, <1>2, <1>3, <1>5, <1>6, <2>1 DEF PageOK
<1>12. PageRowsOK'  BY <1>3 DEF PageRowsOK
<1>13. CutOK' /\ StaleOK' /\ NextOK'  BY <1>6 DEF CutOK, StaleOK, NextOK
<1>14. DumpedOK'
  <2>1. EntityOf \in [Rows -> Entities]  BY Constants
  <2> QED BY <1>4, <1>5, <1>6, <2>1 DEF DumpedOK
<1>15. OldTombs'  BY <1>4, <1>5, <1>6 DEF OldTombs
<1>16. Passed'  BY <1>4, <1>5 DEF Passed
<1>17. DeletesOK'  BY <1>3, <1>4 DEF DeletesOK
<1>18. StampOK'  BY <1>3, <1>4, <1>5 DEF StampOK
<1> QED BY <1>5, <1>7, <1>8, <1>9, <1>10, <1>11, <1>12, <1>13, <1>14, <1>15, <1>16, <1>17, <1>18

-----------------------------------------------------------------------------
(* The apply of a page. *)

\* A page with one version of a row, and what a table holds after it.
OneVersion(page) == \A r \in Rows : \A v, u \in Versions : <<r, v>> \in page /\ <<r, u>> \in page => v = u

LEMMA StoredPage ==
  ASSUME NEW table \in [Rows -> Versions], NEW page, OneVersion(page), NEW bad
  PROVE  /\ Stored(table, page, bad) \in [Rows -> Versions]
         /\ \A r \in Rows, v \in Versions : <<r, v>> \in page \ bad => Stored(table, page, bad)[r] = v
         /\ \A r \in Rows, v \in Versions : <<r, v>> \in page \cap bad => Stored(table, page, bad)[r] = table[r]
         /\ \A r \in Rows : ~In(page, r) => Stored(table, page, bad)[r] = table[r]
<1>1. \A r \in Rows : In(page, r) => VersionIn(page, r) \in Versions /\ <<r, VersionIn(page, r)>> \in page
  BY DEF In, VersionIn
<1>2. \A r \in Rows, v \in Versions : <<r, v>> \in page => In(page, r) /\ VersionIn(page, r) = v
  BY <1>1 DEF In, OneVersion
<1>3. Stored(table, page, bad) \in [Rows -> Versions]  BY <1>1 DEF Stored
<1> QED BY <1>2, <1>3 DEF Stored

\* The dead letters after it.
LEMMA FailedPage ==
  ASSUME NEW letters \in [Rows -> DeadLetter], NEW page, OneVersion(page), NEW bad
  PROVE  /\ Failed(letters, page, bad) \in [Rows -> DeadLetter]
         /\ \A r \in Rows, v \in Versions : <<r, v>> \in page \cap bad =>
               Failed(letters, page, bad)[r].version = v /\ Failed(letters, page, bad)[r].attempts # 0
         /\ \A r \in Rows, v \in Versions : <<r, v>> \in page \ bad => Failed(letters, page, bad)[r] = letters[r]
         /\ \A r \in Rows : ~In(page, r) => Failed(letters, page, bad)[r] = letters[r]
<1>1. \A r \in Rows : In(page, r) => VersionIn(page, r) \in Versions /\ <<r, VersionIn(page, r)>> \in page
  BY DEF In, VersionIn
<1>2. \A r \in Rows, v \in Versions : <<r, v>> \in page => In(page, r) /\ VersionIn(page, r) = v
  BY <1>1 DEF In, OneVersion
<1>3. \A r \in Rows : letters[r].attempts \in Nat  BY DEF DeadLetter
<1>4. \A r \in Rows : letters[r].attempts + 1 \in Nat /\ letters[r].attempts + 1 # 0  BY <1>3
<1>5. \A r \in Rows : In(page, r) =>
        [version |-> VersionIn(page, r), attempts |-> letters[r].attempts + 1] \in DeadLetter
  BY <1>1, <1>4 DEF DeadLetter
<1>6. Failed(letters, page, bad) \in [Rows -> DeadLetter]  BY <1>5 DEF Failed
<1>7. \A r \in Rows, v \in Versions : <<r, v>> \in page \cap bad =>
        Failed(letters, page, bad)[r].version = v /\ Failed(letters, page, bad)[r].attempts # 0
  BY <1>2, <1>4 DEF Failed
<1> QED BY <1>2, <1>6, <1>7 DEF Failed

\* The tombstones of a page.
LEMMA GravesPage ==
  ASSUME TypesOK
  PROVE  /\ OneVersion(Graves) /\ \A r \in Rows : In(Graves, r) <=> r \in phone.deletes
         /\ \A r \in Rows, v \in Versions : <<r, v>> \in Graves <=> v = 0 /\ r \in phone.deletes
<1>1. 0 \in Versions /\ (phone.deletes \subseteq Rows)  BY Constants, PhoneFields DEF Versions
<1>2. \A r \in Rows : \A v : <<r, v>> \in Graves <=> v = 0 /\ r \in phone.deletes  BY DEF Graves
<1>3. OneVersion(Graves)  BY <1>2 DEF OneVersion
<1>4. \A r \in Rows : In(Graves, r) <=> r \in phone.deletes  BY <1>1, <1>2 DEF In
<1> HIDE DEF Graves
<1> QED BY <1>2, <1>3, <1>4

\* What the phone is told by a page.
LEMMA PageArrives ==
  ASSUME TypesOK, PageRowsOK
  PROVE  LET st == Stored(told, phone.rows, {})
         IN  /\ st \in [Rows -> Versions]
             /\ \A r \in Rows, v \in Versions : <<r, v>> \in phone.rows => st[r] = v
             /\ \A r \in Rows : ~In(phone.rows, r) => st[r] = told[r]
             /\ AfterPage(told, phone.rows, {}) = [r \in Rows |-> IF r \in phone.deletes THEN 0 ELSE st[r]]
<1> DEFINE st == Stored(told, phone.rows, {})
<1>1. told \in [Rows -> Versions]  BY Types
<1>2. OneVersion(phone.rows)  BY DEF PageRowsOK, OneVersion
<1>3. /\ st \in [Rows -> Versions]
      /\ \A r \in Rows, v \in Versions : <<r, v>> \in phone.rows => st[r] = v
      /\ \A r \in Rows : ~In(phone.rows, r) => st[r] = told[r]
  BY <1>1, <1>2, StoredPage
<1>4. AfterPage(told, phone.rows, {}) = Stored(st, Graves, {})  BY DEF AfterPage
<1> HIDE DEF st
<1>5. /\ Stored(st, Graves, {}) \in [Rows -> Versions]
      /\ \A r \in Rows, v \in Versions : <<r, v>> \in Graves => Stored(st, Graves, {})[r] = v
      /\ \A r \in Rows : ~In(Graves, r) => Stored(st, Graves, {})[r] = st[r]
  BY <1>3, GravesPage, StoredPage
<1>6. \A r \in Rows : Stored(st, Graves, {})[r] = IF r \in phone.deletes THEN 0 ELSE st[r]
  <2>1. 0 \in Versions  BY Constants DEF Versions
  <2> QED BY <1>5, <2>1, GravesPage
<1>7. Stored(st, Graves, {}) = [r \in Rows |-> IF r \in phone.deletes THEN 0 ELSE st[r]]
  BY <1>5, <1>6
<1> QED BY <1>3, <1>4, <1>7 DEF st

\* A page and its cursor are stored in one transaction.
LEMMA ApplyChangesInv == ASSUME IInv, ApplyChanges PROVE IInv'
<1> USE DEF IInv, server
<1> DEFINE st == Stored(told, phone.rows, {})
           p == IF phone.more THEN "pull" ELSE "retry"
<1>1. phone.pc = "page" /\ Pulling /\ cursor # NoCursor /\ phone.next # NoCursor /\ Resumed = {} /\ Complete
  BY DEF ApplyChanges, CursorOK, Pulling
<1>2. UNCHANGED <<clock, row, tomb, txn, granted, progress, lprog, meta, snapshot, owed, late, events>>
  BY DEF ApplyChanges
<1>3. cursor' = phone.next /\ told' = [r \in Rows |-> IF r \in phone.deletes THEN 0 ELSE st[r]]
  BY PageArrives DEF ApplyChanges
<1>4. /\ phone' \in Phones /\ phone'.pc \in {"pull", "retry"} /\ phone'.rows = {} /\ phone'.deletes = {}
      /\ phone'.seen = NoMeta /\ NoMeta \in Perms /\ NoMeta.version = 0
  <2> DEFINE q == [Idle EXCEPT !.pc = p]
  <2>1. p \in Steps /\ p \in {"pull", "retry"}  BY DEF Steps
  <2>2. phone' = q  BY DEF ApplyChanges
  <2> HIDE DEF p
  <2>3. q \in Phones /\ q.pc = p /\ q.rows = {} /\ q.deletes = {} /\ q.seen = NoMeta
    BY <2>1, IdlePhone, Zenon
  <2> HIDE DEF q
  <2> QED BY <2>1, <2>2, <2>3, IdlePhone
<1>5. /\ st \in [Rows -> Versions]
      /\ \A r \in Rows, v \in Versions : <<r, v>> \in phone.rows => st[r] = v
      /\ \A r \in Rows : ~In(phone.rows, r) => st[r] = told[r]
  BY PageArrives
<1> HIDE DEF st
<1>6. told' \in [Rows -> Versions]
      /\ \A r \in Rows : (r \in phone.deletes => told'[r] = 0) /\ (r \notin phone.deletes => told'[r] = st[r])
  BY <1>3, <1>5, Constants DEF Versions
<1>7. phone.next \in Cursors /\ phone.next.e \in [Entities -> Pos] /\ phone.next.t \in Pos
      /\ cursor.e \in [Entities -> Pos] /\ cursor.t \in Pos
  BY <1>1, Types, PhoneFields, Marks
<1>8. Resumed' = Resumed /\ Started' = Started /\ (Complete' <=> Complete) /\ Anchor' = Anchor
      /\ \A r \in Rows : At(r)' = At(r) /\ Grave(r)' = Grave(r) /\ (Dumped(r)' <=> Dumped(r)) /\ (Excused(r)' <=> Excused(r))
  BY <1>2 DEF Resumed, Started, Complete, Anchor, At, Grave, Dumped, Excused
<1>9. PageOK' /\ PageRowsOK' /\ CutOK' /\ StaleOK' /\ NextOK' /\ DeletesOK' /\ ~Pulling'
      /\ (\A r \in Rows : ~In(phone'.rows, r)) /\ \A e \in Entities : ~InFlight(e)'
  BY <1>4, RestInv
<1>10. TypesOK'
  <2> USE Types
  <2> QED BY <1>2, <1>3, <1>4, <1>5, <1>6, <1>7, TypesNext
<1>11. TimesOK' /\ RowsOK'  BY <1>2 DEF TimesOK, RowsOK
<1>12. PermsOK'
  <2>1. granted.version >= 1 /\ snapshot.version >= 1 /\ snapshot.version \in Nat
    BY Types DEF PermsOK, Perms
  <2>2. \A x, y \in {granted, snapshot, meta, NoMeta} : x.version = y.version => x = y  BY DEF PermsOK
  <2> QED BY <1>1, <1>2, <1>4, <1>9, <2>1, <2>2 DEF PermsOK
<1>13. CursorOK'  BY <1>1, <1>3, <1>4, <1>8, <1>9 DEF CursorOK
<1>14. \A e \in Entities : ~InFlight(e)  BY <1>1 DEF InFlight
<1>15. DumpOK'  BY <1>2, <1>8, <1>9, <1>14 DEF DumpOK
<1>16. MarksOK'
  <2>1. \A q \in Pos : q[1] < phone.cut => q[1] < clock /\ \A w \in Writers : txn[w] # 0 => q[1] < txn[w]
    <3> TAKE q \in Pos
    <3>1. q[1] \in Int /\ phone.cut \in Int /\ clock \in Int /\ \A w \in Writers : txn[w] \in Int
      BY Fields, PhoneFields DEF Pos
    <3> QED BY <1>1, <3>1 DEF CutOK
  <2>2. \A q \in Pos : \A a : q[1] < phone.cut => Behind(q, a)  BY <2>1 DEF Behind
  <2>3. \A e \in Entities : Behind(phone.next.e[e], <<progress[e].started, 0>>)
    <3> TAKE e \in Entities
    <3>1. CASE phone.next.e[e] = cursor.e[e]  BY <1>1, <3>1 DEF MarksOK
    <3>2. CASE phone.next.e[e][1] < phone.cut  BY <1>7, <2>2, <3>2
    <3> QED BY <1>1, <3>1, <3>2 DEF CutOK
  <2>4. Behind(phone.next.t, Anchor)
    <3>1. CASE phone.next.t = cursor.t  BY <1>1, <3>1 DEF MarksOK
    <3>2. CASE phone.next.t[1] < phone.cut  BY <1>7, <2>2, <3>2
    <3> QED BY <1>1, <3>1, <3>2 DEF CutOK
  <2>5. \A q : \A a : Behind(q, a) => Behind(q, a)'  BY <1>2 DEF Behind
  <2> QED BY <1>2, <1>3, <1>8, <2>3, <2>4, <2>5 DEF MarksOK
<1>17. ASSUME NEW r \in Rows, row[r].alive, Told(r) \/ In(phone.rows, r),
              In(phone.rows, r) => <<r, row[r].version>> \in phone.rows
       PROVE  Told(r)'
  <2>1. r \notin phone.deletes  BY <1>17 DEF RowsOK, DeletesOK
  <2>2. told'[r] = st[r]  BY <1>6, <2>1
  <2>3. row[r].version \in Versions  BY Fields
  <2>4. CASE In(phone.rows, r)  BY <1>2, <1>5, <1>17, <2>2, <2>3, <2>4 DEF Told
  <2>5. CASE ~In(phone.rows, r)  BY <1>2, <1>5, <1>17, <2>2, <2>5 DEF Told
  <2> QED BY <2>4, <2>5
<1>18. CursorGap'
  <2> SUFFICES ASSUME NEW r \in Rows, row[r].alive, UpTo(At(r), phone.next.e[EntityOf[r]]), ~Excused(r)
               PROVE  Told(r)'
    BY <1>2, <1>3, <1>8 DEF CursorGap, Told
  <2>1. EntityOf[r] \in Entities /\ r \notin late /\ row[r].version \in Versions  BY Constants, Fields DEF Excused
  <2>2. Told(r) \/ <<r, row[r].version>> \in phone.rows  BY <1>1 DEF NextOK
  <2>3. Told(r) \/ In(phone.rows, r)  BY <2>1, <2>2 DEF In
  <2>4. ASSUME phone.cut <= row[r].mod, Before(cursor.e[EntityOf[r]], At(r))  PROVE FALSE
    <3>1. CASE phone.next.e[EntityOf[r]] = cursor.e[EntityOf[r]]
      BY <1>7, <2>1, <2>4, <3>1, Fields, NotUpTo
    <3>2. CASE phone.next.e[EntityOf[r]][1] < phone.cut
      <4>1. row[r].mod <= phone.next.e[EntityOf[r]][1]  BY <1>7, <2>1, Fields DEF UpTo, Before, Pos
      <4>2. phone.next.e[EntityOf[r]][1] \in Int  BY <1>7, <2>1 DEF Pos
      <4> QED BY <2>4, <3>2, <4>1, <4>2, Fields, PhoneFields
    <3> QED BY <1>1, <2>1, <3>1, <3>2 DEF CutOK
  <2>5. In(phone.rows, r) => <<r, row[r].version>> \in phone.rows  BY <1>1, <2>1, <2>4 DEF StaleOK
  <2> QED BY <1>17, <2>3, <2>5
<1>19. DumpedOK'
  <2> SUFFICES ASSUME NEW r \in Rows, EntityOf[r] \notin owed, Dumped(r), row[r].alive, r \notin late,
                      row[r].mod < progress[EntityOf[r]].started
               PROVE  Told(r)'
    BY <1>2, <1>8 DEF DumpedOK
  <2>1. EntityOf[r] \in Entities  BY Constants
  <2>2. Told(r)  BY <1>1, <1>14, <2>1 DEF DumpedOK
  <2>3. ~(progress[EntityOf[r]].started <= row[r].mod)  BY <2>1, Fields
  <2>4. In(phone.rows, r) => <<r, row[r].version>> \in phone.rows  BY <1>1, <2>3 DEF StaleOK
  <2> QED BY <1>17, <2>2, <2>4
<1>20. ToldOK'
  <2>1. \A r \in Rows : Dumped(r)  BY <1>1, Constants DEF Complete, Dumped
  <2> QED BY <1>1, <1>8, <2>1 DEF ToldOK
<1>21. OldTombs'
  <2> SUFFICES ASSUME NEW r \in Rows, tomb[r] # 0, r \notin late, Started # {}, tomb[r] < Oldest(Started)
               PROVE  told'[r] = 0
    BY <1>2, <1>8, <1>9 DEF OldTombs
  <2>1. told[r] = 0 /\ ~In(phone.rows, r)  BY DEF OldTombs
  <2> QED BY <1>5, <1>6, <2>1
<1>22. Passed'
  <2> SUFFICES ASSUME NEW r \in Rows, tomb[r] # 0, UpTo(Grave(r), phone.next.t), r \notin late,
                      told'[r] # 0, EntityOf[r] \in meta.view, ~(granted.version > meta.version)
               PROVE  FALSE
    BY <1>2, <1>3, <1>8 DEF Passed
  <2>1. r \notin phone.deletes /\ st[r] # 0  BY <1>6
  <2>2. meta.version = granted.version
    <3>1. meta.version \in Nat /\ granted.version \in Nat /\ snapshot.version \in Nat  BY Types DEF Perms
    <3> QED BY <3>1 DEF PermsOK
  <2>3. EntityOf[r] \in phone.view  BY <1>1, <2>2 DEF PermsOK
  <2>4. UpTo(Grave(r), cursor.t)  BY <1>1, <2>1, <2>3 DEF DeletesOK
  <2>5. told[r] = 0  BY <1>1, <2>4 DEF Passed
  <2>6. In(phone.rows, r)  BY <1>5, <2>1, <2>5
  <2>7. Before(cursor.t, Grave(r))  BY <1>1, <2>6 DEF StaleOK
  <2> QED BY <1>7, <2>4, <2>7, Fields, NotUpTo
<1>23. StampOK'
  <2>1. meta.version >= 1 /\ meta.version \in Nat  BY <1>1, Types DEF PermsOK, Perms
  <2> QED BY <1>2, <1>4, <2>1 DEF StampOK
<1> QED BY <1>9, <1>10, <1>11, <1>12, <1>13, <1>15, <1>16, <1>18, <1>19, <1>20, <1>21, <1>22, <1>23

\* A page of the dump is stored, the last one with the cursor.
LEMMA ApplyInitialInv == ASSUME IInv, ApplyInitial PROVE IInv'
<1> USE DEF IInv, server
<1> DEFINE st == Stored(told, phone.rows, {})
           p == IF phone.next = NoCursor THEN "cold" ELSE "stamp"
           e == phone.entity
<1>1. phone.pc = "coldpage" /\ cursor = NoCursor /\ ~Pulling  BY DEF ApplyInitial, CursorOK, Pulling
<1>2. UNCHANGED <<clock, row, tomb, txn, granted, progress, meta, snapshot, owed, late, events>>
  BY DEF ApplyInitial
<1>3. cursor' = phone.next /\ told' = st  BY <1>1 DEF ApplyInitial
<1>4. /\ phone' \in Phones /\ phone'.pc = p /\ phone'.pc \in {"cold", "stamp"}
      /\ phone'.rows = {} /\ phone'.deletes = {} /\ phone'.seen = phone.seen
  <2> DEFINE q == [Idle EXCEPT !.pc = p, !.seen = phone.seen]
  <2>1. p \in Steps /\ p \in {"cold", "stamp"} /\ phone.seen \in Perms  BY PhoneFields DEF Steps
  <2>2. phone' = q  BY DEF ApplyInitial
  <2> HIDE DEF p
  <2>3. q \in Phones /\ q.pc = p /\ q.rows = {} /\ q.deletes = {} /\ q.seen = phone.seen
    BY <2>1, IdlePhone, Zenon
  <2> HIDE DEF q
  <2> QED BY <2>1, <2>2, <2>3
<1>5. /\ st \in [Rows -> Versions]
      /\ \A r \in Rows, v \in Versions : <<r, v>> \in phone.rows => st[r] = v
      /\ \A r \in Rows : ~In(phone.rows, r) => st[r] = told[r]
  BY PageArrives
<1> HIDE DEF st
<1>6. e \in Entities \cup {0} /\ phone.last \in Rows \cup {0} /\ phone.more \in BOOLEAN /\ 0 \notin Entities
      /\ lprog \in [Entities -> LocalProgress] /\ (Resumed \subseteq Entities)
  BY Types, PhoneFields, Constants DEF Resumed
<1>7. e = 0 => lprog' = lprog /\ Resumed = {} /\ phone.next # NoCursor /\ phone.rows = {}
  BY <1>1 DEF ApplyInitial, ProgressAfterPage, PageOK
<1>8. e # 0 => /\ lprog'[e].phase = (IF phone.more THEN "in_progress" ELSE "completed") /\ lprog'[e].cursor = phone.last
               /\ \A x \in Entities : x # e => lprog'[x] = lprog[x]
  BY <1>6 DEF ApplyInitial, ProgressAfterPage
<1>9. lprog' \in [Entities -> LocalProgress]
  <2>1. [phase |-> IF phone.more THEN "in_progress" ELSE "completed", cursor |-> phone.last] \in LocalProgress
    BY <1>6 DEF LocalProgress, Phases
  <2> QED BY <1>6, <2>1 DEF ApplyInitial, ProgressAfterPage
<1>10. /\ e # 0 => (Resumed \subseteq {e}) /\ progress[e].phase = (IF phone.more THEN "in_progress" ELSE "completed")
                   /\ (phone.more => progress[e].cursor = phone.last /\ After(e) <= phone.last)
       /\ phone.next # NoCursor => phone.next = Anchors(progress) /\ Complete
       /\ \A r \in Rows : In(phone.rows, r) => EntityOf[r] = e /\ (phone.more => r <= phone.last)
  BY <1>1 DEF PageOK
<1>11. Resumed' = (IF e # 0 /\ phone.more THEN {e} ELSE {})
  <2>1. CASE e = 0  BY <1>7, <2>1 DEF Resumed
  <2>2. CASE e # 0
    <3>1. \A x \in Entities : x \in Resumed' <=> x = e /\ phone.more
      <4> TAKE x \in Entities
      <4>1. x \in Resumed' <=> lprog'[x].phase = "in_progress"  BY DEF Resumed
      <4>2. CASE x = e  BY <1>8, <2>2, <4>1, <4>2
      <4>3. CASE x # e
        <5>1. x \notin Resumed  BY <1>10, <2>2, <4>3
        <5> QED BY <1>8, <2>2, <4>1, <4>3, <5>1 DEF Resumed
      <4> QED BY <4>2, <4>3
    <3>2. Resumed' \subseteq Entities  BY DEF Resumed
    <3> QED BY <1>6, <2>2, <3>1, <3>2
  <2> QED BY <2>1, <2>2
<1>12. phone.next # NoCursor => Resumed' = {}
  BY <1>6, <1>10, <1>11 DEF Complete
<1>13. Started' = Started /\ (Complete' <=> Complete) /\ Anchor' = Anchor
       /\ \A r \in Rows : At(r)' = At(r) /\ Grave(r)' = Grave(r) /\ (Dumped(r)' <=> Dumped(r)) /\ (Excused(r)' <=> Excused(r))
  BY <1>2 DEF Started, Complete, Anchor, At, Grave, Dumped, Excused
<1>14. PageOK' /\ PageRowsOK' /\ CutOK' /\ StaleOK' /\ NextOK' /\ DeletesOK' /\ ~Pulling'
       /\ (\A r \in Rows : ~In(phone'.rows, r)) /\ \A x \in Entities : ~InFlight(x)'
  BY <1>4, RestInv
<1>15. TypesOK'
  <2>1. phone.next \in Cursors \cup {NoCursor}  BY PhoneFields
  <2> USE Types
  <2> QED BY <1>2, <1>3, <1>4, <1>5, <1>9, <2>1, TypesNext
<1>16. TimesOK' /\ RowsOK'  BY <1>2 DEF TimesOK, RowsOK
<1>17. PermsOK'  BY <1>1, <1>2, <1>4, <1>14 DEF PermsOK
<1>18. CursorOK'  BY <1>3, <1>4, <1>10, <1>12, <1>13, <1>14 DEF CursorOK
<1>19. DumpOK'
  <2>1. \A x, y \in Resumed' : x = y  BY <1>11
  <2>2. \A x \in Resumed' : progress[x].phase # "none"
                            /\ (progress[x].phase = "completed" \/ lprog'[x].cursor <= progress[x].cursor)
    BY <1>6, <1>8, <1>10, <1>11, Fields
  <2>3. ASSUME NEW x \in Entities \ owed  PROVE x \in Resumed' \/ progress[x].phase # "in_progress"
    <3>1. CASE x = e  BY <1>6, <1>10, <1>11, <3>1
    <3>2. CASE x # e
      <4>1. x \notin Resumed /\ ~InFlight(x)  BY <1>7, <1>10, <3>2 DEF InFlight
      <4> QED BY <4>1 DEF DumpOK
    <3> QED BY <3>1, <3>2
  <2>4. \A x \in Entities : progress[x].phase = "none" => progress[x].cursor = 0  BY DEF DumpOK
  <2> QED BY <1>2, <2>1, <2>2, <2>3, <2>4 DEF DumpOK
<1>20. DumpedOK'
  <2> SUFFICES ASSUME NEW r \in Rows, EntityOf[r] \notin owed, Dumped(r), row[r].alive, r \notin late,
                      row[r].mod < progress[EntityOf[r]].started
               PROVE  Told(r)'
    BY <1>2, <1>13 DEF DumpedOK
  <2>1. EntityOf[r] \in Entities /\ row[r].version \in Versions  BY Constants, Fields
  <2>2. Told(r) \/ <<r, row[r].version>> \in phone.rows
    <3>1. EntityOf[r] \in Resumed => InFlight(EntityOf[r])  BY <1>1, <1>7, <1>10, <2>1 DEF InFlight
    <3> QED BY <3>1 DEF DumpedOK
  <2>3. CASE In(phone.rows, r)
    <3>1. ~(progress[EntityOf[r]].started <= row[r].mod)  BY <2>1, Fields
    <3>2. <<r, row[r].version>> \in phone.rows  BY <1>1, <2>3, <3>1 DEF StaleOK
    <3>3. st[r] = row[r].version  BY <1>5, <2>1, <3>2
    <3> QED BY <1>2, <1>3, <3>3 DEF Told
  <2>4. CASE ~In(phone.rows, r)
    <3>1. Told(r)  BY <2>1, <2>2, <2>4 DEF In
    <3> QED BY <1>2, <1>3, <1>5, <2>4, <3>1 DEF Told
  <2> QED BY <2>3, <2>4
<1>21. OldTombs'
  <2> SUFFICES ASSUME NEW r \in Rows, tomb[r] # 0, r \notin late, Started # {}, tomb[r] < Oldest(Started)
               PROVE  st[r] = 0
    BY <1>2, <1>3, <1>13, <1>14 DEF OldTombs
  <2>1. told[r] = 0 /\ ~In(phone.rows, r)  BY DEF OldTombs
  <2> QED BY <1>5, <2>1
<1>22. ToldOK'
  <2> SUFFICES ASSUME NEW r \in Rows, st[r] # 0
               PROVE  IF EntityOf[r] \in Resumed' THEN r <= lprog'[EntityOf[r]].cursor ELSE Dumped(r)
    BY <1>3, <1>13 DEF ToldOK
  <2>1. told[r] # 0 \/ In(phone.rows, r)  BY <1>5
  <2>2. Dumped(r)  BY <2>1, HeldIsDumped
  <2>3. CASE EntityOf[r] \in Resumed'
    <3>1. e # 0 /\ phone.more /\ EntityOf[r] = e /\ e \in Entities  BY <1>6, <1>11, <2>3
    <3>2. progress[e].phase = "in_progress" /\ progress[e].cursor = phone.last /\ lprog'[e].cursor = phone.last
      BY <1>8, <1>10, <3>1
    <3>3. r <= phone.last  BY <2>2, <3>1, <3>2, <1>6, Constants DEF Dumped
    <3> QED BY <2>3, <3>1, <3>2, <3>3
  <2> QED BY <2>2, <2>3
<1>23. ASSUME phone.next # NoCursor
       PROVE  Complete /\ phone.next.t = Anchor /\ \A x \in Entities : phone.next.e[x] = <<progress[x].started, 0>>
  BY <1>10, <1>23, Starts
<1>24. CursorGap'
  <2> SUFFICES ASSUME phone.next # NoCursor, NEW r \in Rows, row[r].alive, UpTo(At(r), phone.next.e[EntityOf[r]]), ~Excused(r)
               PROVE  Told(r)'
    BY <1>2, <1>3, <1>13 DEF CursorGap, Told
  <2>1. EntityOf[r] \in Entities /\ r \in Nat /\ r # 0  BY Constants
  <2>2. row[r].mod < progress[EntityOf[r]].started
    BY <1>23, <2>1, Fields DEF UpTo, Before, At
  <2>3. EntityOf[r] \notin owed /\ r \notin late  BY <2>2 DEF Excused
  <2>4. Dumped(r)  BY <1>23, <2>1 DEF Complete, Dumped
  <2> QED BY <1>2, <1>12, <1>13, <1>14, <1>20, <2>1, <2>2, <2>3, <2>4 DEF DumpedOK
<1>25. MarksOK'  BY <1>2, <1>3, <1>13, <1>23 DEF MarksOK, Behind
<1>26. Passed'
  <2> SUFFICES ASSUME phone.next # NoCursor, NEW r \in Rows, tomb[r] # 0, UpTo(Grave(r), phone.next.t), r \notin late
               PROVE  told'[r] = 0
    BY <1>2, <1>3, <1>13 DEF Passed
  <2>1. Started # {} /\ tomb[r] < Oldest(Started)  BY <1>23, UpToAnchor
  <2> QED BY <1>2, <1>13, <1>21, <2>1 DEF OldTombs
<1>27. StampOK'  BY <1>3, <1>4, <1>13, <1>23 DEF StampOK
<1> QED BY <1>14, <1>15, <1>16, <1>17, <1>18, <1>19, <1>20, <1>21, <1>22, <1>24, <1>25, <1>26, <1>27

-----------------------------------------------------------------------------
(* Opening the store, logging out. *)

\* The store opens: a rebase forgets the cursor and what was revoked.
LEMMA OpenInv == ASSUME IInv, Open PROVE IInv'
<1> USE DEF IInv, server
<1> DEFINE p == IF cursor' = NoCursor THEN "cold" ELSE "stamp"
<1>1. phone.pc = "idle" /\ ~Pulling /\ (\A e \in Entities : ~InFlight(e)) /\ phone.rows = {}
  BY DEF Open, Pulling, InFlight, CursorOK
<1>2. UNCHANGED <<clock, row, tomb, txn, granted, progress, meta, snapshot, late, events>>
  BY DEF Open
<1>3. /\ phone' \in Phones /\ phone'.pc = p /\ phone'.pc \in {"cold", "stamp"}
      /\ phone'.rows = {} /\ phone'.deletes = {} /\ phone'.seen = snapshot
  <2> DEFINE q == [Idle EXCEPT !.pc = p, !.seen = snapshot]
  <2>1. p \in Steps /\ p \in {"cold", "stamp"} /\ snapshot \in Perms  BY Types DEF Steps
  <2>2. phone' = q  BY DEF Open
  <2> HIDE DEF p
  <2>3. q \in Phones /\ q.pc = p /\ q.rows = {} /\ q.deletes = {} /\ q.seen = snapshot
    BY <2>1, IdlePhone, Zenon
  <2> HIDE DEF q
  <2> QED BY <2>1, <2>2, <2>3
<1>4. Revoked \in SUBSET Entities /\ (~Rebase => Revoked = {})  BY Types DEF Revoked, Perms
<1>5. /\ told' = [r \in Rows |-> IF EntityOf[r] \in Revoked THEN 0 ELSE told[r]]
      /\ lprog' = (IF Rebase THEN [e \in Entities |-> [phase |-> "none", cursor |-> 0]] ELSE lprog)
      /\ cursor' = (IF Rebase THEN NoCursor ELSE cursor) /\ owed' = owed \cup Revoked
  BY DEF Open, Purged
<1>6. told \in [Rows -> Versions] /\ 0 \in Versions /\ lprog \in [Entities -> LocalProgress]
      /\ [e \in Entities |-> [phase |-> "none", cursor |-> 0]] \in [Entities -> LocalProgress]
  BY Types, Constants DEF Versions, LocalProgress, Phases
<1>7. TypesOK'
  <2>1. told' \in [Rows -> Versions] /\ lprog' \in [Entities -> LocalProgress]  BY <1>5, <1>6
  <2>2. owed' \in SUBSET Entities /\ cursor' \in Cursors \cup {NoCursor}  BY <1>4, <1>5, Types
  <2> USE Types
  <2> QED BY <1>2, <1>3, <2>1, <2>2, TypesNext
<1>8. PageOK' /\ PageRowsOK' /\ CutOK' /\ StaleOK' /\ NextOK' /\ DeletesOK' /\ ~Pulling'
      /\ (\A r \in Rows : ~In(phone'.rows, r)) /\ \A e \in Entities : ~InFlight(e)'
  BY <1>3, RestInv
<1>9. PermsOK'
  <2>1. granted.version >= 1 /\ snapshot.version >= 1 /\ snapshot.version \in Nat
    BY Types DEF PermsOK, Perms
  <2> QED BY <1>2, <1>3, <1>8, <2>1 DEF PermsOK
<1>10. CASE ~Rebase
  <2>1. told' = told /\ lprog' = lprog /\ cursor' = cursor /\ owed' = owed  BY <1>4, <1>5, <1>6, <1>10
  <2>2. TimesOK' /\ RowsOK' /\ MarksOK' /\ CursorGap' /\ ToldOK' /\ DumpOK' /\ DumpedOK'
        /\ Resumed' = Resumed /\ Started' = Started /\ (Complete' <=> Complete) /\ Anchor' = Anchor
        /\ \A r \in Rows : Grave(r)' = Grave(r)
    BY <1>1, <1>2, <1>3, <2>1, QuietInv
  <2>3. CursorOK'  BY <1>2, <1>3, <1>8, <2>1, <2>2 DEF CursorOK
  <2>4. OldTombs'  BY <1>2, <1>8, <2>1, <2>2 DEF OldTombs
  <2>5. Passed'  BY <1>2, <2>1, <2>2 DEF Passed
  <2>6. StampOK'
    <3>1. ASSUME cursor # NoCursor  PROVE cursor.t = Anchor \/ snapshot = meta
      <4>1. CASE meta.version = 0  BY <3>1, <4>1 DEF StampOK
      <4>2. CASE ~(snapshot.version > meta.version)
        <5>1. snapshot.version \in Nat /\ meta.version \in Nat  BY Types DEF Perms
        <5>2. snapshot.version = meta.version  BY <4>2, <5>1 DEF PermsOK
        <5> QED BY <5>2 DEF PermsOK
      <4> QED BY <1>10, <3>1, <4>1, <4>2 DEF Rebase
    <3> QED BY <1>2, <1>3, <2>1, <2>2, <3>1 DEF StampOK
  <2> QED BY <1>7, <1>8, <1>9, <2>2, <2>3, <2>4, <2>5, <2>6
<1>11. CASE Rebase
  <2>1. cursor # NoCursor /\ Resumed = {} /\ Complete  BY <1>11 DEF Rebase, CursorOK
  <2>2. cursor' = NoCursor /\ phone'.pc = "cold"  BY <1>3, <1>5, <1>11
  <2>3. Resumed' = {}  BY <1>5, <1>11 DEF Resumed
  <2>4. Started' = Started /\ (Complete' <=> Complete)
        /\ \A r \in Rows : (Dumped(r)' <=> Dumped(r))
    BY <1>2 DEF Started, Complete, Dumped
  <2>5. \A r \in Rows : told'[r] = 0 \/ told'[r] = told[r]  BY <1>5
  <2>6. TimesOK' /\ RowsOK'  BY <1>2 DEF TimesOK, RowsOK
  <2>7. CursorOK'  BY <1>3, <1>8, <2>2 DEF CursorOK
  <2>8. DumpOK'
    <3>1. \A e \in Entities : progress[e].phase = "completed"  BY <2>1 DEF Complete
    <3> QED BY <1>2, <2>3, <3>1 DEF DumpOK
  <2>9. DumpedOK'
    <3> SUFFICES ASSUME NEW r \in Rows, EntityOf[r] \notin owed', Dumped(r), row[r].alive, r \notin late,
                        row[r].mod < progress[EntityOf[r]].started
                 PROVE  Told(r)'
      BY <1>2, <2>4 DEF DumpedOK
    <3>1. EntityOf[r] \in Entities /\ EntityOf[r] \notin owed /\ EntityOf[r] \notin Revoked  BY <1>5, Constants
    <3>2. Told(r)  BY <1>1, <2>1, <3>1 DEF DumpedOK
    <3>3. told'[r] = told[r]  BY <1>5, <3>1
    <3> QED BY <1>2, <3>2, <3>3 DEF Told
  <2>10. CursorGap' /\ MarksOK' /\ Passed'  BY <2>2 DEF CursorGap, MarksOK, Passed
  <2>11. ToldOK'
    <3>1. \A r \in Rows : Dumped(r)  BY <2>1, Constants DEF Complete, Dumped
    <3> QED BY <2>3, <2>4, <3>1 DEF ToldOK
  <2>12. OldTombs'  BY <1>2, <1>8, <2>4, <2>5 DEF OldTombs
  <2>13. StampOK'  BY <2>2 DEF StampOK
  <2> QED BY <1>7, <1>8, <1>9, <2>6, <2>7, <2>8, <2>9, <2>10, <2>11, <2>12, <2>13
<1> QED BY <1>10, <1>11

\* A logout forgets everything on the phone.
LEMMA LogoutInv == ASSUME IInv, LogoutAndLogin PROVE IInv'
<1> USE DEF IInv, server
<1>1. phone.pc = "idle" /\ phone' = phone /\ phone.rows = {} /\ phone.deletes = {}
  BY DEF LogoutAndLogin, CursorOK, Pulling
<1>2. UNCHANGED <<clock, row, tomb, txn, granted, progress, late>>  BY DEF LogoutAndLogin
<1>3. told' = [r \in Rows |-> 0]
      /\ lprog' = [e \in Entities |-> [phase |-> "none", cursor |-> 0]]
      /\ cursor' = NoCursor /\ meta' = NoMeta /\ snapshot' = granted
      /\ owed' = owed \cup {e \in Entities : progress[e].phase # "none"}
  BY DEF LogoutAndLogin
<1>4. TypesOK'
  <2>1. told' \in [Rows -> Versions] /\ lprog' \in [Entities -> LocalProgress]
    BY <1>3, Constants DEF Versions, LocalProgress, Phases
  <2>2. owed' \in SUBSET Entities  BY <1>3, Types
  <2>3. events' \in 0 .. MaxEvents  BY Types, PullAssumption DEF LogoutAndLogin, Event
  <2> USE Types
  <2> QED BY <1>1, <1>2, <1>3, <2>1, <2>2, <2>3, IdlePhone, TypesNext
<1>5. PageOK' /\ PageRowsOK' /\ CutOK' /\ StaleOK' /\ NextOK' /\ DeletesOK' /\ ~Pulling'
      /\ (\A r \in Rows : ~In(phone'.rows, r)) /\ \A e \in Entities : ~InFlight(e)'
  BY <1>1, RestInv
<1>6. TimesOK' /\ RowsOK'  BY <1>2 DEF TimesOK, RowsOK
<1>7. PermsOK'
  <2>1. granted.version >= 1 /\ granted.version \in Nat /\ phone.seen.version <= granted.version
    <3>1. granted.version \in Nat /\ snapshot.version \in Nat /\ phone.seen.version \in Nat
      BY Types, PhoneFields DEF Perms
    <3> QED BY <3>1 DEF PermsOK
  <2>2. \A p, q \in {granted, phone.seen, NoMeta} : p.version = q.version => p = q  BY DEF PermsOK
  <2>3. \A p, q \in {granted', snapshot', meta', phone'.seen, NoMeta} : p.version = q.version => p = q
    BY <1>1, <1>2, <1>3, <2>2
  <2>4. NoMeta.version = 0  BY IdlePhone
  <2>5. meta'.version <= granted.version  BY <1>3, <2>1, <2>4
  <2> QED BY <1>1, <1>2, <1>3, <1>5, <2>1, <2>3, <2>5 DEF PermsOK
<1>8. Resumed' = {}  BY <1>3 DEF Resumed
<1>9. CursorOK'  BY <1>1, <1>3, <1>5 DEF CursorOK
<1>10. DumpOK'
  <2>1. \A e \in Entities : progress[e].phase = "none" => progress[e].cursor = 0  BY DEF DumpOK
  <2> QED BY <1>2, <1>3, <1>8, <2>1 DEF DumpOK
<1>11. DumpedOK'
  <2>1. ASSUME NEW r \in Rows, EntityOf[r] \notin owed'  PROVE ~Dumped(r)'
    <3>1. EntityOf[r] \in Entities /\ r \in Nat /\ r # 0  BY Constants
    <3>2. progress[EntityOf[r]].phase = "none" /\ progress[EntityOf[r]].cursor = 0  BY <1>3, <2>1, <3>1 DEF DumpOK
    <3> QED BY <1>2, <3>1, <3>2 DEF Dumped
  <2> QED BY <2>1 DEF DumpedOK
<1>12. CursorGap' /\ MarksOK' /\ Passed' /\ StampOK'  BY <1>1, <1>3 DEF CursorGap, MarksOK, Passed, StampOK
<1>13. ToldOK' /\ OldTombs'  BY <1>3, <1>5 DEF ToldOK, OldTombs
<1> QED BY <1>4, <1>5, <1>6, <1>7, <1>9, <1>10, <1>11, <1>12, <1>13

\* A page of the dump is read and the server's progress saved.
LEMMA InitialPageInv == ASSUME IInv, NEW e \in Entities, InitialPage(e) PROVE IInv'
<1> USE DEF IInv, device, history
<1> DEFINE after == IF e \in Resumed THEN lprog[e].cursor ELSE progress[e].cursor
           canView == e \in granted.view
           left == IF canView THEN {r \in Of(e) : row[r].alive /\ r > after} ELSE {}
           page == FirstById(left)
           more == page # left
           last == IF page = {} THEN after ELSE LastId(page)
           new == [phase |-> IF more THEN "in_progress" ELSE "completed", cursor |-> last, started |-> StartOf(e)]
           saved == [progress EXCEPT ![e] = new]
           all == \A f \in Entities : saved[f].phase = "completed"
           rows == {<<r, row[r].version>> : r \in page}
<1>1. phone.pc = "cold" /\ e \in Wanted /\ cursor = NoCursor /\ ~Pulling /\ (\A x \in Entities : ~InFlight(x))
      /\ phone.deletes = {}
  BY DEF InitialPage, CursorOK, Pulling, InFlight
<1>2. UNCHANGED <<clock, row, tomb, txn, granted, told, lprog, cursor, meta, snapshot, late, events>>
  BY DEF InitialPage
<1>3. progress' = saved /\ owed' = (IF canView THEN owed ELSE owed \cup {e})  BY DEF InitialPage
<1>4. e \in Resumed \/ (Resumed = {} /\ progress[e].phase # "completed")  BY <1>1, WantedOne
<1>5. (Resumed \subseteq {e}) /\ Resumed' = Resumed /\ \A x \in Entities : After(x)' = After(x)
  <2>1. Resumed' = Resumed  BY <1>2 DEF Resumed
  <2> QED BY <1>2, <1>4, <2>1 DEF DumpOK, After
<1>6. after \in Rows \cup {0} /\ after \in Nat  BY Fields
<1>7. /\ left \subseteq Rows
      /\ \A r \in left : row[r].alive /\ r > after /\ EntityOf[r] = e /\ row[r].version \in Versions
      /\ \A r \in Rows : canView /\ row[r].alive /\ EntityOf[r] = e /\ r > after => r \in left
  BY Fields DEF Of
<1> HIDE DEF left, after
<1>8. (page \subseteq left) /\ (\A r \in page, q \in left : q <= r => q \in page) /\ (left # {} => page # {})
  BY <1>7, FirstByIdIsClosed
<1> HIDE DEF page
<1>9. page # {} => LastId(page) \in page /\ \A q \in page : q <= LastId(page)
  <2>1. page \in SUBSET Rows  BY <1>7, <1>8
  <2> QED BY <2>1, LastIdIsGreatest
<1>10. more \in BOOLEAN /\ (more => page # {}) /\ last \in Rows \cup {0} /\ after <= last /\ (page = {} => left = {})
       /\ (more => last = LastId(page))
  <2>1. more \in BOOLEAN /\ (more => page # {}) /\ (page = {} => left = {})  BY <1>8
  <2>2. CASE page = {}  BY <1>6, <2>1, <2>2
  <2>3. CASE page # {}
    <3>1. LastId(page) \in Rows /\ LastId(page) > after  BY <1>7, <1>8, <1>9, <2>3
    <3>2. LastId(page) \in Nat  BY <3>1, Constants
    <3>3. after <= LastId(page)  BY <1>6, <3>1, <3>2
    <3> QED BY <2>1, <2>3, <3>1, <3>3
  <2> QED BY <2>2, <2>3
<1>11. StartOf(e) \in Times /\ StartOf(e) <= clock /\ (progress[e].phase # "none" => StartOf(e) = progress[e].started)
       /\ (progress[e].phase = "none" => StartOf(e) = clock)
  <2>1. clock \in Times /\ progress[e].started \in Times /\ clock \in Nat
    BY Types, Constants, Fields DEF Times, ServerProgress
  <2> QED BY <2>1 DEF StartOf, TimesOK
<1> HIDE DEF more, last
<1>12. new \in ServerProgress /\ new.phase = (IF more THEN "in_progress" ELSE "completed") /\ new.cursor = last
       /\ new.started = StartOf(e)
  BY <1>10, <1>11 DEF ServerProgress, Phases
<1> HIDE DEF new
<1>13. saved \in [Entities -> ServerProgress] /\ saved[e] = new /\ \A x \in Entities : x # e => saved[x] = progress[x]
  BY <1>12, Types
<1> HIDE DEF saved
<1>14. rows \subseteq Rows \X Versions /\ \A r, v : <<r, v>> \in rows <=> r \in page /\ v = row[r].version
  <2>1. \A r \in page : r \in Rows /\ row[r].version \in Versions  BY <1>7, <1>8
  <2> QED BY <2>1
<1> HIDE DEF rows
<1>15. all => Complete'  BY <1>3 DEF Complete
<1>16. /\ phone' \in Phones
       /\ phone'.pc = "coldpage" /\ phone'.entity = e /\ phone'.more = more /\ phone'.rows = rows
       /\ (more => phone'.last = last) /\ phone'.next = (IF all THEN Anchors(saved) ELSE NoCursor)
       /\ phone'.deletes = phone.deletes /\ phone'.seen = phone.seen
  <2> DEFINE l == IF page = {} THEN 0 ELSE LastId(page)
             n == IF all THEN Anchors(saved) ELSE NoCursor
  <2>1. phone' = [phone EXCEPT !.pc = "coldpage", !.entity = e, !.more = more, !.rows = rows, !.last = l, !.next = n]
    BY DEF InitialPage, after, left, page, more, last, new, saved, rows
  <2>2. l \in Rows \cup {0} /\ (more => l = last)
    <3>1. page # {} => LastId(page) \in Rows  BY <1>7, <1>8, <1>9
    <3> QED BY <1>10, <3>1
  <2>3. n \in Cursors \cup {NoCursor}
    <3>1. ASSUME all  PROVE Anchors(saved) \in Cursors
      <4>0. \A x \in Entities : saved[x] \in ServerProgress  BY <1>13
      <4>1. \A x \in Entities : saved[x].started \in Nat  BY <4>0, Constants DEF ServerProgress, Times
      <4> DEFINE S == {saved[x].started : x \in Entities}
      <4>2. S \in SUBSET Int /\ S # {} /\ \A s \in S : 0 <= s  BY <4>1, Constants
      <4> HIDE DEF S
      <4>3. Oldest(S) \in Int
        <5>1. Oldest(S) \in S  BY <4>2, OldestIsLeast
        <5> QED BY <4>2, <5>1
      <4>4. <<Oldest(S), 0>> \in Pos /\ [x \in Entities |-> <<saved[x].started, 0>>] \in [Entities -> Pos]
        BY <4>1, <4>3 DEF Pos
      <4>5. Anchors(saved) = [e |-> [x \in Entities |-> <<saved[x].started, 0>>], t |-> <<Oldest(S), 0>>]
        BY DEF Anchors, S
      <4> QED BY <4>4, <4>5 DEF Cursors
    <3> QED BY <3>1
  <2> HIDE DEF l, n
  <2>4. phone \in Phones /\ "coldpage" \in Steps  BY Types DEF Steps
  <2>5. /\ phone' \in Phones
        /\ phone'.pc = "coldpage" /\ phone'.entity = e /\ phone'.more = more /\ phone'.rows = rows
        /\ phone'.last = l /\ phone'.next = n
        /\ phone'.deletes = phone.deletes /\ phone'.seen = phone.seen
    BY <1>10, <1>14, <2>1, <2>2, <2>3, <2>4 DEF Phones
  <2> QED BY <2>2, <2>5 DEF n
<1> HIDE DEF all
<1>17. TypesOK'
  <2>1. owed' \in SUBSET Entities  BY <1>3, Types
  <2> USE Types
  <2> QED BY <1>2, <1>3, <1>13, <1>16, <2>1, TypesNext
<1>18. TimesOK'
  <2>1. \A x \in Entities : saved[x].started <= clock  BY <1>11, <1>12, <1>13 DEF TimesOK
  <2> QED BY <1>2, <1>3, <2>1 DEF TimesOK
<1>19. ~Pulling' /\ \A x \in Entities : (InFlight(x)' <=> x = e)  BY <1>16 DEF Pulling, InFlight
<1>20. RowsOK'  BY <1>2 DEF RowsOK
<1>21. PermsOK'  BY <1>1, <1>2, <1>16, <1>19 DEF PermsOK
<1>22. CursorOK'  BY <1>1, <1>2, <1>16, <1>19 DEF CursorOK
<1>23. e \in Resumed => after = lprog[e].cursor /\ After(e) = after /\ progress[e].phase # "none"
  BY DEF after, After, DumpOK
<1>24. e \notin Resumed => after = progress[e].cursor /\ After(e) = 0 /\ Resumed = {} /\ progress[e].phase # "completed"
  BY <1>4 DEF after, After
<1>25. After(e) <= after /\ After(e) \in Nat  BY <1>6, <1>23, <1>24
<1>26. DumpOK'
  <2>1. \A x, y \in Resumed : x = y  BY <1>5
  <2>2. \A x \in Entities : saved[x].phase = "none" => saved[x].cursor = 0  BY <1>12, <1>13 DEF DumpOK
  <2>3. \A x \in Resumed : saved[x].phase # "none"
                           /\ (saved[x].phase = "completed" \/ lprog[x].cursor <= saved[x].cursor)
    BY <1>5, <1>10, <1>12, <1>13, <1>23
  <2>4. ASSUME NEW x \in Entities \ owed'  PROVE x = e \/ saved[x].phase # "in_progress"
    <3>1. x \notin owed  BY <1>3
    <3>2. x # e => saved[x] = progress[x] /\ x \notin Resumed /\ ~InFlight(x)  BY <1>1, <1>5, <1>13
    <3> QED BY <3>1, <3>2 DEF DumpOK
  <2> QED BY <1>2, <1>3, <1>5, <1>19, <2>1, <2>2, <2>3, <2>4 DEF DumpOK
<1>27. PageOK'
  <2>1. e # 0  BY Constants
  <2>2. phone'.next # NoCursor => all /\ phone'.next = Anchors(progress)'
    <3>1. Anchors(progress)' = Anchors(saved)  BY <1>3 DEF Anchors
    <3> QED BY <1>16, <3>1
  <2>3. more => saved[e].cursor = phone'.last /\ After(e) <= phone'.last
    <3>1. last \in Nat  BY <1>10, Constants
    <3> QED BY <1>6, <1>10, <1>12, <1>13, <1>16, <1>25, <3>1
  <2>4. ASSUME NEW r \in Rows, In(rows, r)
        PROVE  EntityOf[r] = e /\ After(e) < r /\ (more => r <= phone'.last)
    <3>1. r \in page /\ r \in left  BY <1>8, <1>14, <2>4 DEF In
    <3>2. EntityOf[r] = e /\ r > after /\ r \in Nat  BY <1>7, <3>1, Constants
    <3>3. more => r <= phone'.last  BY <1>9, <1>10, <1>16, <3>1
    <3> QED BY <1>6, <1>25, <3>2, <3>3
  <2>5. saved[e].phase = IF more THEN "in_progress" ELSE "completed"  BY <1>12, <1>13
  <2>6. After(e)' = After(e)  BY <1>5
  <2> QED BY <1>3, <1>5, <1>15, <1>16, <2>1, <2>2, <2>3, <2>4, <2>5, <2>6 DEF PageOK, After
<1>28. PageRowsOK'
  <2>1. \A r \in page : r \in Rows /\ row[r].alive  BY <1>7, <1>8
  <2>2. \A r \in page : row[r].version # 0  BY <2>1 DEF RowsOK
  <2> QED BY <1>14, <1>16, <2>2 DEF PageRowsOK
<1>29. CutOK' /\ NextOK'  BY <1>19 DEF CutOK, NextOK
<1>30. StaleOK'
  <2>1. \A r \in Rows : In(rows, r) => <<r, row[r].version>> \in rows  BY <1>14 DEF In
  <2> QED BY <1>2, <1>16, <1>19, <2>1 DEF StaleOK
<1>31. CursorGap' /\ MarksOK' /\ Passed' /\ StampOK'  BY <1>1, <1>2, <1>16 DEF CursorGap, MarksOK, Passed, StampOK
<1>32. DeletesOK'  BY <1>1, <1>16 DEF DeletesOK
<1>33. \A r \in Rows : EntityOf[r] # e => (Dumped(r)' <=> Dumped(r))
  BY <1>3, <1>13, Constants DEF Dumped
<1>34. DumpedOK'
  <2> SUFFICES ASSUME NEW r \in Rows, EntityOf[r] \notin owed', Dumped(r)', row[r].alive, r \notin late,
                      row[r].mod < saved[EntityOf[r]].started, ~Told(r)
               PROVE  EntityOf[r] = e /\ After(e) < r /\ <<r, row[r].version>> \in rows
    BY <1>2, <1>3, <1>5, <1>16, <1>19, Constants DEF DumpedOK, Told
  <2>1. EntityOf[r] \in Entities /\ EntityOf[r] \notin owed /\ r \in Nat /\ r # 0  BY <1>3, Constants
  <2>2. CASE EntityOf[r] # e
    <3>1. Dumped(r) /\ saved[EntityOf[r]] = progress[EntityOf[r]] /\ EntityOf[r] \notin Resumed
          /\ ~InFlight(EntityOf[r])
      BY <1>1, <1>5, <1>13, <1>33, <2>1, <2>2
    <3> QED BY <2>1, <3>1 DEF DumpedOK
  <2>3. CASE EntityOf[r] = e
    <3>1. canView  BY <1>3, <2>3
    <3>2. CASE after < r
      <4>1. r \in left  BY <1>7, <2>3, <3>1, <3>2
      <4>2. r \in page
        <5>1. CASE ~more  BY <4>1, <5>1 DEF more
        <5>2. CASE more
          <6>1. saved[e].phase = "in_progress" /\ saved[e].cursor = LastId(page)  BY <1>10, <1>12, <1>13, <5>2
          <6>2. LastId(page) >= r  BY <1>3, <2>3, <6>1 DEF Dumped
          <6>3. LastId(page) \in Nat /\ LastId(page) \in page  BY <1>7, <1>8, <1>9, <1>10, <5>2, Constants
          <6> QED BY <1>8, <2>1, <4>1, <6>2, <6>3
        <5> QED BY <1>10, <5>1, <5>2
      <4> QED BY <1>6, <1>14, <1>25, <2>1, <2>3, <3>2, <4>2
    <3>3. CASE ~(after < r)
      <4>1. e \in Resumed
        <5> SUFFICES ASSUME e \notin Resumed  PROVE FALSE
          OBVIOUS
        <5>1. progress[e].phase \in {"none", "in_progress", "completed"}  BY Fields DEF Phases
        <5>2. progress[e].phase = "none"  BY <1>1, <1>24, <2>1, <2>3, <5>1 DEF DumpOK
        <5>3. after = 0  BY <1>24, <5>2 DEF DumpOK
        <5> QED BY <2>1, <3>3, <5>3
      <4>2. after = lprog[e].cursor /\ r <= after /\ saved[e].started = progress[e].started
        BY <1>6, <1>11, <1>12, <1>13, <1>23, <2>1, <3>3, <4>1
      <4>3. Dumped(r)
        <5>1. progress[e].cursor \in Nat  BY Fields
        <5>2. progress[e].phase = "completed" \/ after <= progress[e].cursor  BY <4>1, <4>2 DEF DumpOK
        <5> QED BY <1>6, <2>1, <2>3, <4>2, <5>1, <5>2 DEF Dumped
      <4> QED BY <1>1, <1>6, <2>1, <2>3, <4>2, <4>3 DEF DumpedOK
    <3> QED BY <3>2, <3>3
  <2> QED BY <2>2, <2>3
<1>35. ToldOK'
  <2> SUFFICES ASSUME NEW r \in Rows, told[r] # 0
               PROVE  IF EntityOf[r] \in Resumed THEN r <= lprog[EntityOf[r]].cursor ELSE Dumped(r)'
    BY <1>2, <1>5 DEF ToldOK
  <2>1. CASE EntityOf[r] \in Resumed  BY <2>1 DEF ToldOK
  <2>2. CASE EntityOf[r] \notin Resumed /\ EntityOf[r] # e  BY <1>33, <2>2 DEF ToldOK
  <2>3. CASE e \notin Resumed /\ EntityOf[r] = e
    <3>1. Dumped(r)  BY <2>3 DEF ToldOK
    <3>2. r <= after  BY <1>24, <2>3, <3>1, <1>6, Constants DEF Dumped
    <3>3. r <= last  BY <1>6, <1>10, <3>2, Constants
    <3> QED BY <1>3, <1>10, <1>12, <1>13, <2>3, <3>3, Constants DEF Dumped
  <2> QED BY <2>1, <2>2, <2>3
<1>36. OldTombs'
  <2> SUFFICES ASSUME NEW r \in Rows, tomb[r] # 0, r \notin late, Started' # {}, tomb[r] < Oldest(Started')
               PROVE  told[r] = 0 /\ ~In(rows, r)
    BY <1>2, <1>16 DEF OldTombs
  <2>1. ~In(rows, r)  BY <1>7, <1>8, <1>14 DEF In, RowsOK
  <2>2. CASE Started = {}
    <3>1. \A x \in Entities : progress[x].phase = "none"  BY <2>2 DEF Started
    <3>2. EntityOf[r] \in Entities /\ r \in Nat /\ r # 0  BY Constants
    <3>3. ~Dumped(r)  BY <3>1, <3>2 DEF Dumped, DumpOK
    <3> QED BY <2>1, <3>3, HeldIsDumped
  <2>3. CASE Started # {}
    <3>1. \A x \in Entities : saved[x] \in ServerProgress  BY <1>13
    <3>2. \A x \in Entities : saved[x].started \in Nat  BY <3>1, Constants DEF ServerProgress, Times
    <3>3. Started' = {saved[x].started : x \in {y \in Entities : saved[y].phase # "none"}}  BY <1>3 DEF Started
    <3>4. Started' \in SUBSET Int /\ \A s \in Started' : 0 <= s  BY <3>2, <3>3
    <3>5. \A x \in Entities : progress[x].phase # "none" => saved[x].phase # "none" /\ saved[x].started = progress[x].started
      BY <1>11, <1>12, <1>13
    <3>6. Started \subseteq Started'  BY <3>3, <3>5 DEF Started
    <3>7. Oldest(Started) \in Started /\ Started \in SUBSET Nat  BY <2>3, Starts
    <3>8. Oldest(Started) \in Started'  BY <3>6, <3>7
    <3> DEFINE S == Started'
    <3>9. S \in SUBSET Int /\ S # {} /\ (\A s \in S : 0 <= s) /\ Oldest(Started) \in S
      BY <3>4, <3>8
    <3>10. tomb[r] < Oldest(S)  OBVIOUS
    <3> HIDE DEF S
    <3>11. Oldest(S) \in S /\ Oldest(S) <= Oldest(Started)
      <4>1. Oldest(S) \in S /\ \A u \in S : Oldest(S) <= u  BY <3>9, OldestIsLeast
      <4> QED BY <3>9, <4>1
    <3>12. Oldest(S) \in Int /\ Oldest(Started) \in Int /\ tomb[r] \in Int  BY <3>9, <3>11, Fields
    <3>13. tomb[r] < Oldest(Started)  BY <3>10, <3>11, <3>12
    <3> QED BY <2>1, <2>3, <3>13 DEF OldTombs
  <2> QED BY <2>2, <2>3
<1> QED BY <1>17, <1>18, <1>20, <1>21, <1>22, <1>26, <1>27, <1>28, <1>29, <1>30, <1>31, <1>32, <1>34, <1>35, <1>36

-----------------------------------------------------------------------------
(* The theorems. *)

\* The initial states satisfy the invariant.
LEMMA InitInv == ASSUME Init PROVE IInv
<1> USE DEF Init
<1>1. Fresh \in Perms /\ Fresh.version = 1 /\ NoMeta \in Perms /\ NoMeta.version = 0  BY DEF Fresh, NoMeta, Perms
<1>2. phone \in Phones /\ phone.pc = "idle" /\ phone.rows = {} /\ phone.deletes = {} /\ phone.seen = NoMeta
  BY IdlePhone
<1>3. /\ \A r \in Rows : /\ row[r].mod = 0 /\ tomb[r] = 0 /\ told[r] = 0
                         /\ row[r].alive => row[r].version # 0
      /\ \A e \in Entities : /\ progress[e].phase = "none" /\ progress[e].cursor = 0 /\ progress[e].started = 0
                             /\ lprog[e].phase = "none"
  OBVIOUS
<1>4. TypesOK
  <2>1. 0 \in Times /\ 0 \in Versions /\ 1 \in Versions /\ clock \in 1 .. MaxClock /\ events \in 0 .. MaxEvents
    BY Constants, PullAssumption DEF Times, Versions
  <2>2. row \in [Rows -> ServerRow] /\ tomb \in [Rows -> Times] /\ txn \in [Writers -> Times]
    BY <2>1 DEF ServerRow
  <2>3. progress \in [Entities -> ServerProgress] /\ lprog \in [Entities -> LocalProgress]
    BY <2>1 DEF ServerProgress, LocalProgress, Phases
  <2>4. told \in [Rows -> Versions]  BY <2>1
  <2> QED BY <1>1, <1>2, <2>1, <2>2, <2>3, <2>4 DEF TypesOK
<1>5. ~Pulling /\ phone.pc # "coldpage" /\ phone.pc # "page" /\ Resumed = {}
  BY <1>2, <1>3 DEF Pulling, Resumed
<1>6. TimesOK /\ RowsOK  BY <1>3 DEF TimesOK, RowsOK
<1>7. PermsOK  BY <1>1, <1>2, <1>5 DEF PermsOK
<1>8. CursorOK  BY <1>2, <1>5 DEF CursorOK
<1>9. DumpOK  BY <1>3, <1>5 DEF DumpOK
<1>10. PageOK /\ PageRowsOK  BY <1>2 DEF PageOK, PageRowsOK
<1>11. CutOK /\ StaleOK /\ NextOK  BY <1>5 DEF CutOK, StaleOK, NextOK
<1>12. MarksOK /\ CursorGap /\ Passed  BY DEF MarksOK, CursorGap, Passed
<1>13. DumpedOK
  <2>1. \A r \in Rows : ~Dumped(r)  BY <1>3, Constants DEF Dumped
  <2> QED BY <2>1 DEF DumpedOK
<1>14. ToldOK /\ OldTombs  BY <1>3 DEF ToldOK, OldTombs
<1>15. DeletesOK /\ StampOK  BY <1>2 DEF DeletesOK, StampOK
<1> QED BY <1>4, <1>6, <1>7, <1>8, <1>9, <1>10, <1>11, <1>12, <1>13, <1>14, <1>15 DEF IInv

\* A step that changes nothing.
LEMMA StutterInv == ASSUME IInv, UNCHANGED vars PROVE IInv'
<1>1. clock \in 1 .. MaxClock /\ txn \in [Writers -> Times] /\ clock <= clock
  BY Types, Fields DEF IInv
<1> QED BY <1>1, Types, ClockInv DEF IInv, vars, server, device, history

\* Every step keeps the invariant.
LEMMA NextInv == ASSUME IInv, [Next]_vars PROVE IInv'
<1>1. ASSUME NEW w \in Writers, Begin(w) \/ Rollback(w) \/ (\E r \in Rows : Upsert(w, r) \/ Delete(w, r) \/ PushApplied(w, r))
      PROVE  IInv'
  BY <1>1, BeginInv, RollbackInv, UpsertInv, DeleteInv, PushAppliedInv
<1>2. CASE Tick  BY <1>2, TickInv
<1>3. CASE \E e \in Entities : ChangeView(e)  BY <1>3, ChangeViewInv
<1>4. CASE RefreshSnapshot  BY <1>4, RefreshInv
<1>5. CASE PhoneStep
  BY <1>5, OpenInv, InitialCompleteInv, InitialPageInv, ReadEntityInv, ApplyInitialInv, StampInv, ChangesInv,
     ReadTombstonesInv, ApplyChangesInv, RetryInv, DrainEndsInv DEF PhoneStep
<1>6. CASE CycleFails  BY <1>6, CycleFailsInv
<1>7. CASE LogoutAndLogin  BY <1>7, LogoutInv
<1>8. CASE UNCHANGED vars  BY <1>8, StutterInv
<1>9. CASE \E r \in Rows : Enqueue(r)  BY <1>9, EnqueueInv
<1> QED BY <1>1, <1>2, <1>3, <1>4, <1>5, <1>6, <1>7, <1>8, <1>9 DEF Next

-----------------------------------------------------------------------------
(* The tables and the dead letters. *)

\* The tables start empty.
LEMMA InitKept == ASSUME Init PROVE KeptOK
<1>1. 0 \in Versions  BY Constants DEF Versions
<1>2. \A r \in Rows : local[r] = 0 /\ told[r] = 0  BY DEF Init
<1>3. NoLetter \in DeadLetter  BY <1>1 DEF NoLetter, DeadLetter
<1> QED BY <1>1, <1>2, <1>3 DEF Init, KeptOK, Has

\* A step that leaves the tables alone.
LEMMA SameKept ==
  ASSUME KeptOK, UNCHANGED <<local, dlq, told, revived, spared>>, queued' \subseteq Rows
  PROVE  KeptOK'
BY DEF KeptOK, Has

\* The answer to a push gives the phone its own row.
LEMMA PushAppliedKept ==
  ASSUME KeptOK, TypesOK, NEW w \in Writers, NEW s \in Rows, PushApplied(w, s) PROVE KeptOK'
<1>1. /\ local' = [local EXCEPT ![s] = 1] /\ told' = [told EXCEPT ![s] = 1] /\ dlq' = dlq
      /\ revived' = revived /\ spared' = spared /\ queued' = queued \ {s}
  BY DEF PushApplied
<1>2. told \in [Rows -> Versions] /\ local \in [Rows -> Versions] /\ 1 \in Versions
  BY Types, Constants DEF KeptOK, Versions
<1>3. local' \in [Rows -> Versions] /\ queued' \subseteq Rows  BY <1>1, <1>2 DEF KeptOK
<1>4. \A r \in Rows : IF r = s THEN local'[r] = 1 /\ told'[r] = 1 ELSE local'[r] = local[r] /\ told'[r] = told[r]
  BY <1>1, <1>2
<1> QED BY <1>1, <1>3, <1>4 DEF KeptOK, Has

\* The purge of what was revoked makes the phone forget it was told.
LEMMA OpenKept == ASSUME KeptOK, TypesOK, Open PROVE KeptOK'
<1>1. local' = Purged(local) /\ told' = Purged(told) /\ dlq' = dlq /\ queued' = queued
      /\ revived' = {r \in revived : EntityOf[r] \notin Revoked}
      /\ spared' = {r \in spared : EntityOf[r] \notin Revoked}
  BY DEF Open
<1>2. \A r \in Rows : IF EntityOf[r] \in Revoked THEN local'[r] = 0 /\ told'[r] = 0
                      ELSE local'[r] = local[r] /\ told'[r] = told[r]
  BY <1>1 DEF Purged
<1>3. local' \in [Rows -> Versions]  BY <1>1, Constants DEF KeptOK, Purged, Versions
<1> QED BY <1>1, <1>2, <1>3 DEF KeptOK, Has

\* A page of the dump: each row is stored or is a dead letter.
LEMMA ApplyInitialKept == ASSUME KeptOK, TypesOK, PageRowsOK, ApplyInitial PROVE KeptOK'
<1> DEFINE page == phone.rows
           st == Stored(told, page, {})
<1>1. PICK bad : local' = Stored(local, page, bad) /\ dlq' = Failed(dlq, page, bad)
  BY DEF ApplyInitial
<1>2. told' = st /\ revived' = revived \ RowsIn(page) /\ spared' = spared \ RowsIn(page) /\ queued' = queued
  BY DEF ApplyInitial
<1>3. OneVersion(page) /\ (page \subseteq Rows \X Versions) /\ local \in [Rows -> Versions] /\ dlq \in [Rows -> DeadLetter]
  BY PhoneFields DEF PageRowsOK, OneVersion, KeptOK
<1>4. /\ \A r \in Rows, v \in Versions : <<r, v>> \in page => st[r] = v
      /\ \A r \in Rows : ~In(page, r) => st[r] = told[r]
  BY PageArrives
<1> HIDE DEF page, st
<1>5. /\ local' \in [Rows -> Versions]
      /\ \A r \in Rows, v \in Versions : <<r, v>> \in page \ bad => local'[r] = v
      /\ \A r \in Rows : ~In(page, r) => local'[r] = local[r]
  BY <1>1, <1>3, StoredPage
<1>6. /\ dlq' \in [Rows -> DeadLetter]
      /\ \A r \in Rows, v \in Versions : <<r, v>> \in page \cap bad => dlq'[r].version = v /\ dlq'[r].attempts # 0
      /\ \A r \in Rows : ~In(page, r) => dlq'[r] = dlq[r]
  BY <1>1, <1>3, FailedPage
<1>7. ASSUME NEW r \in Rows, In(page, r)  PROVE Has(r, told[r])'
  <2>1. PICK v \in Versions : <<r, v>> \in page  BY <1>7 DEF In
  <2>2. told'[r] = v  BY <1>2, <1>4, <2>1
  <2> QED BY <1>5, <1>6, <2>1, <2>2 DEF Has
<1>8. ASSUME NEW r \in Rows, ~In(page, r)
      PROVE  local'[r] = local[r] /\ told'[r] = told[r] /\ dlq'[r] = dlq[r]
             /\ (r \in revived' <=> r \in revived) /\ (r \in spared' <=> r \in spared)
  BY <1>2, <1>4, <1>5, <1>6, <1>8 DEF RowsIn
<1>9. \A r \in Rows : In(page, r) => r \notin spared'  BY <1>2 DEF RowsIn
<1>10. (revived' \subseteq Rows) /\ (spared' \subseteq Rows) /\ (queued' \subseteq Rows)  BY <1>2 DEF KeptOK
<1>11. \A r \in Rows : r \in revived' \cup spared' \/ Has(r, told[r])'  BY <1>7, <1>8 DEF KeptOK, Has
<1>12. \A r \in spared' : told'[r] # 0  BY <1>8, <1>9, <1>10 DEF KeptOK
<1> QED BY <1>5, <1>6, <1>10, <1>11, <1>12 DEF KeptOK

\* A page of the pull: each row is stored, is a dead letter, or is passed over
\* by name; each tombstone is applied or is a dead letter.
LEMMA ApplyChangesKept == ASSUME KeptOK, TypesOK, PageRowsOK, ApplyChanges PROVE KeptOK'
<1> DEFINE mid(bad) == Stored(local, Taken, bad)
           fa(bad) == Failed(dlq, Taken, bad)
           st == Stored(told, phone.rows, {})
<1>1. PICK bad : /\ local' = Stored(mid(bad), Graves, bad)
                 /\ dlq' = Failed(fa(bad), Graves, bad)
  BY DEF ApplyChanges, AfterPage
<1>2. /\ told' = AfterPage(told, phone.rows, {}) /\ revived' = revived \ RowsIn(Taken \cup Graves)
      /\ spared' = (spared \cup RowsIn(phone.rows)) \ RowsIn(Taken \cup Graves) /\ queued' = queued
  BY DEF ApplyChanges
<1>3. /\ OneVersion(phone.rows) /\ (Taken \subseteq phone.rows)
      /\ local \in [Rows -> Versions] /\ dlq \in [Rows -> DeadLetter]
  BY DEF PageRowsOK, OneVersion, KeptOK, Taken
<1>4. OneVersion(Taken)  BY <1>3 DEF OneVersion
<1>5. /\ \A r \in Rows, v \in Versions : <<r, v>> \in phone.rows => st[r] = v
      /\ \A r \in Rows : ~In(phone.rows, r) => st[r] = told[r]
      /\ \A r \in Rows : told'[r] = IF r \in phone.deletes THEN 0 ELSE st[r]
  BY <1>2, PageArrives
<1> HIDE DEF st
<1>6. /\ mid(bad) \in [Rows -> Versions]
      /\ \A r \in Rows, v \in Versions : <<r, v>> \in Taken \ bad => mid(bad)[r] = v
      /\ \A r \in Rows : ~In(Taken, r) => mid(bad)[r] = local[r]
  BY <1>3, <1>4, StoredPage
<1>7. /\ fa(bad) \in [Rows -> DeadLetter]
      /\ \A r \in Rows, v \in Versions : <<r, v>> \in Taken \cap bad =>
            fa(bad)[r].version = v /\ fa(bad)[r].attempts # 0
      /\ \A r \in Rows : ~In(Taken, r) => fa(bad)[r] = dlq[r]
  BY <1>3, <1>4, FailedPage
<1> HIDE DEF mid, fa
<1>8. /\ local' \in [Rows -> Versions]
      /\ \A r \in Rows, v \in Versions : <<r, v>> \in Graves \ bad => local'[r] = v
      /\ \A r \in Rows : ~In(Graves, r) => local'[r] = mid(bad)[r]
  BY <1>1, <1>6, StoredPage, GravesPage
<1>9. /\ dlq' \in [Rows -> DeadLetter]
      /\ \A r \in Rows, v \in Versions : <<r, v>> \in Graves \cap bad => dlq'[r].version = v /\ dlq'[r].attempts # 0
      /\ \A r \in Rows : ~In(Graves, r) => dlq'[r] = fa(bad)[r]
  BY <1>1, <1>7, FailedPage, GravesPage
<1>10. \A r \in Rows : r \in RowsIn(Taken \cup Graves) <=> In(Taken, r) \/ r \in phone.deletes
  <2>1. \A r \in Rows : In(Graves, r) <=> r \in phone.deletes  BY GravesPage
  <2> QED BY <2>1 DEF RowsIn, In
<1>11. ASSUME NEW r \in Rows, r \in phone.deletes  PROVE Has(r, told[r])'
  <2>1. 0 \in Versions /\ <<r, 0>> \in Graves  BY <1>11, GravesPage, Constants DEF Versions
  <2> QED BY <1>5, <1>8, <1>9, <1>11, <2>1 DEF Has
<1>12. \A r \in Rows : r \notin phone.deletes =>
          told'[r] = st[r] /\ local'[r] = mid(bad)[r] /\ dlq'[r] = fa(bad)[r]
  BY <1>5, <1>8, <1>9, GravesPage
<1>13. ASSUME NEW r \in Rows, r \notin phone.deletes, In(Taken, r)  PROVE Has(r, told[r])'
  <2>1. PICK v \in Versions : <<r, v>> \in Taken  BY <1>13 DEF In
  <2>2. told'[r] = v  BY <1>3, <1>5, <1>12, <1>13, <2>1
  <2> QED BY <1>6, <1>7, <1>12, <1>13, <2>1, <2>2 DEF Has
<1>14. ASSUME NEW r \in Rows, r \notin phone.deletes, ~In(Taken, r), In(phone.rows, r)
       PROVE  r \in spared' /\ told'[r] # 0
  <2>1. PICK v \in Versions : <<r, v>> \in phone.rows  BY <1>14 DEF In
  <2>2. told'[r] = v /\ v # 0  BY <1>5, <1>12, <1>14, <2>1 DEF PageRowsOK
  <2> QED BY <1>2, <1>10, <1>14, <2>2 DEF RowsIn
<1>15. ASSUME NEW r \in Rows, r \notin phone.deletes, ~In(phone.rows, r)
       PROVE  local'[r] = local[r] /\ told'[r] = told[r] /\ dlq'[r] = dlq[r]
              /\ (r \in revived' <=> r \in revived) /\ (r \in spared' <=> r \in spared)
  <2>1. ~In(Taken, r)  BY <1>3, <1>15 DEF In
  <2> QED BY <1>2, <1>5, <1>6, <1>7, <1>10, <1>12, <1>15, <2>1 DEF RowsIn
<1>16. (revived' \subseteq Rows) /\ (spared' \subseteq Rows) /\ (queued' \subseteq Rows)  BY <1>2 DEF KeptOK, RowsIn
<1>17. \A r \in Rows : r \in revived' \cup spared' \/ Has(r, told[r])'
  BY <1>11, <1>13, <1>14, <1>15 DEF KeptOK, Has
<1>18. \A r \in spared' : told'[r] # 0
  <2>1. \A r \in spared' : r \notin phone.deletes /\ ~In(Taken, r)  BY <1>2, <1>10, <1>16
  <2> QED BY <1>14, <1>15, <1>16, <2>1 DEF KeptOK
<1> QED BY <1>8, <1>9, <1>16, <1>17, <1>18 DEF KeptOK

\* A retry leaves the letter, or stores it: over an older or the same version,
\* or by the exception's name.
LEMMA RetryKept == ASSUME KeptOK, RetryFailedApplies PROVE KeptOK'
<1>1. PICK batch \in Batches : \E bad \in SUBSET {r \in batch : <<r, dlq[r].version>> \in Faulty} :
        /\ local' = [r \in Rows |-> IF r \in batch \ bad THEN dlq[r].version ELSE local[r]]
        /\ dlq' = [r \in Rows |-> IF r \in batch \ bad THEN NoLetter
                     ELSE IF r \in bad THEN [dlq[r] EXCEPT !.attempts = @ + 1] ELSE dlq[r]]
        /\ revived' = (revived \ (batch \ bad)) \cup {r \in batch \ bad : dlq[r].version # told[r]}
  BY DEF RetryFailedApplies
<1> PICK bad \in SUBSET {r \in batch : <<r, dlq[r].version>> \in Faulty} :
        /\ local' = [r \in Rows |-> IF r \in batch \ bad THEN dlq[r].version ELSE local[r]]
        /\ dlq' = [r \in Rows |-> IF r \in batch \ bad THEN NoLetter
                     ELSE IF r \in bad THEN [dlq[r] EXCEPT !.attempts = @ + 1] ELSE dlq[r]]
        /\ revived' = (revived \ (batch \ bad)) \cup {r \in batch \ bad : dlq[r].version # told[r]}
  BY <1>1
<1>2. told' = told /\ spared' = spared /\ queued' = queued  BY DEF RetryFailedApplies
<1>3. batch \subseteq Rows  BY DEF Batches, Retryable
<1>4. \A r \in Rows : dlq[r] \in DeadLetter /\ dlq[r].version \in Versions /\ dlq[r].attempts \in Nat
  BY DEF KeptOK, DeadLetter
<1>5. \A r \in Rows : LET l == [dlq[r] EXCEPT !.attempts = @ + 1]
                      IN  l \in DeadLetter /\ l.version = dlq[r].version /\ l.attempts # 0
  BY <1>4 DEF DeadLetter
<1>6. NoLetter \in DeadLetter  BY Constants DEF NoLetter, DeadLetter, Versions
<1>7. dlq' \in [Rows -> DeadLetter]  BY <1>1, <1>4, <1>5, <1>6
<1>8. local' \in [Rows -> Versions]  BY <1>1, <1>4 DEF KeptOK
<1>9. (revived' \subseteq Rows) /\ (spared' \subseteq Rows) /\ (queued' \subseteq Rows)
  BY <1>1, <1>2, <1>3 DEF KeptOK
<1>10. ASSUME NEW r \in Rows, r \in batch \ bad  PROVE r \in revived' \/ Has(r, told[r])'
  BY <1>1, <1>2, <1>10 DEF Has
<1>11. ASSUME NEW r \in Rows, r \notin batch \ bad  PROVE r \in revived' \cup spared' \/ Has(r, told[r])'
  <2>1. r \in revived \cup spared \/ Has(r, told[r])  BY DEF KeptOK
  <2>2. local'[r] = local[r]  BY <1>1, <1>11
  <2>3. dlq'[r].version = dlq[r].version /\ (dlq[r].attempts # 0 => dlq'[r].attempts # 0)
    BY <1>1, <1>5, <1>11
  <2> QED BY <1>1, <1>2, <1>11, <2>1, <2>2, <2>3 DEF Has
<1>12. \A r \in spared' : told'[r] # 0  BY <1>2 DEF KeptOK
<1> QED BY <1>7, <1>8, <1>9, <1>10, <1>11, <1>12 DEF KeptOK

\* A logout empties the tables.
LEMMA LogoutKept == ASSUME KeptOK, LogoutAndLogin PROVE KeptOK'
<1>1. /\ local' = [r \in Rows |-> 0] /\ told' = [r \in Rows |-> 0] /\ dlq' = [r \in Rows |-> NoLetter]
      /\ revived' = {} /\ spared' = {} /\ queued' = {}
  BY DEF LogoutAndLogin
<1>2. 0 \in Versions  BY Constants DEF Versions
<1>3. NoLetter \in DeadLetter  BY <1>2 DEF NoLetter, DeadLetter
<1> QED BY <1>1, <1>2, <1>3 DEF KeptOK, Has

\* Every step keeps the tables in line with what the phone was told.
LEMMA NextKept == ASSUME IInv, KeptOK, [Next]_vars PROVE KeptOK'
<1> USE DEF device, history, server
<1>0. TypesOK /\ PageRowsOK /\ queued \subseteq Rows  BY DEF IInv, KeptOK
<1>1. ASSUME NEW w \in Writers, Begin(w) \/ Rollback(w)  PROVE KeptOK'
  BY <1>0, <1>1, SameKept DEF Begin, Rollback
<1>2. ASSUME NEW w \in Writers, NEW r \in Rows, Upsert(w, r) \/ Delete(w, r)  PROVE KeptOK'
  BY <1>0, <1>2, SameKept DEF Upsert, Delete
<1>3. ASSUME NEW w \in Writers, NEW r \in Rows, PushApplied(w, r)  PROVE KeptOK'
  BY <1>0, <1>3, PushAppliedKept
<1>4. ASSUME NEW r \in Rows, Enqueue(r)  PROVE KeptOK'
  <2>1. queued' \subseteq Rows  BY <1>0, <1>4 DEF Enqueue
  <2> QED BY <1>4, <2>1, SameKept DEF Enqueue
<1>5. CASE Tick \/ (\E e \in Entities : ChangeView(e)) \/ RefreshSnapshot
  BY <1>0, <1>5, SameKept DEF Tick, ChangeView, RefreshSnapshot
<1>6. CASE PhoneStep
  <2>1. CASE Open  BY <1>0, <2>1, OpenKept
  <2>2. CASE InitialComplete \/ Stamp \/ Changes \/ ReadTombstones
    BY <1>0, <2>2, SameKept DEF InitialComplete, Stamp, Changes, ReadTombstones
  <2>3. ASSUME NEW e \in Entities, InitialPage(e) \/ ReadEntity(e)  PROVE KeptOK'
    BY <1>0, <2>3, SameKept DEF InitialPage, ReadEntity
  <2>4. CASE DrainEnds
    <3>1. queued' \subseteq Rows  BY <1>0, <2>4 DEF DrainEnds
    <3> QED BY <2>4, <3>1, SameKept DEF DrainEnds
  <2>5. CASE ApplyInitial  BY <1>0, <2>5, ApplyInitialKept
  <2>6. CASE ApplyChanges  BY <1>0, <2>6, ApplyChangesKept
  <2>7. CASE RetryFailedApplies  BY <2>7, RetryKept
  <2> QED BY <1>6, <2>1, <2>2, <2>3, <2>4, <2>5, <2>6, <2>7 DEF PhoneStep
<1>7. CASE CycleFails  BY <1>0, <1>7, SameKept DEF CycleFails
<1>8. CASE LogoutAndLogin  BY <1>8, LogoutKept
<1>9. CASE UNCHANGED vars  BY <1>0, <1>9, SameKept DEF vars
<1> QED BY <1>1, <1>2, <1>3, <1>4, <1>5, <1>6, <1>7, <1>8, <1>9 DEF Next

\* The invariant of cold start, delta pull and apply: what the dump has gone
\* past the phone has been told of or will be, no watermark stands past an open
\* transaction, what a page in hand has missed comes again; and what the phone
\* was told is in its tables or its dead letters, unless an older dead letter
\* was retried over it or a queued create had the page pass it over.
THEOREM Invariant == Spec => [](IInv /\ KeptOK)
<1>1. Init => IInv /\ KeptOK  BY InitInv, InitKept
<1>2. (IInv /\ KeptOK) /\ [Next]_vars => (IInv /\ KeptOK)'  BY NextInv, NextKept
<1> QED BY <1>1, <1>2, PTL DEF Spec

\* The no-gap rule (BR-SYNC-005): a committed row the watermark of its entity
\* has passed is on the phone in that version, or in its dead letters, whatever
\* was in flight while the pages were read and whatever failed to apply
\* (changes.service.ts, delta-pull.ts, retry-failed-applies.ts).
THEOREM NoGapEver == Spec => []NoGap
<1>1. IInv /\ KeptOK => NoGap
  <2> SUFFICES ASSUME IInv, KeptOK, cursor # NoCursor, NEW r \in Rows \ (revived \cup spared),
                      row[r].alive, UpTo(At(r), cursor.e[EntityOf[r]]), ~Excused(r)
               PROVE  Has(r, row[r].version)
    BY DEF NoGap
  <2>1. told[r] = row[r].version  BY DEF IInv, CursorGap, Told
  <2>2. Has(r, told[r])  BY DEF KeptOK
  <2> QED BY <2>1, <2>2
<1> QED BY <1>1, Invariant, PTL

\* A deleted row of an entity in view is not on the phone once the tombstone
\* watermark has passed it, under the permissions the phone has stamped, unless
\* its removal failed and is a dead letter, or an older dead letter was retried.
THEOREM NothingResurrected == Spec => []Inv
<1>1. IInv /\ KeptOK => Inv
  <2> SUFFICES ASSUME IInv, KeptOK PROVE Inv
    OBVIOUS
  <2>1. TypeOK
    <3>1. granted.version \in Nat /\ (granted.view \subseteq Entities)  BY Types DEF IInv, Perms
    <3>2. phone.pc \in Steps /\ (phone.view \subseteq Entities) /\ (phone.deletes \subseteq Rows)
      BY PhoneFields DEF IInv
    <3> QED BY <3>1, <3>2, Types DEF IInv, KeptOK, TypeOK, ServerRow, ServerProgress, LocalProgress, DeadLetter
  <2>2. NoResurrection
    <3> SUFFICES ASSUME cursor # NoCursor, meta = granted, NEW r \in Rows \ revived, tomb[r] # 0,
                        UpTo(Grave(r), cursor.t), r \notin late, EntityOf[r] \in granted.view
                 PROVE  Has(r, 0)
      BY DEF NoResurrection
    <3>1. granted.version \in Nat  BY Types DEF IInv, Perms
    <3>2. told[r] = 0  BY <3>1 DEF IInv, Passed
    <3>3. r \notin spared /\ Has(r, told[r])  BY <3>2 DEF KeptOK
    <3> QED BY <3>2, <3>3
  <2> QED BY <2>1, <2>2 DEF Inv
<1> QED BY <1>1, Invariant, PTL

=============================================================================
