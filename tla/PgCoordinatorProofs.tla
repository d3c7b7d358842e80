------------------------- MODULE PgCoordinatorProofs -------------------------
(***************************************************************************)
(* Theorems about PgCoordinator, for any number of callers, approvals,     *)
(* actors and executions and any windows: its invariants, and that it      *)
(* implements ApprovalLifecycle although its calls are not atomic.         *)
(*                                                                         *)
(* What makes the statements safe between calls is a statement about each  *)
(* row, its grants and its answers (Sound), what makes the calls safe is   *)
(* what a reply on its way still says of the row it was read from (Valid). *)
(***************************************************************************)
EXTENDS PgCoordinator, FiniteSetTheorems, TLAPS

Final == {"rejected", "consumed"}

\* s may be stored where r was: a final status, an approver and a consumer
\* never change, and an approved row is not rejected.
Supersedes(s, r) ==
  /\ r.status \in Final => s.status = r.status
  /\ r.status = "approved" => s.status # "rejected"
  /\ r.approver # None => s.approver = r.approver
  /\ r.status = "consumed" => s.consumer = r.consumer

\* r was decided by the approver, and rejected if and only if the verdict is so.
Bears(r, verdict, approver) ==
  /\ r.approver = approver
  /\ r.status = "rejected" <=> verdict = "rejected"

\* A row that the two conditional updates may leave behind.
Timely(r) ==
  /\ Coherent(r)
  /\ r.status # "expired"
  /\ r.approver # None => r.decidedAt < r.expiresAt

\* One row, the executions granted it, and what was answered and audited of it.
Sound(id) ==
  /\ rows[id] # NoRecord => Timely(rows[id])
  /\ \A e \in granted[id] :
       rows[id] # NoRecord /\ rows[id].status = "consumed" /\ rows[id].consumer = e
  /\ \A s \in told[id] \cap Final : rows[id] # NoRecord /\ rows[id].status = s
  /\ \A event \in trail[id] :
       rows[id] # NoRecord /\ Bears(rows[id], event.type, event.approver)

\* A call concerns a row of the table; a grant or a verdict on its way back is
\* the one the row records, and a final status on its way back is the table's.
Valid(q, table) ==
  q # NoCall =>
    /\ q.id \in Ids /\ table[q.id] # NoRecord
    /\ q.op = "granted" => table[q.id].status = "consumed" /\ table[q.id].consumer = q.exec
    /\ q.op = "decided" =>
         q.row.status \in Verdicts /\ Bears(table[q.id], q.row.status, q.approver)
    /\ q.op = "map" /\ q.row.status \in Final => table[q.id].status = q.row.status

IInv ==
  /\ TypeOK
  /\ \A id \in Ids : Sound(id)
  /\ \A c \in Callers : Valid(call[c], rows)

Replaces(id, r) == rows' = [rows EXCEPT ![id] = r]

\* A decision and a consumption leave a coherent record.
LEMMA DecidedIsRecord ==
  ASSUME NEW r \in Records, NEW verdict \in Verdicts, NEW approver \in Actors, NEW now \in Nat,
         Coherent(r), r.status = "pending"
  PROVE  LET s == Decided(r, verdict, approver, now) IN
           s \in Records /\ Coherent(s)
BY RecordConstants DEF Decided, Verdicts, Records, Statuses, Coherent

LEMMA ConsumedIsRecord ==
  ASSUME NEW r \in Records, NEW exec \in Executions, Coherent(r), Consumable(r)
  PROVE  LET s == Consumed(r, exec) IN
           s \in Records /\ Coherent(s)
BY RecordConstants DEF Consumed, Consumable, Records, Statuses, Coherent

-----------------------------------------------------------------------------
\* What a call in progress carries, by its kind.
LEMMA CallShape ==
  ASSUME TypeOK, NEW c \in Callers
  PROVE  LET q == call[c] IN
         /\ q.op = "decide" => /\ q # NoCall /\ q.verdict \in Verdicts
                               /\ q.approver \in Actors /\ q.at \in Nat
         /\ q.op \in {"consume", "granted"} => q # NoCall /\ q.exec \in Executions
         /\ q.op = "decided" => q # NoCall /\ q.row \in Records /\ q.approver \in Actors
         /\ q.op = "read" => q # NoCall
         /\ q.op = "map" => q # NoCall /\ q.row \in Records
         /\ q # NoCall => q.id \in Ids
<1>1. call[c] \in Calls  BY DEF TypeOK
<1>. QED  BY <1>1 DEF Calls, NoCall

\* A verdict outlives the row it was first stored in.
LEMMA VerdictsOutlive ==
  ASSUME NEW r, NEW s, Timely(r), Supersedes(s, r), NEW verdict, NEW a \in Actors,
         Bears(r, verdict, a)
  PROVE  Bears(s, verdict, a)
<1>1. r.approver # None  BY RecordConstants DEF Bears
<1>2. r.status \in {"approved", "rejected", "consumed"}  BY <1>1 DEF Timely, Coherent
<1>. QED  BY <1>1, <1>2 DEF Supersedes, Bears, Final

\* A row is created or replaced by one that supersedes it: the other rows, the
\* grants, the answers, the trail and the calls in progress stay sound.
LEMMA ReplacementPreserves ==
  ASSUME IInv, NEW id \in Ids, NEW r \in Records, Replaces(id, r), Timely(r),
         rows[id] # NoRecord => Supersedes(r, rows[id]),
         UNCHANGED <<granted, told, trail>>
  PROVE  /\ rows' \in [Ids -> Records \cup {NoRecord}]
         /\ \A i \in Ids : rows'[i] # NoRecord => rows'[i].status # "expired"
         /\ \A i \in Ids : Sound(i)'
         /\ \A c \in Callers : Valid(call[c], rows')
<1>1. TypeOK /\ (\A i \in Ids : Sound(i)) /\ \A c \in Callers : Valid(call[c], rows)
  BY DEF IInv
<1>2. \A i \in Ids : rows'[i] = IF i = id THEN r ELSE rows[i]
  BY <1>1 DEF Replaces, TypeOK
<1>3. r # NoRecord  BY NoRecordIsNoRecord
<1>4. rows' \in [Ids -> Records \cup {NoRecord}]
  BY <1>1 DEF Replaces, TypeOK
<1>5. \A i \in Ids : rows'[i] # NoRecord => rows'[i].status # "expired"
  BY <1>1, <1>2 DEF Timely, TypeOK
<1>6. ASSUME NEW i \in Ids PROVE Sound(i)'
  <2>1. CASE i # id
    BY <1>1, <1>2, <2>1 DEF Sound
  <2>2. CASE i = id
    <3>1. \A event \in trail[i] : Bears(r, event.type, event.approver)
      BY <1>1, <2>2, VerdictsOutlive DEF Sound, TypeOK, Events
    <3>2. rows'[i] = r  BY <1>2, <2>2
    <3>. QED  BY <1>1, <1>3, <2>2, <3>1, <3>2 DEF Sound, Supersedes, Final
  <2>. QED  BY <2>1, <2>2
<1>7. ASSUME NEW c \in Callers PROVE Valid(call[c], rows')
  <2>. SUFFICES ASSUME call[c] # NoCall PROVE Valid(call[c], rows')
    BY DEF Valid
  <2>1. call[c].id \in Ids /\ rows[call[c].id] # NoRecord
    BY <1>1 DEF Valid
  <2>2. CASE call[c].id # id
    BY <1>1, <1>2, <2>1, <2>2 DEF Valid
  <2>3. CASE call[c].id = id
    <3>1. rows'[call[c].id] = r /\ Timely(rows[id]) /\ Supersedes(r, rows[id])
      BY <1>1, <1>2, <2>1, <2>3 DEF Sound
    <3>2. call[c].op = "decided" => Bears(r, call[c].row.status, call[c].approver)
      BY <1>1, <2>3, <3>1, CallShape, VerdictsOutlive DEF Valid
    <3>3. call[c].op = "granted" => r.status = "consumed" /\ r.consumer = call[c].exec
      BY <1>1, <2>3, <3>1 DEF Valid, Supersedes, Final
    <3>4. call[c].op = "map" /\ call[c].row.status \in Final => r.status = call[c].row.status
      BY <1>1, <2>3, <3>1 DEF Valid, Supersedes
    <3>. QED  BY <1>1, <1>3, <2>1, <3>1, <3>2, <3>3, <3>4 DEF Valid
  <2>. QED  BY <2>2, <2>3
<1>. QED  BY <1>4, <1>5, <1>6, <1>7

\* A step of caller c replaces its call by q and leaves the table alone.
LEMMA CallPreserves ==
  ASSUME IInv, NEW c \in Callers, NEW q \in Calls,
         call' = [call EXCEPT ![c] = q], Valid(q, rows), UNCHANGED <<rows, clock>>,
         granted' \in [Ids -> SUBSET Executions], told' \in [Ids -> SUBSET Statuses],
         trail' \in [Ids -> SUBSET Events], \A id \in Ids : Sound(id)'
  PROVE  IInv'
<1>1. TypeOK /\ \A d \in Callers : Valid(call[d], rows)  BY DEF IInv
<1>2. \A d \in Callers : call'[d] = IF d = c THEN q ELSE call[d]
  BY <1>1 DEF TypeOK
<1>3. TypeOK'  BY <1>1 DEF TypeOK
<1>4. \A d \in Callers : Valid(call'[d], rows)  BY <1>1, <1>2
<1>5. \A d \in Callers : Valid(call[d], rows)'  BY <1>4 DEF Valid, NoCall
<1>. QED  BY <1>3, <1>5 DEF IInv

LEMMA SoundUnchanged ==
  ASSUME IInv, UNCHANGED <<rows, granted, told, trail>>
  PROVE  /\ \A id \in Ids : Sound(id)'
         /\ granted' \in [Ids -> SUBSET Executions] /\ told' \in [Ids -> SUBSET Statuses]
         /\ trail' \in [Ids -> SUBSET Events]
BY DEF IInv, TypeOK, Sound

LEMMA CreatePreserves ==
  ASSUME IInv, NEW id \in Ids, NEW a \in Actors, NEW v \in Values, NEW w \in Windows,
         Create(id, a, v, w)
  PROVE  IInv'
<1>. DEFINE r == Pending([requester |-> a, input |-> v, hash |-> v, expiresAt |-> clock + w])
<1>1. TypeOK /\ rows[id] = NoRecord /\ clock \in Nat /\ w \in Nat
  BY PgConstants DEF IInv, Create, Exists, TypeOK
<1>2. r \in Records /\ Timely(r)
  BY <1>1 DEF Pending, Records, Statuses, Timely, Coherent
<1>3. Replaces(id, r) /\ UNCHANGED <<clock, call, granted, told, trail>>
  BY DEF Create, Replaces
<1>. HIDE DEF r
<1>4. /\ rows' \in [Ids -> Records \cup {NoRecord}]
      /\ \A i \in Ids : rows'[i] # NoRecord => rows'[i].status # "expired"
      /\ \A i \in Ids : Sound(i)'
      /\ \A c \in Callers : Valid(call[c], rows')
  BY <1>1, <1>2, <1>3, ReplacementPreserves
<1>5. TypeOK'  BY <1>1, <1>3, <1>4 DEF TypeOK
<1>6. \A c \in Callers : Valid(call[c], rows)'  BY <1>3, <1>4 DEF Valid, NoCall
<1>. QED  BY <1>4, <1>5, <1>6 DEF IInv

\* Starting a call, landing a read and dropping a call change nothing but the
\* caller's call.
LEMMA StartPreserves ==
  ASSUME IInv, NEW c \in Callers, NEW q \in Calls, q.op \in {"decide", "consume", "read"},
         q.id \in Ids, Start(c, q)
  PROVE  IInv'
<1>1. Valid(q, rows)  BY DEF Valid, Start, Exists
<1>2. call' = [call EXCEPT ![c] = q] /\ UNCHANGED <<rows, clock, granted, told, trail>>
  BY DEF Start
<1>. QED  BY <1>1, <1>2, SoundUnchanged, CallPreserves

LEMMA SendPreserves ==
  ASSUME IInv, NEW c \in Callers, NEW id \in Ids
  PROVE  /\ \A v \in Verdicts, a \in Actors : SendDecide(c, id, v, a) => IInv'
         /\ \A e \in Executions : SendConsume(c, id, e) => IInv'
         /\ SendRead(c, id) => IInv'
<1>1. ASSUME NEW v \in Verdicts, NEW a \in Actors, SendDecide(c, id, v, a) PROVE IInv'
  <2>. DEFINE q == [op |-> "decide", id |-> id, verdict |-> v, approver |-> a, at |-> clock]
  <2>1. clock \in Nat  BY DEF IInv, TypeOK
  <2>2. q \in Calls /\ q.op = "decide" /\ q.id \in Ids  BY <2>1 DEF Calls
  <2>3. Start(c, q)  BY <1>1 DEF SendDecide
  <2>. HIDE DEF q
  <2>. QED  BY <2>2, <2>3, StartPreserves
<1>2. ASSUME NEW e \in Executions, SendConsume(c, id, e) PROVE IInv'
  <2>. DEFINE q == [op |-> "consume", id |-> id, exec |-> e]
  <2>1. q \in Calls /\ q.op = "consume" /\ q.id \in Ids  BY DEF Calls
  <2>2. Start(c, q)  BY <1>2 DEF SendConsume
  <2>. HIDE DEF q
  <2>. QED  BY <2>1, <2>2, StartPreserves
<1>3. ASSUME SendRead(c, id) PROVE IInv'
  <2>. DEFINE q == [op |-> "read", id |-> id]
  <2>1. q \in Calls /\ q.op = "read" /\ q.id \in Ids  BY DEF Calls
  <2>2. Start(c, q)  BY <1>3 DEF SendRead
  <2>. HIDE DEF q
  <2>. QED  BY <2>1, <2>2, StartPreserves
<1>. QED  BY <1>1, <1>2, <1>3

\* A caller's step that may change the table and ends with the call q.
LEMMA LandingPreserves ==
  ASSUME IInv, NEW c \in Callers, NEW q \in Calls,
         call' = [call EXCEPT ![c] = q], UNCHANGED clock, UNCHANGED <<granted, told, trail>>,
         rows' \in [Ids -> Records \cup {NoRecord}],
         \A i \in Ids : rows'[i] # NoRecord => rows'[i].status # "expired",
         \A i \in Ids : Sound(i)',
         \A d \in Callers : Valid(call[d], rows'), Valid(q, rows')
  PROVE  IInv'
<1>1. TypeOK  BY DEF IInv
<1>2. \A d \in Callers : call'[d] = IF d = c THEN q ELSE call[d]
  BY <1>1 DEF TypeOK
<1>3. TypeOK'  BY <1>1 DEF TypeOK
<1>4. \A d \in Callers : Valid(call'[d], rows')  BY <1>2
<1>5. \A d \in Callers : Valid(call[d], rows)'  BY <1>4 DEF Valid, NoCall
<1>. QED  BY <1>3, <1>5 DEF IInv

\* A decision that lands finds a pending row, strictly inside its window.
LEMMA LandingDecision ==
  ASSUME IInv, NEW c \in Callers, call[c].op = "decide", Lands(rows[call[c].id], call[c].at)
  PROVE  LET q == call[c] r == rows[q.id] s == Decided(r, q.verdict, q.approver, q.at) IN
         /\ q.id \in Ids /\ r # NoRecord /\ r.status = "pending" /\ q.verdict \in Verdicts
         /\ s \in Records /\ Timely(s) /\ Supersedes(s, r)
         /\ s.status = q.verdict /\ s.approver = q.approver /\ s.consumer = r.consumer
         /\ q.approver \in Actors
<1>. DEFINE q == call[c]  r == rows[q.id]
<1>1. TypeOK /\ Valid(q, rows)  BY DEF IInv
<1>2. /\ q # NoCall /\ q.id \in Ids /\ q.verdict \in Verdicts /\ q.approver \in Actors
      /\ q.at \in Nat
  BY <1>1, CallShape
<1>3. r # NoRecord /\ r \in Records  BY <1>1, <1>2 DEF Valid, TypeOK
<1>4. Coherent(r) /\ r.status = "pending" /\ q.at < r.expiresAt
  BY <1>2, <1>3 DEF IInv, Sound, Timely, Lands, Decidable, Records
<1>. HIDE DEF q, r
<1>. DEFINE s == Decided(r, q.verdict, q.approver, q.at)
<1>5. s \in Records /\ Coherent(s)
  BY <1>2, <1>3, <1>4, DecidedIsRecord
<1>6. /\ s.status = q.verdict /\ s.approver = q.approver /\ s.consumer = r.consumer
      /\ s.decidedAt = q.at /\ s.expiresAt = r.expiresAt
  BY <1>3 DEF Decided, Records
<1>7. r.approver = None  BY <1>4 DEF Coherent
<1>8. Timely(s) /\ Supersedes(s, r)
  BY <1>2, <1>4, <1>5, <1>6, <1>7 DEF Timely, Supersedes, Verdicts, Final
<1>. QED  BY <1>2, <1>3, <1>4, <1>5, <1>6, <1>8 DEF q, r

LEMMA LandDecidePreserves ==
  ASSUME IInv, NEW c \in Callers, LandDecide(c)
  PROVE  IInv'
<1>. DEFINE q == call[c]
<1>1. q.op = "decide" /\ UNCHANGED <<clock, granted, told, trail>>
  BY DEF LandDecide
<1>3. CASE Lands(rows[q.id], q.at)
  <2>. DEFINE s == Decided(rows[q.id], q.verdict, q.approver, q.at)
              p == [op |-> "decided", id |-> q.id, row |-> s, approver |-> q.approver]
  <2>1. /\ q.id \in Ids /\ s \in Records /\ Timely(s) /\ Supersedes(s, rows[q.id])
        /\ s.status = q.verdict /\ s.approver = q.approver
        /\ q.verdict \in Verdicts /\ q.approver \in Actors
    BY <1>1, <1>3, LandingDecision
  <2>2. Replaces(q.id, s)  BY <1>3 DEF LandDecide, Replaces
  <2>4. rows'[q.id] = s /\ s # NoRecord
    BY <2>1, <2>2, NoRecordIsNoRecord DEF Replaces, IInv, TypeOK
  <2>5. call' = [call EXCEPT ![c] = p]  BY <1>3, <2>4 DEF LandDecide
  <2>6. p \in Calls /\ p.op = "decided" /\ p.id = q.id /\ p.row = s /\ p.approver = q.approver
    BY <2>1 DEF Calls
  <2>. HIDE DEF s, p, q
  <2>7. Valid(p, rows')  BY <2>1, <2>4, <2>6 DEF Valid, Bears
  <2>3. /\ rows' \in [Ids -> Records \cup {NoRecord}]
        /\ \A i \in Ids : rows'[i] # NoRecord => rows'[i].status # "expired"
        /\ \A i \in Ids : Sound(i)'
        /\ \A d \in Callers : Valid(call[d], rows')
    BY <1>1, <2>1, <2>2, ReplacementPreserves
  <2>. QED  BY <1>1, <2>3, <2>5, <2>6, <2>7, LandingPreserves
<1>4. CASE ~Lands(rows[q.id], q.at)
  <2>1. UNCHANGED <<rows, granted, told, trail>> /\ call' = [call EXCEPT ![c] = NoCall]
    BY <1>4 DEF LandDecide
  <2>2. NoCall \in Calls /\ Valid(NoCall, rows)  BY DEF Calls, Valid
  <2>. QED  BY <1>1, <2>1, <2>2, SoundUnchanged, CallPreserves
<1>. QED  BY <1>3, <1>4

LEMMA AnswerDecidePreserves ==
  ASSUME IInv, NEW c \in Callers, AnswerDecide(c)
  PROVE  IInv'
<1>. DEFINE q == call[c]
            event == [type |-> IF MappedStatus(q.row) = "approved" THEN "approved" ELSE "rejected",
                      approver |-> q.approver]
<1>1. /\ q.op = "decided" /\ call' = [call EXCEPT ![c] = NoCall]
      /\ trail' = [trail EXCEPT ![q.id] = @ \cup {event}]
      /\ UNCHANGED <<rows, clock, granted, told>>
  BY DEF AnswerDecide
<1>2. TypeOK /\ (\A i \in Ids : Sound(i)) /\ Valid(q, rows)
  BY DEF IInv
<1>3. q # NoCall /\ q.id \in Ids /\ q.row \in Records /\ q.approver \in Actors
  BY <1>1, <1>2, CallShape
<1>4. /\ rows[q.id] # NoRecord /\ q.row.status \in Verdicts
      /\ Bears(rows[q.id], q.row.status, q.approver)
  BY <1>1, <1>2, <1>3 DEF Valid
<1>5. event.type = q.row.status /\ event.approver = q.approver /\ event \in Events
  BY <1>3, <1>4 DEF MappedStatus, Aged, Overdue, Verdicts, Events
<1>6. NoCall \in Calls /\ Valid(NoCall, rows)  BY DEF Calls, Valid
<1>. HIDE DEF q, event
<1>7. /\ granted' \in [Ids -> SUBSET Executions] /\ told' \in [Ids -> SUBSET Statuses]
      /\ trail' \in [Ids -> SUBSET Events]
  BY <1>1, <1>2, <1>5 DEF TypeOK
<1>8. \A i \in Ids : trail'[i] = IF i = q.id THEN trail[i] \cup {event} ELSE trail[i]
  BY <1>1, <1>2 DEF TypeOK
<1>9. \A i \in Ids : Sound(i)'
  BY <1>1, <1>2, <1>4, <1>5, <1>8 DEF Sound
<1>. QED  BY <1>1, <1>6, <1>7, <1>9, CallPreserves

\* A consumption that lands finds an approved row nobody has spent.
LEMMA LandingConsumption ==
  ASSUME IInv, NEW c \in Callers, call[c].op = "consume", Consumable(rows[call[c].id])
  PROVE  LET q == call[c] r == rows[q.id] s == Consumed(r, q.exec) IN
         /\ q.id \in Ids /\ q.exec \in Executions /\ r # NoRecord
         /\ r.status = "approved" /\ r.consumer = None
         /\ s \in Records /\ Timely(s) /\ Supersedes(s, r)
         /\ s.status = "consumed" /\ s.consumer = q.exec /\ s.approver = r.approver
<1>. DEFINE q == call[c]  r == rows[q.id]
<1>1. TypeOK /\ Valid(q, rows)  BY DEF IInv
<1>2. q # NoCall /\ q.id \in Ids /\ q.exec \in Executions
  BY <1>1, CallShape
<1>3. r # NoRecord /\ r \in Records  BY <1>1, <1>2 DEF Valid, TypeOK
<1>4. Timely(r) /\ Consumable(r)
  BY <1>2, <1>3 DEF IInv, Sound
<1>. HIDE DEF q, r
<1>. DEFINE s == Consumed(r, q.exec)
<1>5. s \in Records /\ Coherent(s)
  BY <1>2, <1>3, <1>4, ConsumedIsRecord DEF Timely
<1>6. /\ s.status = "consumed" /\ s.consumer = q.exec /\ s.approver = r.approver
      /\ s.decidedAt = r.decidedAt /\ s.expiresAt = r.expiresAt
  BY <1>3 DEF Consumed, Records
<1>7. Timely(s) /\ Supersedes(s, r)
  BY <1>4, <1>5, <1>6 DEF Timely, Supersedes, Final, Consumable
<1>. QED  BY <1>2, <1>3, <1>4, <1>5, <1>6, <1>7 DEF q, r, Consumable

LEMMA LandConsumePreserves ==
  ASSUME IInv, NEW c \in Callers, LandConsume(c)
  PROVE  IInv'
<1>. DEFINE q == call[c]
<1>1. q.op = "consume" /\ UNCHANGED <<clock, granted, told, trail>>
  BY DEF LandConsume
<1>2. CASE Consumable(rows[q.id])
  <2>. DEFINE s == Consumed(rows[q.id], q.exec)
              p == [op |-> "granted", id |-> q.id, exec |-> q.exec]
  <2>1. /\ q.id \in Ids /\ q.exec \in Executions
        /\ s \in Records /\ Timely(s) /\ Supersedes(s, rows[q.id])
        /\ s.status = "consumed" /\ s.consumer = q.exec
    BY <1>1, <1>2, LandingConsumption
  <2>2. Replaces(q.id, s) /\ call' = [call EXCEPT ![c] = p]
    BY <1>2 DEF LandConsume, Replaces
  <2>3. p \in Calls /\ p.op = "granted" /\ p.id = q.id /\ p.exec = q.exec
    BY <2>1 DEF Calls
  <2>. HIDE DEF s, p, q
  <2>4. /\ rows' \in [Ids -> Records \cup {NoRecord}]
        /\ \A i \in Ids : rows'[i] # NoRecord => rows'[i].status # "expired"
        /\ \A i \in Ids : Sound(i)'
        /\ \A d \in Callers : Valid(call[d], rows')
    BY <1>1, <2>1, <2>2, ReplacementPreserves
  <2>5. rows'[q.id] = s /\ s # NoRecord
    BY <2>1, <2>2, NoRecordIsNoRecord DEF Replaces, IInv, TypeOK
  <2>6. Valid(p, rows')  BY <2>1, <2>3, <2>5 DEF Valid
  <2>. QED  BY <1>1, <2>2, <2>3, <2>4, <2>6, LandingPreserves
<1>3. CASE ~Consumable(rows[q.id])
  <2>1. UNCHANGED <<rows, granted, told, trail>> /\ call' = [call EXCEPT ![c] = NoCall]
    BY <1>3 DEF LandConsume
  <2>2. NoCall \in Calls /\ Valid(NoCall, rows)  BY DEF Calls, Valid
  <2>. QED  BY <1>1, <2>1, <2>2, SoundUnchanged, CallPreserves
<1>. QED  BY <1>2, <1>3

LEMMA AnswerConsumePreserves ==
  ASSUME IInv, NEW c \in Callers, AnswerConsume(c)
  PROVE  IInv'
<1>. DEFINE q == call[c]
<1>1. /\ q.op = "granted" /\ call' = [call EXCEPT ![c] = NoCall]
      /\ granted' = [granted EXCEPT ![q.id] = @ \cup {q.exec}]
      /\ UNCHANGED <<rows, clock, told, trail>>
  BY DEF AnswerConsume
<1>2. TypeOK /\ (\A i \in Ids : Sound(i)) /\ Valid(q, rows)  BY DEF IInv
<1>3. q # NoCall /\ q.id \in Ids /\ q.exec \in Executions
  BY <1>1, <1>2, CallShape
<1>4. rows[q.id] # NoRecord /\ rows[q.id].status = "consumed" /\ rows[q.id].consumer = q.exec
  BY <1>1, <1>2, <1>3 DEF Valid
<1>5. NoCall \in Calls /\ Valid(NoCall, rows)  BY DEF Calls, Valid
<1>. HIDE DEF q
<1>6. /\ granted' \in [Ids -> SUBSET Executions] /\ told' \in [Ids -> SUBSET Statuses]
      /\ trail' \in [Ids -> SUBSET Events]
  BY <1>1, <1>2, <1>3 DEF TypeOK
<1>7. \A i \in Ids : granted'[i] = IF i = q.id THEN granted[i] \cup {q.exec} ELSE granted[i]
  BY <1>1, <1>2 DEF TypeOK
<1>8. \A i \in Ids : Sound(i)'
  BY <1>1, <1>2, <1>4, <1>7 DEF Sound
<1>. QED  BY <1>1, <1>5, <1>6, <1>8, CallPreserves

LEMMA LandReadPreserves ==
  ASSUME IInv, NEW c \in Callers, LandRead(c)
  PROVE  IInv'
<1>. DEFINE q == call[c]
            p == [op |-> "map", id |-> q.id, row |-> rows[q.id]]
<1>1. /\ q.op = "read" /\ call' = [call EXCEPT ![c] = p]
      /\ UNCHANGED <<rows, clock, granted, told, trail>>
  BY DEF LandRead
<1>2. TypeOK /\ Valid(q, rows)  BY DEF IInv
<1>3. q.id \in Ids /\ rows[q.id] # NoRecord /\ rows[q.id] \in Records
  BY <1>1, <1>2, CallShape DEF Valid, TypeOK
<1>4. p \in Calls /\ p.op = "map" /\ p.id = q.id /\ p.row = rows[q.id]
  BY <1>3 DEF Calls
<1>. HIDE DEF p
<1>5. Valid(p, rows)  BY <1>3, <1>4 DEF Valid
<1>. QED  BY <1>1, <1>4, <1>5, SoundUnchanged, CallPreserves

\* The lazy expiry never yields a final status the row does not have.
LEMMA MappedStatusFacts ==
  ASSUME NEW r \in Records, clock \in Nat
  PROVE  MappedStatus(r) \in Statuses /\ (MappedStatus(r) \in Final => r.status = MappedStatus(r))
BY DEF MappedStatus, Aged, Overdue, Records, Statuses, Final

LEMMA AnswerReadPreserves ==
  ASSUME IInv, NEW c \in Callers, AnswerRead(c)
  PROVE  IInv'
<1>. DEFINE q == call[c]
            t == MappedStatus(q.row)
<1>1. /\ q.op = "map" /\ call' = [call EXCEPT ![c] = NoCall]
      /\ told' = [told EXCEPT ![q.id] = @ \cup {t}]
      /\ UNCHANGED <<rows, clock, granted, trail>>
  BY DEF AnswerRead
<1>2. TypeOK /\ (\A i \in Ids : Sound(i)) /\ Valid(q, rows) /\ clock \in Nat
  BY DEF IInv, TypeOK
<1>3. q # NoCall /\ q.id \in Ids /\ q.row \in Records
  BY <1>1, <1>2, CallShape
<1>4. t \in Statuses /\ (t \in Final => q.row.status = t)
  BY <1>2, <1>3, MappedStatusFacts
<1>5. rows[q.id] # NoRecord /\ (q.row.status \in Final => rows[q.id].status = q.row.status)
  BY <1>1, <1>2, <1>3 DEF Valid
<1>6. NoCall \in Calls /\ Valid(NoCall, rows)  BY DEF Calls, Valid
<1>. HIDE DEF q, t
<1>7. /\ granted' \in [Ids -> SUBSET Executions] /\ told' \in [Ids -> SUBSET Statuses]
      /\ trail' \in [Ids -> SUBSET Events]
  BY <1>1, <1>2, <1>4 DEF TypeOK
<1>8. \A i \in Ids : told'[i] = IF i = q.id THEN told[i] \cup {t} ELSE told[i]
  BY <1>1, <1>2 DEF TypeOK
<1>9. t \in Final => rows[q.id].status = t
  BY <1>4, <1>5
<1>10. \A i \in Ids : Sound(i)'
  BY <1>1, <1>2, <1>5, <1>8, <1>9 DEF Sound
<1>. QED  BY <1>1, <1>6, <1>7, <1>10, CallPreserves

LEMMA DropPreserves ==
  ASSUME IInv, NEW c \in Callers, Drop(c)
  PROVE  IInv'
<1>1. call' = [call EXCEPT ![c] = NoCall] /\ UNCHANGED <<rows, clock, granted, told, trail>>
  BY DEF Drop
<1>2. NoCall \in Calls /\ Valid(NoCall, rows)  BY DEF Calls, Valid
<1>. QED  BY <1>1, <1>2, SoundUnchanged, CallPreserves

-----------------------------------------------------------------------------
LEMMA InitEstablishes == Init => IInv
BY DEF Init, IInv, TypeOK, Sound, Valid, Calls

LEMMA NextPreserves == IInv /\ [Next]_vars => IInv'
<1>. SUFFICES ASSUME IInv, [Next]_vars PROVE IInv'
  OBVIOUS
<1>1. CASE Tick \/ UNCHANGED vars
  <2>1. UNCHANGED <<rows, call, granted, told, trail>> /\ clock' \in Nat
    BY <1>1 DEF Tick, vars, IInv, TypeOK
  <2>2. TypeOK'  BY <2>1 DEF IInv, TypeOK
  <2>3. \A c \in Callers : Valid(call[c], rows)'  BY <2>1 DEF IInv, Valid, NoCall
  <2>. QED  BY <2>1, <2>2, <2>3, SoundUnchanged DEF IInv
<1>2. ASSUME NEW c \in Callers, CallerStep(c) PROVE IInv'
  BY <1>2, SendPreserves, LandDecidePreserves, AnswerDecidePreserves, LandConsumePreserves, AnswerConsumePreserves,
     LandReadPreserves, AnswerReadPreserves, DropPreserves DEF CallerStep
<1>. QED  BY <1>1, <1>2, CreatePreserves DEF Next

\* The invariant holds in every reachable state of every instance.
THEOREM Invariance == Spec => []IInv
BY InitEstablishes, NextPreserves, PTL DEF Spec

\* Type correctness of the table, the calls in progress and the answers.
THEOREM TypeCorrectness == Spec => []TypeOK
<1>1. IInv => TypeOK  BY DEF IInv
<1>. QED  BY <1>1, Invariance, PTL

\* markConsumed resolves for one execution at most, however the statements of
\* any number of processes land and whichever of them die.
THEOREM GrantedOnce == Spec => []SingleGrant
<1>1. IInv => SingleGrant
  <2>. SUFFICES ASSUME IInv, NEW id \in Ids
                PROVE  /\ Cardinality(granted[id]) <= 1
                       /\ \A e \in granted[id] :
                            rows[id].status = "consumed" /\ rows[id].consumer = e
    BY DEF SingleGrant
  <2>1. \A e \in granted[id] : rows[id].status = "consumed" /\ rows[id].consumer = e
    BY DEF IInv, Sound
  <2>2. granted[id] = {} \/ granted[id] = {rows[id].consumer}
    BY <2>1
  <2>3. Cardinality(granted[id]) \in {0, 1}
    <3>1. Cardinality({}) = 0 /\ Cardinality({rows[id].consumer}) = 1
      BY FS_EmptySet, FS_Singleton
    <3>. QED  BY <2>2, <3>1
  <2>. QED  BY <2>1, <2>3
<1>. QED  BY <1>1, Invariance, PTL

\* The clock a decision was stamped with lies inside the window of the row it
\* lands in, however late the statement arrives.
THEOREM TimelyVerdicts == Spec => []VerdictsAreTimely
<1>1. IInv => VerdictsAreTimely
  BY DEF IInv, Sound, Timely, Exists, VerdictsAreTimely
<1>. QED  BY <1>1, Invariance, PTL

\* Whoever has been told "rejected" or "consumed", from a row read earlier and
\* mapped later, has been told what the table still says, and so has whoever
\* reads a verdict in the audit trail.
THEOREM AnswersStand == Spec => []StoredAnswersStand
<1>1. IInv => StoredAnswersStand
  BY DEF IInv, Sound, Final, Bears, StoredAnswersStand
<1>. QED  BY <1>1, Invariance, PTL

-----------------------------------------------------------------------------
\* The life cycle seen at one created or replaced row.
LEMMA ViewOfReplacement ==
  ASSUME TypeOK, NEW id \in Ids, NEW r \in Records, Replaces(id, r)
  PROVE  /\ Phase' = [Phase EXCEPT ![id] = r.status]
         /\ Decider' = [Decider EXCEPT ![id] = r.approver]
         /\ User' = [User EXCEPT ![id] = r.consumer]
<1>1. \A i \in Ids : rows'[i] = IF i = id THEN r ELSE rows[i]
  BY DEF Replaces, TypeOK
<1>2. r # NoRecord  BY NoRecordIsNoRecord
<1>3. Phase' = [Phase EXCEPT ![id] = r.status]
  BY <1>1, <1>2 DEF Phase, Exists
<1>4. Decider' = [Decider EXCEPT ![id] = r.approver]
  BY <1>1, <1>2 DEF Decider, Exists
<1>5. User' = [User EXCEPT ![id] = r.consumer]
  BY <1>1, <1>2 DEF User, Exists
<1>. QED  BY <1>3, <1>4, <1>5

LEMMA ViewAt ==
  ASSUME NEW id \in Ids
  PROVE  /\ Exists(id) => /\ Phase[id] = rows[id].status
                          /\ Decider[id] = rows[id].approver
                          /\ User[id] = rows[id].consumer
         /\ ~Exists(id) => Phase[id] = "absent" /\ Decider[id] = None /\ User[id] = None
BY DEF Phase, Decider, User

\* The steps that leave the table alone stutter.
LEMMA TableUnchanged ==
  ASSUME UNCHANGED rows
  PROVE  [Lifecycle!Next]_(Lifecycle!lifecycle)
BY DEF Lifecycle!lifecycle, Phase, Decider, User, Exists

LEMMA CreateOpens ==
  ASSUME IInv, NEW id \in Ids, NEW a \in Actors, NEW v \in Values, NEW w \in Windows,
         Create(id, a, v, w)
  PROVE  Lifecycle!Open(id)
<1>. DEFINE r == Pending([requester |-> a, input |-> v, hash |-> v, expiresAt |-> clock + w])
<1>0. TypeOK  BY DEF IInv
<1>1. r \in Records /\ r.status = "pending" /\ r.approver = None /\ r.consumer = None
  BY <1>0, PgConstants DEF Pending, Records, Statuses, TypeOK
<1>2. Replaces(id, r) /\ ~Exists(id)  BY DEF Create, Replaces
<1>. HIDE DEF r
<1>3. /\ Phase' = [Phase EXCEPT ![id] = "pending"]
      /\ Decider' = [Decider EXCEPT ![id] = None] /\ User' = [User EXCEPT ![id] = None]
  BY <1>0, <1>1, <1>2, ViewOfReplacement
<1>4. Phase[id] = "absent" /\ Decider' = Decider /\ User' = User
  BY <1>2, <1>3, ViewAt DEF Decider, User
<1>. QED  BY <1>3, <1>4 DEF Lifecycle!Open

LEMMA LandDecideDecides ==
  ASSUME IInv, NEW c \in Callers, call[c].op = "decide", LandDecide(c),
         Lands(rows[call[c].id], call[c].at)
  PROVE  Lifecycle!Decide(call[c].id, call[c].verdict, call[c].approver)
<1>. DEFINE q == call[c]  s == Decided(rows[q.id], q.verdict, q.approver, q.at)
<1>0. TypeOK  BY DEF IInv
<1>1. /\ q.id \in Ids /\ rows[q.id] # NoRecord /\ rows[q.id].status = "pending"
      /\ s \in Records /\ s.status = q.verdict /\ s.approver = q.approver
      /\ s.consumer = rows[q.id].consumer
  BY LandingDecision
<1>2. Replaces(q.id, s)  BY DEF LandDecide, Replaces
<1>. HIDE DEF q, s
<1>3. /\ Phase' = [Phase EXCEPT ![q.id] = q.verdict]
      /\ Decider' = [Decider EXCEPT ![q.id] = q.approver]
      /\ User' = [User EXCEPT ![q.id] = rows[q.id].consumer]
  BY <1>0, <1>1, <1>2, ViewOfReplacement
<1>4. Phase[q.id] = "pending" /\ User' = User
  <2>1. Phase[q.id] = "pending" /\ User[q.id] = rows[q.id].consumer
    BY <1>1, ViewAt DEF Exists
  <2>2. User' = User
    BY <1>1, <1>3, <2>1 DEF User
  <2>. QED  BY <2>1, <2>2
<1>5. Lifecycle!Decide(q.id, q.verdict, q.approver)
  BY <1>3, <1>4 DEF Lifecycle!Decide
<1>. QED  BY <1>5 DEF q

LEMMA LandConsumeUses ==
  ASSUME IInv, NEW c \in Callers, call[c].op = "consume", LandConsume(c),
         Consumable(rows[call[c].id])
  PROVE  Lifecycle!Use(call[c].id, call[c].exec)
<1>. DEFINE q == call[c]  s == Consumed(rows[q.id], q.exec)
<1>0. TypeOK  BY DEF IInv
<1>1. /\ q.id \in Ids /\ rows[q.id] # NoRecord /\ rows[q.id].status = "approved"
      /\ rows[q.id].consumer = None /\ s \in Records /\ s.status = "consumed"
      /\ s.consumer = q.exec /\ s.approver = rows[q.id].approver
  BY LandingConsumption
<1>2. Replaces(q.id, s)  BY DEF LandConsume, Replaces
<1>. HIDE DEF q, s
<1>3. /\ Phase' = [Phase EXCEPT ![q.id] = "consumed"]
      /\ Decider' = [Decider EXCEPT ![q.id] = rows[q.id].approver]
      /\ User' = [User EXCEPT ![q.id] = q.exec]
  BY <1>0, <1>1, <1>2, ViewOfReplacement
<1>4. Phase[q.id] = "approved" /\ User[q.id] = None /\ Decider' = Decider
  <2>1. /\ Phase[q.id] = "approved" /\ User[q.id] = None
        /\ Decider[q.id] = rows[q.id].approver
    BY <1>1, ViewAt DEF Exists
  <2>2. Decider' = Decider
    BY <1>1, <1>3, <2>1 DEF Decider
  <2>. QED  BY <2>1, <2>2
<1>5. Lifecycle!Use(q.id, q.exec)
  BY <1>3, <1>4 DEF Lifecycle!Use
<1>. QED  BY <1>5 DEF q

LEMMA NextRefines == IInv /\ [Next]_vars => [Lifecycle!Next]_(Lifecycle!lifecycle)
<1>. SUFFICES ASSUME IInv, [Next]_vars PROVE [Lifecycle!Next]_(Lifecycle!lifecycle)
  OBVIOUS
<1>1. ASSUME NEW id \in Ids, NEW a \in Actors, NEW v \in Values, NEW w \in Windows,
             Create(id, a, v, w)
      PROVE  [Lifecycle!Next]_(Lifecycle!lifecycle)
  BY <1>1, CreateOpens DEF Lifecycle!Next
<1>2. ASSUME NEW c \in Callers, LandDecide(c)
      PROVE  [Lifecycle!Next]_(Lifecycle!lifecycle)
  <2>1. call[c].op = "decide"  BY <1>2 DEF LandDecide
  <2>2. CASE Lands(rows[call[c].id], call[c].at)
    <3>1. Lifecycle!Decide(call[c].id, call[c].verdict, call[c].approver)
      BY <1>2, <2>1, <2>2, LandDecideDecides
    <3>2. /\ call[c].id \in Ids /\ call[c].verdict \in {"approved", "rejected"}
          /\ call[c].approver \in Actors
      BY <2>1, <2>2, LandingDecision DEF Verdicts
    <3>. QED  BY <3>1, <3>2 DEF Lifecycle!Next
  <2>3. CASE ~Lands(rows[call[c].id], call[c].at)
    BY <1>2, <2>3, TableUnchanged DEF LandDecide
  <2>. QED  BY <2>2, <2>3
<1>3. ASSUME NEW c \in Callers, LandConsume(c)
      PROVE  [Lifecycle!Next]_(Lifecycle!lifecycle)
  <2>1. call[c].op = "consume"  BY <1>3 DEF LandConsume
  <2>2. CASE Consumable(rows[call[c].id])
    <3>1. Lifecycle!Use(call[c].id, call[c].exec)
      BY <1>3, <2>1, <2>2, LandConsumeUses
    <3>2. call[c].id \in Ids /\ call[c].exec \in Executions
      BY <2>1, <2>2, LandingConsumption
    <3>. QED  BY <3>1, <3>2 DEF Lifecycle!Next
  <2>3. CASE ~Consumable(rows[call[c].id])
    BY <1>3, <2>3, TableUnchanged DEF LandConsume
  <2>. QED  BY <2>2, <2>3
<1>4. ASSUME NEW c \in Callers, CallerStep(c), ~LandDecide(c), ~LandConsume(c)
      PROVE  UNCHANGED rows
  BY <1>4 DEF CallerStep, SendDecide, SendConsume, SendRead, Start, AnswerDecide, AnswerConsume,
              LandRead,
              AnswerRead, Drop
<1>5. CASE Tick \/ UNCHANGED vars
  BY <1>5, TableUnchanged DEF Tick, vars
<1>. QED  BY <1>1, <1>2, <1>3, <1>4, <1>5, TableUnchanged DEF Next

LEMMA InitRefines == Init => Lifecycle!Init
BY DEF Init, Lifecycle!Init, Phase, Decider, User, Exists

\* The table implements the promised life cycle of approvals, although a call
\* is several steps and its caller may die between any two of them.
THEOREM ImplementsLifecycle == Spec => KeepsLifecycle
BY InitRefines, NextRefines, Invariance, PTL DEF Spec, KeepsLifecycle, Lifecycle!Spec
=============================================================================
