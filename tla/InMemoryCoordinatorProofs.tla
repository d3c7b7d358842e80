---------------------- MODULE InMemoryCoordinatorProofs ----------------------
(***************************************************************************)
(* Theorems about InMemoryCoordinator, for any number of approvals, actors *)
(* and executions, and any windows: its invariants, and that it implements *)
(* ApprovalLifecycle.                                                      *)
(***************************************************************************)
EXTENDS InMemoryCoordinator, FiniteSetTheorems, TLAPS

Final == {"rejected", "expired", "consumed"}

\* What holds of one record, the executions granted it and the answers given.
Sound(id) ==
  /\ records[id] # NoRecord => Coherent(records[id])
  /\ \A e \in granted[id] :
       records[id] # NoRecord /\ records[id].status = "consumed" /\ records[id].consumer = e
  /\ \A s \in answered[id] \cap Final : records[id] # NoRecord /\ records[id].status = s

IInv == CoordinatorTypeOK /\ \A id \in Ids : Sound(id)

\* A settled expiry, a decision and a consumption leave a coherent record.
LEMMA AgedIsRecord ==
  ASSUME NEW r \in Records, NEW now \in Nat, Coherent(r)
  PROVE  Aged(r, now) \in Records /\ Coherent(Aged(r, now))
BY RecordConstants DEF Aged, Overdue, Records, Statuses, Coherent

LEMMA DecidedIsRecord ==
  ASSUME NEW r \in Records, NEW verdict \in Verdicts, NEW approver \in Actors, NEW now \in Nat,
         Coherent(r), r.status = "pending"
  PROVE  LET s == Decided(r, verdict, approver, now) IN
           s \in Records /\ Coherent(s)
BY RecordConstants DEF Decided, Verdicts, Records, Statuses, Coherent

LEMMA ConsumedIsRecord ==
  ASSUME NEW r \in Records, NEW exec \in Executions, Coherent(r), Consumable(r)
  PROVE  LET s == Consumed(r, exec) IN
           s \in Records /\ Coherent(s)
BY RecordConstants DEF Consumed, Consumable, Records, Statuses, Coherent

\* What an operation leaves at a record it replaces.
Replaces(id, r) == records' = [records EXCEPT ![id] = r]

\* One record is replaced by a later version of itself.
LEMMA ReplacementPreserves ==
  ASSUME IInv, NEW id \in Ids, NEW r \in Records, records[id] # NoRecord,
         Coherent(r),
         records[id].status \in Final => r.status = records[id].status,
         records[id].status = "consumed" => r.consumer = records[id].consumer,
         Replaces(id, r), time' \in Nat,
         granted' \in [Ids -> SUBSET Executions], answered' \in [Ids -> SUBSET Statuses],
         \A i \in Ids \ {id} : granted'[i] = granted[i] /\ answered'[i] = answered[i],
         \A e \in granted'[id] \ granted[id] : r.status = "consumed" /\ r.consumer = e,
         \A s \in answered'[id] \ answered[id] : r.status = s
  PROVE  IInv'
<1>1. CoordinatorTypeOK /\ \A i \in Ids : Sound(i)  BY DEF IInv
<1>2. \A i \in Ids : records'[i] = IF i = id THEN r ELSE records[i]
  BY <1>1 DEF Replaces, CoordinatorTypeOK
<1>3. CoordinatorTypeOK'
  BY <1>1 DEF Replaces, CoordinatorTypeOK
<1>4. r # NoRecord  BY NoRecordIsNoRecord
<1>5. Sound(id)'
  <2>1. records'[id] = r  BY <1>2
  <2>2. \A e \in granted'[id] : r.status = "consumed" /\ r.consumer = e
    BY <1>1 DEF Sound, Final
  <2>3. \A s \in answered'[id] \cap Final : r.status = s
    BY <1>1 DEF Sound
  <2>. QED  BY <1>4, <2>1, <2>2, <2>3 DEF Sound
<1>6. ASSUME NEW i \in Ids \ {id} PROVE Sound(i)'
  BY <1>1, <1>2 DEF Sound
<1>. QED  BY <1>3, <1>5, <1>6 DEF IInv

\* What settling a stored record gives, whatever the time.
LEMMA SettledFacts ==
  ASSUME IInv, NEW id \in Ids, Exists(id), NEW t \in Nat
  PROVE  /\ CoordinatorTypeOK /\ Sound(id) /\ time \in Nat
         /\ records[id] \in Records /\ SettledAt(id, t) \in Records
         /\ Coherent(records[id]) /\ Coherent(SettledAt(id, t))
         /\ SettledAt(id, t).status = "pending" =>
              SettledAt(id, t) = records[id] /\ t <= records[id].expiresAt
         /\ SettledAt(id, t) # records[id] =>
              /\ records[id].status = "pending" /\ SettledAt(id, t).status = "expired"
              /\ SettledAt(id, t).approver = None
         /\ SettledAt(id, t).approver = records[id].approver
         /\ SettledAt(id, t).consumer = records[id].consumer
         /\ SettledAt(id, t).expiresAt = records[id].expiresAt
<1>1. /\ CoordinatorTypeOK /\ Sound(id) /\ time \in Nat
      /\ records[id] \in Records /\ Coherent(records[id])
  BY DEF IInv, Exists, Sound, CoordinatorTypeOK
<1>2. /\ SettledAt(id, t) \in Records /\ Coherent(SettledAt(id, t))
  BY <1>1, AgedIsRecord DEF SettledAt
<1>. QED  BY <1>1, <1>2 DEF SettledAt, Aged, Overdue, Records, Coherent

LEMMA TimeIsNatural == IInv => time \in Nat
BY DEF IInv, CoordinatorTypeOK

LEMMA CreatePreserves ==
  ASSUME IInv, NEW id \in Ids, NEW a \in Actors, NEW v \in Values, NEW w \in Windows,
         Create(id, a, v, w)
  PROVE  IInv'
<1>. DEFINE r == Pending([requester |-> a, input |-> v, hash |-> v, expiresAt |-> time + w])
<1>1. CoordinatorTypeOK /\ (\A i \in Ids : Sound(i)) /\ records[id] = NoRecord /\ time \in Nat
  BY DEF IInv, Create, Exists, CoordinatorTypeOK
<1>2. r \in Records /\ Coherent(r) /\ r.approver = None
  BY <1>1, CoordinatorConstants DEF Pending, Records, Statuses, Coherent
<1>3. records' = [records EXCEPT ![id] = r]  BY DEF Create
<1>. HIDE DEF r
<1>4. CoordinatorTypeOK'  BY <1>1, <1>2, <1>3 DEF Create, CoordinatorTypeOK
<1>5. \A i \in Ids : records'[i] = IF i = id THEN r ELSE records[i]
  BY <1>1, <1>3 DEF CoordinatorTypeOK
<1>6. \A i \in Ids : Sound(i)'
  BY <1>1, <1>2, <1>5 DEF Create, Sound
<1>. QED  BY <1>4, <1>6 DEF IInv

LEMMA GetPreserves ==
  ASSUME IInv, NEW id \in Ids, Get(id)
  PROVE  IInv'
<1>. DEFINE r == SettledAt(id, time)
<1>1. Exists(id) /\ Replaces(id, r) /\ answered' = [answered EXCEPT ![id] = @ \cup {r.status}]
  BY DEF Get, Replaces
<1>2. CoordinatorTypeOK /\ Sound(id) /\ r \in Records /\ r.status \in Statuses
  BY <1>1, TimeIsNatural, SettledFacts DEF Records
<1>3. /\ answered' \in [Ids -> SUBSET Statuses] /\ answered'[id] = answered[id] \cup {r.status}
      /\ \A i \in Ids \ {id} : answered'[i] = answered[i]
  BY <1>1, <1>2 DEF CoordinatorTypeOK
<1>4. /\ Coherent(r)
      /\ records[id].status \in Final => r.status = records[id].status
      /\ r.consumer = records[id].consumer
  BY <1>1, <1>2, TimeIsNatural, SettledFacts DEF Sound, Exists, Final
<1>5. \A s \in answered'[id] \ answered[id] : r.status = s
  BY <1>3
<1>6. /\ records[id] # NoRecord /\ UNCHANGED granted /\ time' \in Nat
      /\ granted' \in [Ids -> SUBSET Executions]
  BY <1>1, <1>2, TimeIsNatural DEF Get, Exists, CoordinatorTypeOK
<1>. HIDE DEF r
<1>. QED  BY <1>1, <1>2, <1>3, <1>4, <1>5, <1>6, ReplacementPreserves

LEMMA DecidePreserves ==
  ASSUME IInv, NEW id \in Ids, NEW verdict \in Verdicts, NEW a \in Actors,
         NEW later \in time..MaxTime, Decide(id, verdict, a, later)
  PROVE  IInv'
<1>. DEFINE r == Decided(SettledAt(id, time), verdict, a, later)
<1>1. /\ Exists(id) /\ Replaces(id, r) /\ UNCHANGED <<granted, answered>> /\ time' = later
      /\ SettledAt(id, time).status = "pending"
  BY DEF Decide, Replaces, Decidable
<1>2. /\ CoordinatorTypeOK /\ Sound(id) /\ SettledAt(id, time) \in Records /\ Coherent(SettledAt(id, time))
      /\ SettledAt(id, time) = records[id] /\ later \in Nat
  BY <1>1, TimeIsNatural, SettledFacts, TimeIsNatural, CoordinatorConstants
<1>3. r \in Records /\ Coherent(r)
  BY <1>1, <1>2, DecidedIsRecord
<1>4. records[id].status = "pending" /\ time' \in Nat  BY <1>1, <1>2
<1>. HIDE DEF r
<1>5. /\ granted' \in [Ids -> SUBSET Executions] /\ answered' \in [Ids -> SUBSET Statuses]
      /\ records[id] # NoRecord
  BY <1>1, <1>2 DEF CoordinatorTypeOK, Exists
<1>. QED  BY <1>1, <1>3, <1>4, <1>5, ReplacementPreserves DEF Final

LEMMA DecideRefusedPreserves ==
  ASSUME IInv, NEW id \in Ids, DecideRefused(id)
  PROVE  IInv'
<1>. DEFINE r == SettledAt(id, time)
<1>1. Exists(id) /\ Replaces(id, r) /\ UNCHANGED <<time, granted, answered>>
  BY DEF DecideRefused, Replaces
<1>2. CoordinatorTypeOK /\ Sound(id) /\ r \in Records
  BY <1>1, TimeIsNatural, SettledFacts
<1>3. /\ Coherent(r)
      /\ records[id].status \in Final => r.status = records[id].status
      /\ r.consumer = records[id].consumer
  BY <1>1, <1>2, TimeIsNatural, SettledFacts DEF Sound, Exists, Final
<1>. HIDE DEF r
<1>4. /\ granted' \in [Ids -> SUBSET Executions] /\ answered' \in [Ids -> SUBSET Statuses]
      /\ records[id] # NoRecord /\ time' \in Nat
  BY <1>1, <1>2 DEF CoordinatorTypeOK, Exists
<1>. QED  BY <1>1, <1>2, <1>3, <1>4, ReplacementPreserves

LEMMA MarkConsumedPreserves ==
  ASSUME IInv, NEW id \in Ids, NEW e \in Executions, MarkConsumed(id, e)
  PROVE  IInv'
<1>. DEFINE r == Consumed(records[id], e)
<1>1. Exists(id) /\ Replaces(id, r) /\ Consumable(records[id]) /\ UNCHANGED <<time, answered>>
  BY DEF MarkConsumed, Replaces
<1>2. CoordinatorTypeOK /\ Sound(id) /\ records[id] \in Records /\ Coherent(records[id])
  BY <1>1, TimeIsNatural, SettledFacts
<1>3. r \in Records /\ Coherent(r)
  BY <1>1, <1>2, ConsumedIsRecord
<1>4. /\ r.status = "consumed" /\ r.consumer = e
      /\ records[id].status = "approved"
  BY <1>1, <1>2 DEF Consumed, Consumable, Records, Sound, Exists
<1>5. /\ granted' \in [Ids -> SUBSET Executions] /\ answered' \in [Ids -> SUBSET Statuses]
      /\ \A i \in Ids \ {id} : granted'[i] = granted[i]
      /\ granted'[id] = granted[id] \cup {e}
      /\ records[id] # NoRecord /\ time' \in Nat
  BY <1>1, <1>2 DEF MarkConsumed, CoordinatorTypeOK, Exists
<1>. HIDE DEF r
<1>. QED  BY <1>1, <1>3, <1>4, <1>5, ReplacementPreserves DEF Final

LEMMA ListPreserves ==
  ASSUME IInv, NEW status \in Statuses, NEW later \in time..MaxTime,
         NEW read \in [Ids -> time..later], List(status, read, later)
  PROVE  IInv'
<1>1. CoordinatorTypeOK /\ \A id \in Ids : Sound(id)  BY DEF IInv
<1>. /\ time \in Nat /\ later \in Nat
     /\ \A id \in Ids : read[id] \in Nat
  BY TimeIsNatural, CoordinatorConstants
<1>2. \A id \in Ids : Exists(id) => SettledAt(id, read[id]) \in Records
  BY SettledFacts
<1>3. CoordinatorTypeOK'
  BY <1>1, <1>2 DEF List, CoordinatorTypeOK
<1>4. ASSUME NEW id \in Ids PROVE Sound(id)'
  <2>1. /\ records'[id] = IF Exists(id) THEN SettledAt(id, read[id]) ELSE NoRecord
        /\ answered'[id] = IF Exists(id) /\ SettledAt(id, read[id]).status = status
                       THEN answered[id] \cup {status} ELSE answered[id]
        /\ granted'[id] = granted[id]
    BY DEF List
  <2>2. CASE ~Exists(id)
    BY <1>1, <2>1, <2>2 DEF Sound, Exists
  <2>3. CASE Exists(id)
    <3>1. /\ Coherent(SettledAt(id, read[id]))
          /\ records[id].status \in Final => SettledAt(id, read[id]).status = records[id].status
          /\ SettledAt(id, read[id]).consumer = records[id].consumer
          /\ SettledAt(id, read[id]) # NoRecord
      BY <1>1, <2>3, SettledFacts, NoRecordIsNoRecord DEF Sound, Exists, Final
    <3>. QED  BY <1>1, <2>1, <2>3, <3>1 DEF Sound, Final
  <2>. QED  BY <2>2, <2>3
<1>. QED  BY <1>3, <1>4 DEF IInv

-----------------------------------------------------------------------------
LEMMA InitEstablishes == CoordinatorInit => IInv
BY DEF CoordinatorInit, IInv, CoordinatorTypeOK, Sound

LEMMA NextPreserves == IInv /\ [CoordinatorNext]_coordinatorVars => IInv'
<1>. SUFFICES ASSUME IInv, [CoordinatorNext]_coordinatorVars PROVE IInv'
  OBVIOUS
<1>1. CASE TimePasses
  BY <1>1 DEF TimePasses, IInv, CoordinatorTypeOK, Sound
<1>2. CASE UNCHANGED coordinatorVars
  BY <1>2 DEF coordinatorVars, IInv, CoordinatorTypeOK, Sound
<1>. QED  BY <1>1, <1>2, CreatePreserves, GetPreserves, DecidePreserves, DecideRefusedPreserves,
             MarkConsumedPreserves, ListPreserves DEF CoordinatorNext

\* The invariant holds in every reachable state of every instance.
THEOREM Invariance == CoordinatorSpec => []IInv
BY InitEstablishes, NextPreserves, PTL DEF CoordinatorSpec

\* Type correctness.
THEOREM TypeCorrectness == CoordinatorSpec => []CoordinatorTypeOK
<1>1. IInv => CoordinatorTypeOK  BY DEF IInv
<1>. QED  BY <1>1, Invariance, PTL

\* markConsumed resolves for one execution at most, whichever callers race.
THEOREM GrantedOnce == CoordinatorSpec => []SingleGrant
<1>1. IInv => SingleGrant
  <2>. SUFFICES ASSUME IInv, NEW id \in Ids
                PROVE  /\ Cardinality(granted[id]) <= 1
                       /\ \A e \in granted[id] :
                            records[id].status = "consumed" /\ records[id].consumer = e
    BY DEF SingleGrant
  <2>1. \A e \in granted[id] : records[id].status = "consumed" /\ records[id].consumer = e
    BY DEF IInv, Sound
  <2>2. granted[id] = {} \/ granted[id] = {records[id].consumer}
    BY <2>1
  <2>3. Cardinality(granted[id]) \in {0, 1}
    <3>1. Cardinality({}) = 0 /\ Cardinality({records[id].consumer}) = 1
      BY FS_EmptySet, FS_Singleton
    <3>. QED  BY <2>2, <3>1
  <2>. QED  BY <2>1, <2>3
<1>. QED  BY <1>1, Invariance, PTL

\* Nobody who has read a final answer is overtaken by a later decision.
THEOREM AnswersStand == CoordinatorSpec => []FinalAnswersStand
<1>1. IInv => FinalAnswersStand
  BY DEF IInv, Sound, Final, FinalAnswersStand
<1>. QED  BY <1>1, Invariance, PTL

\* An approval whose window has closed without a verdict stays without one.
THEOREM LapsesAreFinal == CoordinatorSpec => LapseIsFinal
<1>1. IInv /\ [CoordinatorNext]_coordinatorVars =>
        [\A id \in Ids : Lapsed(id) => Lapsed(id)']_coordinatorVars
  <2>. SUFFICES ASSUME IInv, CoordinatorNext, NEW id \in Ids, Lapsed(id)
                PROVE  Lapsed(id)'
    OBVIOUS
  <2>1. /\ Exists(id) /\ records[id].approver = None /\ time > records[id].expiresAt
        /\ records[id] \in Records /\ time \in Nat /\ records[id].expiresAt \in Nat
        /\ CoordinatorTypeOK /\ Coherent(records[id])
    BY SettledFacts, TimeIsNatural DEF Lapsed, Records
  <2>. DEFINE Same(r) == /\ r # NoRecord /\ r.approver = None
                         /\ r.expiresAt = records[id].expiresAt
  <2>2. SUFFICES Same(records'[id]) /\ time' \in Nat /\ time' >= time
    BY <2>1 DEF Lapsed, Exists
  <2>3. \A t \in Nat : Same(SettledAt(id, t))
    BY <2>1, SettledFacts, NoRecordIsNoRecord
  <2>4. Same(records[id])  BY <2>1 DEF Exists
  <2>. HIDE DEF Same
  <2>5. ASSUME NEW i \in Ids, NEW r, Replaces(i, r), i = id => Same(r)
        PROVE  Same(records'[id])
    BY <2>1, <2>4, <2>5 DEF Replaces, CoordinatorTypeOK
  <2>6. ASSUME NEW i \in Ids, NEW a \in Actors, NEW v \in Values, NEW w \in Windows,
               Create(i, a, v, w)
        PROVE  Same(records'[id]) /\ time' = time
    BY <2>1, <2>5, <2>6 DEF Create, Replaces
  <2>7. ASSUME NEW i \in Ids, Get(i) \/ DecideRefused(i)
        PROVE  Same(records'[id]) /\ time' = time
    BY <2>1, <2>3, <2>5, <2>7 DEF Get, DecideRefused, Replaces
  <2>8. ASSUME NEW i \in Ids, NEW verdict \in Verdicts, NEW a \in Actors,
               NEW later \in time..MaxTime, Decide(i, verdict, a, later)
        PROVE  Same(records'[id]) /\ time' \in Nat /\ time' >= time
    <3>1. i # id
      <4>1. SettledAt(id, time).status # "pending"
        BY <2>1, SettledFacts
      <4>. QED  BY <2>8, <4>1 DEF Decide, Decidable
    <3>2. Same(records'[id])
      BY <2>5, <2>8, <3>1 DEF Decide, Replaces
    <3>3. time' \in Nat /\ time' >= time
      BY <2>1, <2>8, CoordinatorConstants DEF Decide
    <3>. QED  BY <3>2, <3>3
  <2>9. ASSUME NEW i \in Ids, NEW e \in Executions, MarkConsumed(i, e)
        PROVE  Same(records'[id]) /\ time' = time
    <3>1. i # id
      BY <2>1, <2>9 DEF MarkConsumed, Consumable, Coherent
    <3>. QED  BY <2>5, <2>9, <3>1 DEF MarkConsumed, Replaces
  <2>10. ASSUME NEW s \in Statuses, NEW later \in time..MaxTime,
                NEW read \in [Ids -> time..later], List(s, read, later)
         PROVE  Same(records'[id]) /\ time' \in Nat /\ time' >= time
    BY <2>1, <2>3, <2>10, CoordinatorConstants DEF List
  <2>11. CASE TimePasses
    BY <2>1, <2>4, <2>11 DEF TimePasses
  <2>. QED  BY <2>1, <2>6, <2>7, <2>8, <2>9, <2>10, <2>11 DEF CoordinatorNext
<1>. QED  BY <1>1, Invariance, PTL DEF CoordinatorSpec, LapseIsFinal

-----------------------------------------------------------------------------
\* The life cycle seen at one replaced record.
LEMMA ViewOfReplacement ==
  ASSUME CoordinatorTypeOK, NEW id \in Ids, NEW r \in Records, Replaces(id, r)
  PROVE  /\ Phase' = [Phase EXCEPT ![id] = r.status]
         /\ Decider' = [Decider EXCEPT ![id] = r.approver]
         /\ User' = [User EXCEPT ![id] = r.consumer]
<1>1. \A i \in Ids : records'[i] = IF i = id THEN r ELSE records[i]
  BY DEF Replaces, CoordinatorTypeOK
<1>2. r # NoRecord  BY NoRecordIsNoRecord
<1>3. Phase' = [Phase EXCEPT ![id] = r.status]
  BY <1>1, <1>2 DEF Phase, Exists
<1>4. Decider' = [Decider EXCEPT ![id] = r.approver]
  BY <1>1, <1>2 DEF Decider, Exists
<1>5. User' = [User EXCEPT ![id] = r.consumer]
  BY <1>1, <1>2 DEF User, Exists
<1>. QED  BY <1>3, <1>4, <1>5

LEMMA ViewAt ==
  ASSUME NEW id \in Ids
  PROVE  /\ Exists(id) => /\ Phase[id] = records[id].status
                          /\ Decider[id] = records[id].approver
                          /\ User[id] = records[id].consumer
         /\ ~Exists(id) => Phase[id] = "absent" /\ Decider[id] = None /\ User[id] = None
BY DEF Phase, Decider, User

\* A settled record is either as it was or has lapsed.
LEMMA SettlingLapses ==
  ASSUME IInv, NEW id \in Ids, Exists(id), Replaces(id, SettledAt(id, time))
  PROVE  [Lifecycle!Next]_(Lifecycle!lifecycle)
<1>. time \in Nat  BY TimeIsNatural
<1>1. CoordinatorTypeOK /\ SettledAt(id, time) \in Records  BY SettledFacts
<1>2. /\ Phase' = [Phase EXCEPT ![id] = SettledAt(id, time).status]
      /\ Decider' = [Decider EXCEPT ![id] = records[id].approver]
      /\ User' = [User EXCEPT ![id] = records[id].consumer]
  BY <1>1, ViewOfReplacement, SettledFacts
<1>3. Decider' = Decider /\ User' = User
  BY <1>2, ViewAt DEF Decider, User
<1>4. CASE SettledAt(id, time) = records[id]
  <2>1. Phase' = Phase  BY <1>2, <1>4, ViewAt DEF Phase
  <2>. QED  BY <1>3, <2>1 DEF Lifecycle!lifecycle
<1>5. CASE SettledAt(id, time) # records[id]
  <2>1. Phase[id] = "pending" /\ SettledAt(id, time).status = "expired"
    BY <1>5, SettledFacts, ViewAt
  <2>2. Phase' = [i \in Ids |-> IF i \in {id} THEN "expired" ELSE Phase[i]]
    BY <1>2, <2>1 DEF Phase
  <2>3. Lifecycle!Lapse({id})
    BY <1>3, <2>1, <2>2 DEF Lifecycle!Lapse
  <2>. QED  BY <2>3 DEF Lifecycle!Next
<1>. QED  BY <1>4, <1>5

LEMMA NextRefines == IInv /\ [CoordinatorNext]_coordinatorVars => [Lifecycle!Next]_(Lifecycle!lifecycle)
<1>. SUFFICES ASSUME IInv, [CoordinatorNext]_coordinatorVars PROVE [Lifecycle!Next]_(Lifecycle!lifecycle)
  OBVIOUS
<1>0. CoordinatorTypeOK  BY DEF IInv
<1>1. ASSUME NEW id \in Ids, NEW a \in Actors, NEW v \in Values, NEW w \in Windows,
             Create(id, a, v, w)
      PROVE  Lifecycle!Open(id)
  <2>. DEFINE r == Pending([requester |-> a, input |-> v, hash |-> v, expiresAt |-> time + w])
  <2>1. r \in Records /\ r.status = "pending" /\ r.approver = None /\ r.consumer = None
    BY <1>0, CoordinatorConstants DEF Pending, Records, Statuses, CoordinatorTypeOK
  <2>2. Replaces(id, r) /\ ~Exists(id)  BY <1>1 DEF Create, Replaces
  <2>. HIDE DEF r
  <2>3. /\ Phase' = [Phase EXCEPT ![id] = "pending"]
        /\ Decider' = [Decider EXCEPT ![id] = None] /\ User' = [User EXCEPT ![id] = None]
    BY <1>0, <2>1, <2>2, ViewOfReplacement
  <2>4. Phase[id] = "absent" /\ Decider' = Decider /\ User' = User
    BY <2>2, <2>3, ViewAt DEF Decider, User
  <2>. QED  BY <2>3, <2>4 DEF Lifecycle!Open
<1>2. ASSUME NEW id \in Ids, Get(id) \/ DecideRefused(id)
      PROVE  [Lifecycle!Next]_(Lifecycle!lifecycle)
  BY <1>2, SettlingLapses DEF Get, DecideRefused, Replaces
<1>3. ASSUME NEW id \in Ids, NEW verdict \in Verdicts, NEW a \in Actors,
             NEW later \in time..MaxTime, Decide(id, verdict, a, later)
      PROVE  Lifecycle!Decide(id, verdict, a)
  <2>. DEFINE r == Decided(SettledAt(id, time), verdict, a, later)
  <2>1. Exists(id) /\ SettledAt(id, time).status = "pending" /\ Replaces(id, r)
    BY <1>3 DEF Decide, Decidable, Replaces
  <2>2. SettledAt(id, time) = records[id] /\ Coherent(records[id]) /\ records[id] \in Records
        /\ later \in Nat
    BY <2>1, SettledFacts, TimeIsNatural, CoordinatorConstants
  <2>3. /\ r \in Records /\ r.status = verdict /\ r.approver = a
        /\ r.consumer = records[id].consumer
    BY <2>1, <2>2, DecidedIsRecord DEF Decided, Records
  <2>. HIDE DEF r
  <2>4. /\ Phase' = [Phase EXCEPT ![id] = verdict] /\ Decider' = [Decider EXCEPT ![id] = a]
        /\ User' = [User EXCEPT ![id] = records[id].consumer]
    BY <1>0, <2>1, <2>3, ViewOfReplacement
  <2>5. Phase[id] = "pending" /\ User' = User
    BY <2>1, <2>2, <2>4, ViewAt DEF User
  <2>. QED  BY <2>4, <2>5 DEF Lifecycle!Decide
<1>4. ASSUME NEW id \in Ids, NEW e \in Executions, MarkConsumed(id, e)
      PROVE  Lifecycle!Use(id, e)
  <2>. DEFINE r == Consumed(records[id], e)
  <2>1. Exists(id) /\ Consumable(records[id]) /\ Replaces(id, r)
    BY <1>4 DEF MarkConsumed, Replaces
  <2>2. Coherent(records[id]) /\ records[id] \in Records
    BY <2>1, SettledFacts
  <2>3. /\ r \in Records /\ r.status = "consumed" /\ r.consumer = e
        /\ r.approver = records[id].approver
    BY <2>1, <2>2, ConsumedIsRecord DEF Consumed, Records
  <2>. HIDE DEF r
  <2>4. /\ Phase' = [Phase EXCEPT ![id] = "consumed"] /\ User' = [User EXCEPT ![id] = e]
        /\ Decider' = [Decider EXCEPT ![id] = records[id].approver]
    BY <1>0, <2>1, <2>3, ViewOfReplacement
  <2>5. Phase[id] = "approved" /\ User[id] = None /\ Decider' = Decider
    BY <2>1, <2>4, ViewAt DEF Consumable, Decider
  <2>. QED  BY <2>4, <2>5 DEF Lifecycle!Use
<1>5. ASSUME NEW status \in Statuses, NEW later \in time..MaxTime,
             NEW read \in [Ids -> time..later], List(status, read, later)
      PROVE  [Lifecycle!Next]_(Lifecycle!lifecycle)
  <2>. DEFINE S == {id \in Ids : Exists(id) /\ SettledAt(id, read[id]) # records[id]}
  <2>. \A id \in Ids : read[id] \in Nat
    BY TimeIsNatural, CoordinatorConstants
  <2>1. \A id \in Ids : records'[id] = IF Exists(id) THEN SettledAt(id, read[id]) ELSE NoRecord
    BY <1>5 DEF List
  <2>2. \A id \in Ids : Exists(id) => SettledAt(id, read[id]) \in Records /\ SettledAt(id, read[id]) # NoRecord
    BY SettledFacts, NoRecordIsNoRecord
  <2>3. \A id \in S : Phase[id] = "pending" /\ SettledAt(id, read[id]).status = "expired"
    BY SettledFacts, ViewAt
  <2>4. Phase' = [id \in Ids |-> IF id \in S THEN "expired" ELSE Phase[id]]
    BY <2>1, <2>2, <2>3 DEF Phase, Exists
  <2>5. Decider' = Decider /\ User' = User
    BY <2>1, <2>2, SettledFacts DEF Decider, User, Exists
  <2>6. Lifecycle!Lapse(S)
    BY <2>3, <2>4, <2>5 DEF Lifecycle!Lapse
  <2>7. S \in SUBSET Ids  OBVIOUS
  <2>. QED  BY <2>6, <2>7 DEF Lifecycle!Next
<1>6. CASE TimePasses \/ UNCHANGED coordinatorVars
  BY <1>6 DEF TimePasses, coordinatorVars, Lifecycle!lifecycle, Phase, Decider, User, Exists
<1>. QED  BY <1>1, <1>2, <1>3, <1>4, <1>5, <1>6 DEF CoordinatorNext, Lifecycle!Next, Verdicts

LEMMA InitRefines == CoordinatorInit => Lifecycle!Init
BY DEF CoordinatorInit, Lifecycle!Init, Phase, Decider, User, Exists

\* The coordinator implements the promised life cycle of approvals.
THEOREM ImplementsLifecycle == CoordinatorSpec => KeepsLifecycle
BY InitRefines, NextRefines, Invariance, PTL DEF CoordinatorSpec, KeepsLifecycle, Lifecycle!Spec
=============================================================================
