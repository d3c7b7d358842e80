------------------------- MODULE InMemoryCoordinator -------------------------
(***************************************************************************)
(* createInMemoryApprovalCoordinator (core/src/approvals/in-memory.ts):    *)
(* one process, one Map.  No method awaits between its reads and its       *)
(* writes, so each call is one step; what interleaves is the calls of      *)
(* requesters, approvers, readers and resuming executions.  Time does not  *)
(* stand still within a call: decide and list read now() more than once,   *)
(* and may read a later time than before.                                  *)
(*                                                                         *)
(* granted and answered are what the callers have been answered; the code  *)
(* keeps neither.                                                          *)
(***************************************************************************)
EXTENDS ApprovalRecords, FiniteSets

CONSTANTS
  Windows,    \* the decision windows (expiresAt - requestedAt) of requests
  MaxTime     \* bound on time

ASSUME CoordinatorConstants ==
  /\ Windows \subseteq Nat
  /\ MaxTime \in Nat

VARIABLES
  records,    \* records[id]: the Map's entry, or NoRecord
  time,       \* now()
  granted,    \* granted[id]: the executions whose markConsumed resolved
  answered    \* answered[id]: the statuses get and list have answered for id

coordinatorVars == <<records, time, granted, answered>>

CoordinatorTypeOK ==
  /\ records \in [Ids -> Records \cup {NoRecord}]
  /\ time \in Nat
  /\ granted \in [Ids -> SUBSET Executions]
  /\ answered \in [Ids -> SUBSET Statuses]

Exists(id) == records[id] # NoRecord

\* The record once an operation that reads the time t has settled its expiry.
SettledAt(id, t) == Aged(records[id], t)

CoordinatorInit ==
  /\ records = [id \in Ids |-> NoRecord]
  /\ time = 0
  /\ granted = [id \in Ids |-> {}]
  /\ answered = [id \in Ids |-> {}]

-----------------------------------------------------------------------------
Create(id, requester, value, window) ==
  /\ ~Exists(id)
  /\ records' = [records EXCEPT ![id] =
       Pending([requester |-> requester, input |-> value, hash |-> value,
                expiresAt |-> time + window])]
  /\ UNCHANGED <<time, granted, answered>>

Get(id) ==
  /\ Exists(id)
  /\ records' = [records EXCEPT ![id] = SettledAt(id, time)]
  /\ answered' = [answered EXCEPT ![id] = @ \cup {SettledAt(id, time).status}]
  /\ UNCHANGED <<time, granted>>

\* The window is compared with one reading of the time, and decidedAt is
\* another one, which may be later and lie past the window.
Decide(id, verdict, approver, later) ==
  /\ Exists(id)
  /\ Decidable(SettledAt(id, time))
  /\ time' = later
  /\ records' = [records EXCEPT ![id] =
       Decided(SettledAt(id, time), verdict, approver, later)]
  /\ UNCHANGED <<granted, answered>>

\* decide throws, but only after it has written the expiry it noticed.
DecideRefused(id) ==
  /\ Exists(id)
  /\ ~Decidable(SettledAt(id, time))
  /\ records' = [records EXCEPT ![id] = SettledAt(id, time)]
  /\ UNCHANGED <<time, granted, answered>>

\* markConsumed neither settles nor checks the expiry.
MarkConsumed(id, exec) ==
  /\ Exists(id)
  /\ Consumable(records[id])
  /\ records' = [records EXCEPT ![id] = Consumed(records[id], exec)]
  /\ granted' = [granted EXCEPT ![id] = @ \cup {exec}]
  /\ UNCHANGED <<time, answered>>

\* list settles every record, reading the time for each, then filters by the
\* settled status.
List(status, read, later) ==
  /\ time' = later
  /\ records' = [id \in Ids |-> IF Exists(id) THEN SettledAt(id, read[id]) ELSE NoRecord]
  /\ answered' = [id \in Ids |->
       IF Exists(id) /\ SettledAt(id, read[id]).status = status
       THEN answered[id] \cup {status} ELSE answered[id]]
  /\ UNCHANGED granted

TimePasses ==
  /\ time < MaxTime
  /\ time' = time + 1
  /\ UNCHANGED <<records, granted, answered>>

CoordinatorNext ==
  \/ \E id \in Ids, a \in Actors, v \in Values, w \in Windows : Create(id, a, v, w)
  \/ \E id \in Ids : Get(id)
  \/ \E id \in Ids, verdict \in Verdicts, a \in Actors, later \in time..MaxTime :
       Decide(id, verdict, a, later)
  \/ \E id \in Ids : DecideRefused(id)
  \/ \E id \in Ids, e \in Executions : MarkConsumed(id, e)
  \/ \E s \in Statuses, later \in time..MaxTime : \E read \in [Ids -> time..later] :
       List(s, read, later)
  \/ TimePasses

CoordinatorSpec == CoordinatorInit /\ [][CoordinatorNext]_coordinatorVars

-----------------------------------------------------------------------------
\* The record as a point of the abstract life cycle.
Phase == [id \in Ids |-> IF Exists(id) THEN records[id].status ELSE "absent"]
Decider == [id \in Ids |-> IF Exists(id) THEN records[id].approver ELSE None]
User == [id \in Ids |-> IF Exists(id) THEN records[id].consumer ELSE None]

Lifecycle == INSTANCE ApprovalLifecycle
               WITH phase <- Phase, decider <- Decider, user <- User

\* The coordinator keeps the life-cycle promise: every call, also one that
\* throws after settling an expiry, is a step of ApprovalLifecycle or none.
KeepsLifecycle == Lifecycle!Spec

\* At most one execution is ever told it may spend an approval, and it is the
\* one the record names (in-memory.ts, "atomic per coordinator").
SingleGrant ==
  \A id \in Ids :
    /\ Cardinality(granted[id]) <= 1
    /\ \A e \in granted[id] : records[id].status = "consumed" /\ records[id].consumer = e

\* A final answer stays true: who has read "rejected", "expired" or "consumed"
\* (an approver's dashboard, a resuming caller) is never overtaken by a later
\* decision.
FinalAnswersStand ==
  \A id \in Ids : \A s \in answered[id] \cap {"rejected", "expired", "consumed"} :
    records[id].status = s

Lapsed(id) ==
  Exists(id) /\ records[id].approver = None /\ time > records[id].expiresAt

\* Once the window has closed without a verdict there never is one, although
\* the expiry is only written when somebody looks, and whichever of readers,
\* approvers and listings looks first, if any does.
LapseIsFinal == [][\A id \in Ids : Lapsed(id) => Lapsed(id)']_coordinatorVars
=============================================================================
