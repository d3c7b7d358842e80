---------------------------- MODULE PgCoordinator ----------------------------
(***************************************************************************)
(* createPgApprovalCoordinator (postgres/src/approvals.ts): the same       *)
(* interface over one table that several processes share.  A call is not   *)
(* one step any more: now() is read in the caller, the statement lands     *)
(* later, and mapRow computes the lazy expiry later still, from the row    *)
(* the statement returned.  "expired" is never written.                    *)
(*                                                                         *)
(* A caller has at most one call in progress; it may die or lose its       *)
(* connection at any point, before or after the statement landed.          *)
(*                                                                         *)
(* The callers reach it through runtime.approvals (wrapCoordinator in      *)
(* core/src/runtime/create.ts), which emits the audit event of a decision  *)
(* when, and only if, the reply to it arrives.                             *)
(*                                                                         *)
(* granted and told are what the callers have been answered.               *)
(***************************************************************************)
EXTENDS ApprovalRecords, FiniteSets

CONSTANTS Callers, Windows, MaxClock

ASSUME PgConstants == Windows \subseteq Nat /\ MaxClock \in Nat

VARIABLES
  rows,       \* rows[id]: the stored row, or NoRecord
  clock,
  call,       \* call[c]: the call caller c is in, or NoCall
  granted,    \* granted[id]: the executions whose markConsumed resolved
  told,       \* told[id]: the statuses get and list have answered
  trail       \* trail[id]: the audit events capability.approved and .rejected

vars == <<rows, clock, call, granted, told, trail>>

NoCall == [op |-> "none"]

Calls ==
  {NoCall}
    \cup [op : {"decide"}, id : Ids, verdict : Verdicts, approver : Actors, at : Nat]
    \cup [op : {"decided"}, id : Ids, row : Records, approver : Actors]
    \cup [op : {"consume"}, id : Ids, exec : Executions]
    \cup [op : {"granted"}, id : Ids, exec : Executions]
    \cup [op : {"read"}, id : Ids]
    \cup [op : {"map"}, id : Ids, row : Records]

Events == [type : Verdicts, approver : Actors]

TypeOK ==
  /\ rows \in [Ids -> Records \cup {NoRecord}]
  /\ \A id \in Ids : rows[id] # NoRecord => rows[id].status # "expired"
  /\ clock \in Nat
  /\ call \in [Callers -> Calls]
  /\ granted \in [Ids -> SUBSET Executions]
  /\ told \in [Ids -> SUBSET Statuses]
  /\ trail \in [Ids -> SUBSET Events]

Exists(id) == rows[id] # NoRecord

Init ==
  /\ rows = [id \in Ids |-> NoRecord]
  /\ clock = 0
  /\ call = [c \in Callers |-> NoCall]
  /\ granted = [id \in Ids |-> {}]
  /\ told = [id \in Ids |-> {}]
  /\ trail = [id \in Ids |-> {}]

-----------------------------------------------------------------------------
\* mapRow: lazy expiry against the coordinator's clock, never written back.
MappedStatus(r) == Aged(r, clock).status

\* An id is known to a caller only from a record that has been created, and
\* no row is ever deleted: the "was not found" branches are unreachable.
Start(c, request) ==
  /\ call[c] = NoCall
  /\ Exists(request.id)
  /\ call' = [call EXCEPT ![c] = request]
  /\ UNCHANGED <<rows, clock, granted, told, trail>>

\* insert ... on conflict (id) do nothing: one statement, no clock predicate.
Create(id, requester, value, window) ==
  /\ ~Exists(id)
  /\ rows' = [rows EXCEPT ![id] =
       Pending([requester |-> requester, input |-> value, hash |-> value,
                expiresAt |-> clock + window])]
  /\ UNCHANGED <<clock, call, granted, told, trail>>

\* decide evaluates now() when it builds the statement's parameters.
SendDecide(c, id, verdict, approver) ==
  Start(c, [op |-> "decide", id |-> id, verdict |-> verdict,
            approver |-> approver, at |-> clock])

\* Mutated: the condition on the window is inclusive; that on the status is gone.
LandsAtTheEnd(r, at) == Decidable(r) /\ r.expiresAt >= at
LandsOverVerdicts(r, at) == r.expiresAt > at

\* where id = $1 and status = 'pending' and expires_at > $4
Lands(r, at) == Decidable(r) /\ r.expiresAt > at

\* When no row is returned a second query reads the row for the error, which
\* changes nothing.
LandDecide(c) ==
  /\ call[c].op = "decide"
  /\ LET q == call[c] IN
       \/ /\ Lands(rows[q.id], q.at)
          /\ rows' = [rows EXCEPT ![q.id] = Decided(@, q.verdict, q.approver, q.at)]
          /\ call' = [call EXCEPT ![c] =
               [op |-> "decided", id |-> q.id, row |-> rows'[q.id], approver |-> q.approver]]
       \/ /\ ~Lands(rows[q.id], q.at)
          /\ call' = [call EXCEPT ![c] = NoCall]
          /\ UNCHANGED rows
  /\ UNCHANGED <<clock, granted, told, trail>>

\* The reply reaches the wrapper: the type of the event is read off the
\* returned row, its approver off the decision.
AnswerDecide(c) ==
  LET q == call[c] IN
  /\ q.op = "decided"
  /\ trail' = [trail EXCEPT ![q.id] = @ \cup
       {[type |-> IF MappedStatus(q.row) = "approved" THEN "approved" ELSE "rejected",
         approver |-> q.approver]}]
  /\ call' = [call EXCEPT ![c] = NoCall]
  /\ UNCHANGED <<rows, clock, granted, told>>

SendConsume(c, id, exec) == Start(c, [op |-> "consume", id |-> id, exec |-> exec])

\* where id = $1 and status = 'approved' and consumed_by_execution_id is null
LandConsume(c) ==
  /\ call[c].op = "consume"
  /\ LET q == call[c] IN
       \/ /\ Consumable(rows[q.id])
          /\ rows' = [rows EXCEPT ![q.id] = Consumed(@, q.exec)]
          /\ call' = [call EXCEPT ![c] = [op |-> "granted", id |-> q.id, exec |-> q.exec]]
       \/ /\ ~Consumable(rows[q.id])
          /\ call' = [call EXCEPT ![c] = NoCall]
          /\ UNCHANGED rows
  /\ UNCHANGED <<clock, granted, told, trail>>

\* The reply reaches the resuming execution, which may now run.
AnswerConsume(c) ==
  /\ call[c].op = "granted"
  /\ granted' = [granted EXCEPT ![call[c].id] = @ \cup {call[c].exec}]
  /\ call' = [call EXCEPT ![c] = NoCall]
  /\ UNCHANGED <<rows, clock, told, trail>>

SendRead(c, id) == Start(c, [op |-> "read", id |-> id])

LandRead(c) ==
  /\ call[c].op = "read"
  /\ call' = [call EXCEPT ![c] =
       [op |-> "map", id |-> call[c].id, row |-> rows[call[c].id]]]
  /\ UNCHANGED <<rows, clock, granted, told, trail>>

AnswerRead(c) ==
  /\ call[c].op = "map"
  /\ told' = [told EXCEPT ![call[c].id] = @ \cup {MappedStatus(call[c].row)}]
  /\ call' = [call EXCEPT ![c] = NoCall]
  /\ UNCHANGED <<rows, clock, granted, trail>>

\* The caller dies or its connection does; the statement landed or it did not.
Drop(c) ==
  /\ call[c] # NoCall
  /\ call' = [call EXCEPT ![c] = NoCall]
  /\ UNCHANGED <<rows, clock, granted, told, trail>>

Tick ==
  /\ clock < MaxClock
  /\ clock' = clock + 1
  /\ UNCHANGED <<rows, call, granted, told, trail>>

CallerStep(c) ==
  \/ \E id \in Ids, v \in Verdicts, a \in Actors : SendDecide(c, id, v, a)
  \/ \E id \in Ids, e \in Executions : SendConsume(c, id, e)
  \/ \E id \in Ids : SendRead(c, id)
  \/ LandDecide(c) \/ AnswerDecide(c)
  \/ LandConsume(c) \/ AnswerConsume(c)
  \/ LandRead(c) \/ AnswerRead(c)
  \/ Drop(c)

Next ==
  \/ \E id \in Ids, a \in Actors, v \in Values, w \in Windows : Create(id, a, v, w)
  \/ \E c \in Callers : CallerStep(c)
  \/ Tick

Spec == Init /\ [][Next]_vars

-----------------------------------------------------------------------------
Phase == [id \in Ids |-> IF Exists(id) THEN rows[id].status ELSE "absent"]
Decider == [id \in Ids |-> IF Exists(id) THEN rows[id].approver ELSE None]
User == [id \in Ids |-> IF Exists(id) THEN rows[id].consumer ELSE None]

Lifecycle == INSTANCE ApprovalLifecycle
               WITH phase <- Phase, decider <- Decider, user <- User

\* The table itself keeps the life-cycle promise, whatever statements land in
\* whatever order and whichever callers die: the two conditional updates are
\* the compare-and-set the comments claim.
KeepsLifecycle == Lifecycle!Spec

\* Racing and repeated consumptions grant the approval to one execution only,
\* the one the row names (approvals.ts, "the T8 obligation").
SingleGrant ==
  \A id \in Ids :
    /\ Cardinality(granted[id]) <= 1
    /\ \A e \in granted[id] : rows[id].status = "consumed" /\ rows[id].consumer = e

\* The recorded decision time lies strictly inside the window.
VerdictsAreTimely ==
  \A id \in Ids :
    Exists(id) /\ rows[id].approver # None => rows[id].decidedAt < rows[id].expiresAt

\* What a reader was told and what the audit trail says stays true, however
\* late the reply they come from: the two final statuses the table stores are
\* never overtaken, and an audited verdict is the recorded one, by the recorded
\* approver.
StoredAnswersStand ==
  \A id \in Ids :
    /\ \A s \in told[id] \cap {"rejected", "consumed"} : rows[id].status = s
    /\ \A event \in trail[id] :
         /\ rows[id].approver = event.approver
         /\ rows[id].status = "rejected" <=> event.type = "rejected"
=============================================================================
