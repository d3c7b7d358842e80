--------------------------- MODULE ApprovalRecords ---------------------------
(***************************************************************************)
(* The approval record and the pure steps of the coordinator on one        *)
(* record: what create, get, decide and markConsumed of                    *)
(* core/src/approvals/in-memory.ts do to the record they touch.  The state *)
(* machines that own records (InMemoryCoordinator, PgCoordinator,          *)
(* Pipeline) share these operators, so that a decision or a consumption    *)
(* means the same thing in all of them.                                    *)
(*                                                                         *)
(* Time is a natural number; expiresAt is a point of that clock.           *)
(***************************************************************************)
EXTENDS Naturals

CONSTANTS
  Ids,          \* approval ids ("apr_...")
  Executions,   \* execution ids ("exe_...")
  Actors,       \* well-formed actors: requesters and approvers
  Values,       \* validated capability inputs
  NoRecord,     \* the id has never been created
  None          \* an absent optional field (decision, consumedByExecutionId)

ASSUME RecordConstants ==
  /\ None \notin Actors \cup Executions
  /\ \A v \in Values : v # None

Verdicts == {"approved", "rejected"}

Statuses == {"pending", "approved", "rejected", "expired", "consumed"}

\* What a request carries: who asked, the validated input, its hash and the
\* end of the decision window.  A hash is represented by the value it was
\* computed from: canonical JSON and SHA-256 are taken to be collision free.
\* decidedAt is meaningful once there is an approver.
Requests == [requester : Actors, input : Values, hash : Values, expiresAt : Nat]

Records ==
  [requester : Actors, input : Values, hash : Values, expiresAt : Nat,
   status : Statuses, approver : Actors \cup {None},
   decidedAt : Nat, consumer : Executions \cup {None}]

ASSUME NoRecordIsNoRecord == NoRecord \notin Records

\* create: { ...request, status: "pending" }
Pending(req) ==
  [requester |-> req.requester, input |-> req.input, hash |-> req.hash,
   expiresAt |-> req.expiresAt, status |-> "pending",
   approver |-> None, decidedAt |-> 0, consumer |-> None]

\* Mutated: an off-by-one in the window.
OverdueLate(r, now) == r.status = "pending" /\ now > r.expiresAt + 1

\* The comparison is strict: at now = expiresAt the record is still pending.
Overdue(r, now) == r.status = "pending" /\ now > r.expiresAt

\* Lazy expiry: every read and every decision first settles the record.
Aged(r, now) == IF Overdue(r, now) THEN [r EXCEPT !.status = "expired"] ELSE r

\* Mutated: a late verdict revives an expired request; a verdict is changed.
DecidableLate(r) == r.status \in {"pending", "expired"}
DecidableAgain(r) == r.status \in {"pending", "approved"}

Decidable(r) == r.status = "pending"

Decided(r, verdict, approver, now) ==
  [r EXCEPT !.status = verdict, !.approver = approver, !.decidedAt = now]

\* Mutated: the compare-and-set forgets that somebody was first.
ConsumableTwice(r) == r.status \in {"approved", "consumed"}

Consumable(r) == r.status = "approved" /\ r.consumer = None

\* Mutated: two columns swapped.
ConsumedByApprover(r, exec) == [r EXCEPT !.status = "consumed", !.consumer = r.approver]

Consumed(r, exec) == [r EXCEPT !.status = "consumed", !.consumer = exec]

-----------------------------------------------------------------------------
\* What every stored record looks like: somebody decided it exactly when it has
\* left "pending" other than by expiring, and somebody spent it exactly when it
\* says so.
Coherent(r) ==
  /\ r.status \in {"approved", "rejected", "consumed"} <=> r.approver # None
  /\ r.status = "consumed" <=> r.consumer # None
=============================================================================
