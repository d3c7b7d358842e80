-------------------------- MODULE ApprovalLifecycle --------------------------
(***************************************************************************)
(* What an approval coordinator promises, whatever stores the records      *)
(* (interface ApprovalCoordinator, core/src/approvals/types.ts): an        *)
(* approval is opened once, decided at most once and only while it is      *)
(* pending, a verdict is never changed, and an approved one is used by     *)
(* exactly one execution.                                                  *)
(***************************************************************************)
CONSTANTS Ids, Executions, Actors, None

VARIABLES
  phase,     \* phase[id]: where the approval is in its life
  decider,   \* decider[id]: who decided it, or None
  user       \* user[id]: the one execution it was spent on, or None

lifecycle == <<phase, decider, user>>

Init ==
  /\ phase = [id \in Ids |-> "absent"]
  /\ decider = [id \in Ids |-> None]
  /\ user = [id \in Ids |-> None]

Open(id) ==
  /\ phase[id] = "absent"
  /\ phase' = [phase EXCEPT ![id] = "pending"]
  /\ UNCHANGED <<decider, user>>

Decide(id, verdict, approver) ==
  /\ phase[id] = "pending"
  /\ phase' = [phase EXCEPT ![id] = verdict]
  /\ decider' = [decider EXCEPT ![id] = approver]
  /\ UNCHANGED user

\* Listing settles every overdue record at once, so several may lapse together.
Lapse(S) ==
  /\ \A id \in S : phase[id] = "pending"
  /\ phase' = [id \in Ids |-> IF id \in S THEN "expired" ELSE phase[id]]
  /\ UNCHANGED <<decider, user>>

Use(id, exec) ==
  /\ phase[id] = "approved"
  /\ user[id] = None
  /\ phase' = [phase EXCEPT ![id] = "consumed"]
  /\ user' = [user EXCEPT ![id] = exec]
  /\ UNCHANGED decider

Next ==
  \/ \E id \in Ids : Open(id)
  \/ \E id \in Ids, v \in {"approved", "rejected"}, a \in Actors : Decide(id, v, a)
  \/ \E id \in Ids, e \in Executions : Use(id, e)
  \/ \E S \in SUBSET Ids : Lapse(S)

Spec == Init /\ [][Next]_lifecycle
=============================================================================
