---------------------------- MODULE PipelineProofs ----------------------------
(***************************************************************************)
(* Theorems about Pipeline, for any number of invocations, resumptions,    *)
(* actors, values, deployed versions and attempts.                         *)
(*                                                                         *)
(* The inductive invariant IInv says three things.  Every stored record is *)
(* coherent (Coherent).  What an execution holds fits the stage it has     *)
(* reached (Staged).  What a resumption read, and what it was granted,     *)
(* still agrees with the record it names (Bound).  Records only ever       *)
(* progress (RecordsStep), so no step of one execution disturbs another.   *)
(***************************************************************************)
EXTENDS Pipeline, TLAPS

\* s may be the same record, as it is stored later.
SameRequest(r, s) ==
  /\ s.requester = r.requester
  /\ s.hash = r.hash
  /\ r.approver # None => s.approver = r.approver

Progress(r, s) ==
  /\ SameRequest(r, s)
  /\ r.status = "consumed" => s.status = "consumed" /\ s.consumer = r.consumer

RecordsStep ==
  /\ \A id \in Ids : records'[id] # NoRecord => Coherent(records'[id])
  /\ \A id \in Ids : records[id] # NoRecord =>
       records'[id] # NoRecord /\ Progress(records[id], records'[id])

Running(e) == pc[e] \in {"loop", "calling", "backoff"} \/ Sent(e)

Admitted(e) == pc[e] \notin {"idle", "load", "check", "done", "thrown"} \/ Sent(e)

\* The attempts the side effect and the retry option allow.
Budget(m) == IF m.write /\ ~m.idempotent THEN 1 ELSE m.retries + 1

Staged(e) ==
  /\ envelope[e] # None <=> pc[e] = "done"
  /\ Admitted(e) => meta[e] # None /\ actor[e] # None /\ raw[e] # None /\ validated[e] # None
  /\ pc[e] \notin {"loop", "calling", "backoff", "done", "thrown"} => attempts[e] = 0
  /\ pc[e] = "calling" => attempts[e] > 0
  /\ pc[e] \in {"loop", "backoff"} => attempts[e] < Budget(meta[e])
  /\ Sent(e) => attempts[e] <= Budget(meta[e])
  /\ Running(e) => (StrictAudit => recorded[e])
  /\ pc[e] \in {"governed", "audit"} \/ Running(e) =>
       (meta[e].gated \/ demanded[e] \/ e \in Resumptions => approval[e] # None)
  /\ pc[e] \in {"idle", "load", "check"} => approval[e] = None
  /\ pc[e] = "idle" => raw[e] = None
  /\ pc[e] \in {"idle", "policies"} => ~demanded[e]
  /\ approval[e] # None => actor[e] # None /\ ~SelfApproved(approval[e].approver, actor[e])
  /\ envelope[e] # None /\ envelope[e].status # "completed" /\ envelope[e].effect = "none"
       => attempts[e] = 0
  /\ e \in Invocations /\ records[e] # NoRecord => pc[e] = "done"

Bound(e) ==
  /\ pc[e] # "idle" => target[e] # None
  /\ pc[e] \in {"idle", "load"} => copy[e] = NoRecord
  /\ pc[e] \in {"check", "repolicies", "consume"} => copy[e] # NoRecord
  /\ copy[e] # NoRecord =>
       /\ target[e] # None /\ records[target[e]] # NoRecord
       /\ Coherent(copy[e])
       /\ SameRequest(copy[e], records[target[e]])
  /\ pc[e] \in {"repolicies", "consume"} =>
       /\ copy[e].status = "approved"
       /\ copy[e].requester = actor[e]
       /\ ~SelfApproved(copy[e].approver, actor[e])
  /\ approval[e] # None =>
       /\ target[e] # None
       /\ LET r == records[target[e]] IN
            /\ r # NoRecord
            /\ r.status = "consumed" /\ r.consumer = e
            /\ r.approver = approval[e].approver
            /\ r.requester = actor[e]

Steady(e) == Staged(e) /\ (e \in Resumptions => Bound(e))

IInv ==
  /\ TypeOK
  /\ \A id \in Ids : records[id] # NoRecord => Coherent(records[id])
  /\ \A e \in Executions : Steady(e)

-----------------------------------------------------------------------------
Untouched(f) ==
  /\ pc'[f] = pc[f] /\ envelope'[f] = envelope[f]
  /\ meta'[f] = meta[f] /\ actor'[f] = actor[f]
  /\ raw'[f] = raw[f] /\ validated'[f] = validated[f]
  /\ demanded'[f] = demanded[f]
  /\ target'[f] = target[f] /\ copy'[f] = copy[f]
  /\ approval'[f] = approval[f]
  /\ attempts'[f] = attempts[f] /\ recorded'[f] = recorded[f]

\* A gate creates the record named after its own execution and no other.
OnlyOwnRecord(e) == \A id \in Ids : records[id] = NoRecord /\ id # e => records'[id] = NoRecord

\* Settling an expiry is progress.
LEMMA AgedProgress ==
  ASSUME NEW r \in Records, NEW now \in Nat, Coherent(r)
  PROVE  Aged(r, now) \in Records /\ Coherent(Aged(r, now)) /\ Progress(r, Aged(r, now))
BY RecordConstants DEF Aged, Overdue, Records, Statuses, Coherent, Progress, SameRequest

\* So is deciding a pending record.
LEMMA DecidedProgress ==
  ASSUME NEW r \in Records, NEW verdict \in Verdicts, NEW approver \in Actors, NEW now \in Nat,
         Coherent(r), r.status = "pending"
  PROVE  LET s == Decided(r, verdict, approver, now) IN
           s \in Records /\ Coherent(s) /\ Progress(r, s)
BY RecordConstants DEF Decided, Verdicts, Records, Statuses, Coherent, Progress, SameRequest

\* So is spending an approved one.
LEMMA ConsumedProgress ==
  ASSUME NEW r \in Records, NEW exec \in Executions, Coherent(r), Consumable(r)
  PROVE  LET s == Consumed(r, exec) IN
           s \in Records /\ Coherent(s) /\ Progress(r, s)
BY RecordConstants DEF Consumed, Consumable, Records, Statuses, Coherent, Progress, SameRequest

\* Progress of the records preserves what a resumption has read and been
\* granted, as long as it does not enter a stage that asks more of it.
LEMMA BoundStays ==
  ASSUME IInv, RecordsStep, NEW e \in Resumptions, e \in Executions,
         target'[e] = target[e], copy'[e] = copy[e],
         actor'[e] = actor[e], approval'[e] = approval[e],
         pc'[e] # "idle" => pc[e] # "idle",
         pc'[e] \in {"idle", "load"} => pc'[e] = pc[e],
         pc'[e] = "check" => pc[e] \in {"check", "repolicies", "consume"},
         pc'[e] \in {"repolicies", "consume"} => pc[e] \in {"repolicies", "consume"}
  PROVE  Bound(e)'
<1>1. Bound(e) /\ target[e] \in Ids \cup {None}
  BY DEF IInv, Steady, TypeOK
<1>2. target[e] # None /\ records[target[e]] # NoRecord =>
        /\ records'[target[e]] # NoRecord
        /\ Progress(records[target[e]], records'[target[e]])
        /\ Coherent(records[target[e]])
  BY <1>1 DEF RecordsStep, IInv
<1>3. copy[e] # NoRecord =>
        /\ target[e] # None /\ records'[target[e]] # NoRecord
        /\ Coherent(copy[e])
        /\ SameRequest(copy[e], records'[target[e]])
  BY <1>1, <1>2 DEF Bound, Progress, SameRequest
<1>4. approval[e] # None =>
        /\ target[e] # None /\ records'[target[e]] # NoRecord
        /\ records'[target[e]].status = "consumed"
        /\ records'[target[e]].consumer = e
        /\ records'[target[e]].requester = actor[e]
        /\ records'[target[e]].approver = approval[e].approver
  BY <1>1, <1>2 DEF Bound, Progress, SameRequest, Coherent
<1>. QED  BY <1>1, <1>3, <1>4 DEF Bound

\* Progress of the records preserves what an execution that does not move holds.
LEMMA UntouchedStaysSteady ==
  ASSUME IInv, TypeOK', RecordsStep, NEW f \in Executions, Untouched(f),
         records[f] = NoRecord /\ f \in Ids => records'[f] = NoRecord
  PROVE  Steady(f)'
<1>1. Staged(f)'
  BY PipelineConstants DEF IInv, Steady, Staged, Untouched, Admitted, Running, Sent, EffectStarted, TypeOK
<1>2. ASSUME f \in Resumptions PROVE Bound(f)'
  BY <1>2, BoundStays DEF Untouched, IInv, Steady, Bound
<1>. QED  BY <1>1, <1>2 DEF Steady

LEMMA StepPreserves ==
  ASSUME IInv, TypeOK', RecordsStep, NEW e \in Executions, Steady(e)',
         OnlyOwnRecord(e),
         \A f \in Executions \ {e} : Untouched(f)
  PROVE  IInv'
<1>1. ASSUME NEW f \in Executions \ {e} PROVE Steady(f)'
  BY <1>1, UntouchedStaysSteady DEF OnlyOwnRecord
<1>2. \A id \in Ids : records'[id] # NoRecord => Coherent(records'[id])
  BY DEF RecordsStep
<1>. QED  BY <1>1, <1>2 DEF IInv

\* A step that leaves the store alone.
LEMMA StoreUnchanged ==
  ASSUME IInv, UNCHANGED records
  PROVE  RecordsStep /\ \A e \in Executions : OnlyOwnRecord(e)
BY DEF IInv, RecordsStep, Progress, SameRequest, OnlyOwnRecord
-----------------------------------------------------------------------------
USE DEF vars, storeVars, entryVars, gateVars, resumeVars, runVars

\* Whatever else a finalizer's step did to the store or to the gate, the
\* envelope it leaves behind fits what the execution has done.
LEMMA Finishing ==
  ASSUME IInv, NEW e \in Executions,
         NEW status \in {"completed", "failed", "cancelled", "approval-required"},
         NEW code \in Codes, Finish(e, status, code),
         e \in Resumptions => pc[e] # "idle",
         UNCHANGED <<clock, entryVars, resumeVars, approval, attempts, aborted, recorded>>,
         records' \in [Ids -> Records \cup {NoRecord}],
         RecordsStep, OnlyOwnRecord(e),
         demanded' \in [Executions -> BOOLEAN],
         deadline' \in [Executions -> Nat],
         call' \in [Executions -> [Attempts -> CallStates]],
         \A f \in Executions \ {e} : demanded'[f] = demanded[f],
         attempts[e] = 0 \/ demanded'[e] = demanded[e]
  PROVE  IInv'
<1>1. TypeOK /\ Staged(e) /\ (e \in Resumptions => Bound(e))
  BY DEF IInv, Steady
<1>2. \E env \in Envelopes :
        /\ envelope' = [envelope EXCEPT ![e] = env]
        /\ env.effect = "none" /\ status # "completed" => attempts[e] = 0
        /\ env.status = status
  <2>. DEFINE effect == IF status # "completed" /\ EffectStarted(e) THEN "unknown" ELSE "none"
              env == [status |-> status, code |-> code, effect |-> effect]
  <2>1. effect \in {"none", "unknown"}
    OBVIOUS
  <2>2. env \in Envelopes
    BY <2>1 DEF Envelopes
  <2>3. attempts[e] \in Nat  BY <1>1 DEF TypeOK
  <2>4. effect = "none" /\ status # "completed" => attempts[e] = 0
    BY <2>3 DEF EffectStarted
  <2>5. envelope' = [envelope EXCEPT ![e] = env]
    BY DEF Finish
  <2>. QED  BY <2>2, <2>4, <2>5
<1>3. PICK env \in Envelopes :
        /\ envelope' = [envelope EXCEPT ![e] = env]
        /\ env.effect = "none" /\ status # "completed" => attempts[e] = 0
        /\ env.status = status
  BY <1>2
<1>4. pc' = [pc EXCEPT ![e] = "done"]  BY DEF Finish
<1>5. TypeOK'
  BY <1>1, <1>3, <1>4 DEF TypeOK, Stages, Finished
<1>6. pc'[e] = "done" /\ envelope'[e] = env /\ env # None /\ attempts[e] \in Nat
  BY <1>1, <1>3, <1>4, NoneIsAbsent DEF TypeOK
<1>7. Staged(e)'
  BY <1>1, <1>3, <1>6 DEF Staged, Admitted, Running, Sent, EffectStarted
<1>8. \A f \in Executions \ {e} : Untouched(f)
  BY <1>1, <1>3, <1>4 DEF Untouched, TypeOK
<1>9. ASSUME e \in Resumptions PROVE Bound(e)'
  BY <1>1, <1>6, <1>9, BoundStays DEF Bound
<1>. QED  BY <1>5, <1>7, <1>8, <1>9, StepPreserves DEF Steady

\* Most finalizers change nothing else.
LEMMA OnlyFinishing ==
  ASSUME IInv, NEW e \in Executions,
         NEW status \in {"completed", "failed", "cancelled", "approval-required"},
         NEW code \in Codes, Finish(e, status, code),
         e \in Resumptions => pc[e] # "idle",
         UNCHANGED <<storeVars, entryVars, gateVars, resumeVars, approval, runVars>>
  PROVE  IInv'
<1>1. TypeOK  BY DEF IInv
<1>2. RecordsStep /\ OnlyOwnRecord(e)  BY StoreUnchanged
<1>. QED  BY <1>1, <1>2, Finishing DEF TypeOK
\* A step that moves an execution on to a stage it is entitled to.
LEMMA Going ==
  ASSUME IInv, NEW e \in Executions, NEW stage \in Stages \ {"done", "calling", "idle", "load", "check", "policies"},
         Goto(e, stage),
         pc[e] # "done", stage = "thrown" \/ Admitted(e),
         UNCHANGED <<storeVars, entryVars, resumeVars, approval, attempts, aborted, recorded>>,
         demanded' \in [Executions -> BOOLEAN],
         deadline' \in [Executions -> Nat],
         call' \in [Executions -> [Attempts -> CallStates]],
         \A f \in Executions \ {e} : demanded'[f] = demanded[f],
         attempts[e] = 0 \/ demanded'[e] = demanded[e],
         stage \in {"loop", "backoff", "thrown"} \/ attempts[e] = 0,
         stage \in {"loop", "backoff"} =>
           Running(e) /\ attempts[e] < Budget(meta[e]) /\ demanded'[e] = demanded[e],
         stage \in {"governed", "audit"} =>
           (meta[e].gated \/ demanded'[e] \/ e \in Resumptions => approval[e] # None),
         e \in Resumptions =>
           stage # "repolicies" /\ pc[e] # "idle" /\ (stage = "consume" => pc[e] = "repolicies")
  PROVE  IInv'
<1>1. TypeOK /\ Staged(e) /\ (e \in Resumptions => Bound(e))
  BY DEF IInv, Steady
<1>2. pc' = [pc EXCEPT ![e] = stage] /\ envelope' = envelope  BY DEF Goto
<1>3. TypeOK'  BY <1>1, <1>2 DEF TypeOK
<1>4. pc'[e] = stage /\ attempts[e] \in Nat  BY <1>1, <1>2 DEF TypeOK
<1>5. Staged(e)'
  BY <1>1, <1>2, <1>4 DEF Staged, Admitted, Running, Sent, EffectStarted
<1>6. \A f \in Executions \ {e} : Untouched(f)
  BY <1>1, <1>2 DEF Untouched, TypeOK
<1>7. ASSUME e \in Resumptions PROVE Bound(e)'
  BY <1>1, <1>4, <1>7, BoundStays, StoreUnchanged DEF Bound
<1>8. RecordsStep /\ OnlyOwnRecord(e)  BY StoreUnchanged
<1>. QED  BY <1>3, <1>5, <1>6, <1>7, <1>8, StepPreserves DEF Steady
-----------------------------------------------------------------------------
\* One lemma per action.  First the stages of invoke.
LEMMA Facts ==
  ASSUME IInv
  PROVE  /\ TypeOK
         /\ \A id \in Ids : records[id] # NoRecord => Coherent(records[id])
         /\ \A e \in Executions : Staged(e)
         /\ \A e \in Resumptions : Bound(e)
         /\ Invocations \subseteq Executions /\ Resumptions \subseteq Executions
         /\ \A e \in Invocations : e \notin Resumptions
BY PipelineConstants DEF IInv, Steady

LEMMA Failing ==
  ASSUME IInv, NEW e \in Executions, NEW code \in Codes, Fail(e, code),
         e \in Resumptions => pc[e] # "idle",
         UNCHANGED <<storeVars, entryVars, gateVars, resumeVars, approval, runVars>>
  PROVE  IInv'
<1>1. Finish(e, "failed", code)  BY DEF Fail
<1>. QED  BY <1>1, OnlyFinishing

LEMMA InvokeRefusedPreserves ==
  ASSUME IInv, NEW e \in Invocations,
         NEW m \in Capabilities \cup {None}, NEW a \in Actors \cup {None}, NEW v \in Values,
         InvokeRefused(e, m, a, v)
  PROVE  IInv'
<1>1. PICK code \in Codes : Fail(e, code)
  BY DEF InvokeRefused, Codes
<1>. QED  BY <1>1, Facts, Failing DEF InvokeRefused

LEMMA InvokePreserves ==
  ASSUME IInv, NEW e \in Invocations,
         NEW m \in Capabilities \cup {None}, NEW a \in Actors \cup {None}, NEW v \in Values,
         Invoke(e, m, a, v)
  PROVE  IInv'
<1>1. TypeOK /\ Staged(e) /\ e \in Executions /\ e \notin Resumptions  BY Facts
<1>2. pc[e] = "idle" /\ m \in Capabilities /\ a \in Actors /\ m.parse[v] # None
  BY DEF Invoke, Visible
<1>3. m.parse[v] \in Values
  BY <1>2, PipelineConstants DEF CapabilityMeta
<1>4. /\ pc' = [pc EXCEPT ![e] = "policies"] /\ envelope' = envelope
      /\ meta' = [meta EXCEPT ![e] = m] /\ actor' = [actor EXCEPT ![e] = a]
      /\ raw' = [raw EXCEPT ![e] = v] /\ validated' = [validated EXCEPT ![e] = m.parse[v]]
  BY DEF Invoke, Goto
<1>5. TypeOK'
  BY <1>1, <1>2, <1>3, <1>4 DEF Invoke, TypeOK, Stages, GuardedStages
<1>6. /\ pc'[e] = "policies" /\ meta'[e] # None /\ actor'[e] # None
      /\ raw'[e] # None /\ validated'[e] # None
  BY <1>1, <1>2, <1>3, <1>4, NoneIsAbsent, RecordConstants DEF TypeOK
<1>7. Staged(e)'
  BY <1>1, <1>2, <1>4, <1>6 DEF Invoke, Staged, Admitted, Running, Sent, EffectStarted, TypeOK
<1>8. \A f \in Executions \ {e} : Untouched(f)
  BY <1>1, <1>4 DEF Invoke, Untouched, TypeOK
<1>9. RecordsStep /\ OnlyOwnRecord(e)  BY <1>1, StoreUnchanged DEF Invoke
<1>. QED  BY <1>1, <1>5, <1>7, <1>8, <1>9, StepPreserves DEF Steady

\* Entering a gate: either refused for an unserializable input, or on to the
\* inline handler or the coordinator.
LEMMA EnterGatePreserves ==
  ASSUME IInv, NEW e \in Executions, NEW inlineStage \in {"inline", "inlineLate"},
         EnterGate(e, inlineStage), pc[e] \in {"policies", "governed"},
         UNCHANGED <<storeVars, entryVars, resumeVars, approval, runVars>>
  PROVE  IInv'
<1>1. TypeOK /\ Staged(e) /\ (e \in Resumptions => Bound(e))  BY Facts
<1>2. Admitted(e) /\ attempts[e] = 0  BY <1>1 DEF Staged, Admitted
<1>3. /\ demanded' \in [Executions -> BOOLEAN]
      /\ \A f \in Executions \ {e} : demanded'[f] = demanded[f]
  BY <1>1 DEF EnterGate, TypeOK
<1>4. CASE Fail(e, "APPROVAL_UNSERIALIZABLE_INPUT") /\ UNCHANGED deadline
  <2>1. RecordsStep /\ OnlyOwnRecord(e)  BY StoreUnchanged
  <2>2. Finish(e, "failed", "APPROVAL_UNSERIALIZABLE_INPUT")  BY <1>4 DEF Fail
  <2>. QED  BY <1>1, <1>2, <1>3, <1>4, <2>1, <2>2, Finishing DEF TypeOK, Codes
<1>5. CASE /\ deadline' = [deadline EXCEPT ![e] = clock + Window]
           /\ Goto(e, IF InlineHandler THEN inlineStage ELSE "create")
  <2>1. deadline' \in [Executions -> Nat]
    BY <1>1, <1>5, PipelineConstants DEF TypeOK
  <2>2. PICK stage \in {"inline", "inlineLate", "create"} : Goto(e, stage)
    BY <1>5
  <2>. QED  BY <1>1, <1>2, <1>3, <1>5, <2>1, <2>2, Going DEF Stages, GuardedStages, GovernedStages, TypeOK
<1>. QED  BY <1>4, <1>5 DEF EnterGate

LEMMA InvocationPoliciesPreserves ==
  ASSUME IInv, NEW e \in Invocations, NEW o \in Outcomes, InvocationPolicies(e, o)
  PROVE  IInv'
<1>1. TypeOK /\ Staged(e) /\ e \in Executions /\ e \notin Resumptions /\ pc[e] = "policies"
  BY Facts DEF InvocationPolicies
<1>2. CASE o \in Refusals /\ Fail(e, o) /\ UNCHANGED gateVars
  BY <1>1, <1>2, Failing DEF InvocationPolicies, Refusals, Codes
<1>3. CASE EnterGate(e, "inline")
  BY <1>1, <1>3, EnterGatePreserves DEF InvocationPolicies
<1>4. CASE ~meta[e].gated /\ Goto(e, "governed") /\ UNCHANGED gateVars
  <2>1. attempts[e] = 0 /\ Admitted(e) /\ ~demanded[e]  BY <1>1 DEF Staged, Admitted
  <2>. QED  BY <1>1, <1>4, <2>1, Going DEF InvocationPolicies, Stages, GovernedStages, TypeOK
<1>. QED  BY <1>2, <1>3, <1>4 DEF InvocationPolicies
LEMMA InlineApprovesPreserves ==
  ASSUME IInv, NEW e \in Invocations, NEW a \in Actors, InlineApproves(e, a)
  PROVE  IInv'
<1>1. /\ TypeOK /\ Staged(e) /\ e \in Executions /\ e \notin Resumptions
      /\ pc[e] \in {"inline", "inlineLate"}
  BY Facts DEF InlineApproves, InlineAsked
<1>2. CASE Fail(e, "APPROVAL_SELF_APPROVAL") /\ UNCHANGED approval
  BY <1>1, <1>2, Failing DEF InlineApproves, Codes
<1>3. CASE /\ ~SelfApproved(a, actor[e])
           /\ approval' = [approval EXCEPT ![e] = [id |-> e, approver |-> a]]
           /\ Goto(e, AfterGate(e))
  <2>1. PICK stage \in {"governed", "audit"} : Goto(e, stage)
    BY <1>3 DEF AfterGate
  <2>2. [id |-> e, approver |-> a] \in Approvals
    BY PipelineConstants DEF Approvals
  <2>3. /\ pc' = [pc EXCEPT ![e] = stage] /\ envelope' = envelope
    BY <2>1 DEF Goto
  <2>4. TypeOK'
    BY <1>1, <1>3, <2>2, <2>3 DEF InlineApproves, TypeOK, Stages, GovernedStages
  <2>5. /\ pc'[e] = stage /\ approval'[e] # None /\ approval'[e].approver = a
    BY <1>1, <1>3, <2>2, <2>3, NoneIsAbsent DEF TypeOK
  <2>6. Staged(e)'
    BY <1>1, <1>3, <2>3, <2>5 DEF InlineApproves, Staged, Admitted, Running, Sent, EffectStarted, TypeOK
  <2>7. \A f \in Executions \ {e} : Untouched(f)
    BY <1>1, <1>3, <2>3 DEF InlineApproves, Untouched, TypeOK
  <2>8. RecordsStep /\ OnlyOwnRecord(e)  BY <1>1, StoreUnchanged DEF InlineApproves
  <2>. QED  BY <1>1, <2>4, <2>6, <2>7, <2>8, StepPreserves DEF Steady
<1>. QED  BY <1>2, <1>3 DEF InlineApproves

LEMMA InlineFailsPreserves ==
  ASSUME IInv, NEW e \in Invocations,
         NEW code \in {"APPROVAL_REJECTED", "INTERNAL_ERROR"}, InlineFails(e, code)
  PROVE  IInv'
BY Facts, Failing DEF InlineFails, Codes

LEMMA InlineDefersPreserves ==
  ASSUME IInv, NEW e \in Invocations, InlineDefers(e)
  PROVE  IInv'
<1>1. /\ TypeOK /\ Staged(e) /\ e \in Executions /\ e \notin Resumptions
      /\ pc[e] \in {"inline", "inlineLate"}
  BY Facts DEF InlineDefers, InlineAsked
<1>2. attempts[e] = 0 /\ Admitted(e)  BY <1>1 DEF Staged, Admitted
<1>. QED  BY <1>1, <1>2, Going DEF InlineDefers, Stages, TypeOK

LEMMA CreateApprovalPreserves ==
  ASSUME IInv, NEW e \in Invocations, NEW landed \in BOOLEAN, NEW answered \in BOOLEAN,
         CreateApproval(e, landed, answered)
  PROVE  IInv'
<1>1. /\ TypeOK /\ Staged(e) /\ e \in Executions /\ e \notin Resumptions
      /\ pc[e] = "create" /\ e \in Ids
  BY Facts, PipelineConstants DEF CreateApproval
<1>2. actor[e] \in Actors /\ validated[e] \in Values /\ records[e] = NoRecord
  BY <1>1, Facts DEF Staged, Admitted, TypeOK
<1>3. Pending(Request(e)) \in Records /\ Coherent(Pending(Request(e)))
  BY <1>1, <1>2 DEF Pending, Request, Records, Statuses, Coherent, TypeOK
<1>4. /\ records' \in [Ids -> Records \cup {NoRecord}]
      /\ \A id \in Ids \ {e} : records'[id] = records[id]
      /\ records'[e] # NoRecord => Coherent(records'[e])
  <2>1. CASE records' = [records EXCEPT ![e] = Pending(Request(e))]
    BY <1>1, <1>3, <2>1 DEF TypeOK
  <2>2. CASE UNCHANGED records
    BY <1>1, <1>2, <2>2 DEF TypeOK
  <2>. QED  BY <2>1, <2>2 DEF CreateApproval
<1>5. RecordsStep /\ OnlyOwnRecord(e)
  BY <1>2, <1>4, Facts DEF RecordsStep, OnlyOwnRecord, Progress, SameRequest
<1>6. PICK status \in {"approval-required", "failed"}, code \in {"SUSPENDED", "INTERNAL_ERROR"} :
        Finish(e, status, code)
  BY DEF CreateApproval, Fail
<1>. QED  BY <1>1, <1>4, <1>5, <1>6, Finishing DEF CreateApproval, Codes, TypeOK

-----------------------------------------------------------------------------
\* The stages of resume.
LEMMA ResumePreserves ==
  ASSUME IInv, NEW e \in Resumptions, NEW id \in Ids, Resume(e, id)
  PROVE  IInv'
<1>1. TypeOK /\ Staged(e) /\ Bound(e) /\ e \in Executions /\ pc[e] = "idle"
  BY Facts DEF Resume
<1>2. /\ pc' = [pc EXCEPT ![e] = "load"] /\ envelope' = envelope
      /\ target' = [target EXCEPT ![e] = id]
  BY DEF Resume, Goto
<1>3. TypeOK'
  BY <1>1, <1>2 DEF Resume, TypeOK, Stages
<1>4. pc'[e] = "load" /\ target'[e] = id /\ id # None
  BY <1>1, <1>2, PipelineConstants, RecordConstants DEF TypeOK
<1>5. Staged(e)'
  BY <1>1, <1>2, <1>4, PipelineConstants DEF Resume, Staged, Admitted, Running, Sent, EffectStarted, TypeOK
<1>6. Bound(e)'
  BY <1>1, <1>4 DEF Resume, Bound, Staged
<1>7. \A f \in Executions \ {e} : Untouched(f)
  BY <1>1, <1>2 DEF Resume, Untouched, TypeOK
<1>8. RecordsStep /\ OnlyOwnRecord(e)  BY <1>1, StoreUnchanged DEF Resume
<1>. QED  BY <1>1, <1>3, <1>5, <1>6, <1>7, <1>8, StepPreserves DEF Steady

LEMMA LoadRecordPreserves ==
  ASSUME IInv, NEW e \in Resumptions, LoadRecord(e)
  PROVE  IInv'
<1>. DEFINE id == target[e]
<1>1. TypeOK /\ Staged(e) /\ Bound(e) /\ e \in Executions /\ pc[e] = "load"
  BY Facts DEF LoadRecord
<1>2. id \in Ids /\ attempts[e] = 0 /\ approval[e] = None
  BY <1>1 DEF Bound, Staged, TypeOK
<1>3. CASE records[id] = NoRecord
  <2>1. Fail(e, "INTERNAL_ERROR") /\ UNCHANGED <<records, copy>>
    BY <1>3 DEF LoadRecord
  <2>. QED  BY <1>1, <2>1, Failing DEF LoadRecord, Codes
<1>4. CASE records[id] # NoRecord
  <2>. DEFINE r == Aged(records[id], clock)
  <2>1. /\ records' = [records EXCEPT ![id] = r] /\ copy' = [copy EXCEPT ![e] = r]
        /\ pc' = [pc EXCEPT ![e] = "check"] /\ envelope' = envelope
    BY <1>4 DEF LoadRecord, Goto
  <2>2. /\ records[id] \in Records /\ Coherent(records[id]) /\ clock \in Nat
    BY <1>1, <1>2, <1>4, Facts DEF TypeOK
  <2>3. r \in Records /\ Coherent(r) /\ Progress(records[id], r)
    BY <2>2, AgedProgress
  <2>. HIDE DEF r
  <2>4. TypeOK'
    BY <1>1, <1>2, <2>1, <2>3 DEF LoadRecord, TypeOK, Stages, GuardedStages
  <2>5. RecordsStep /\ OnlyOwnRecord(e)
    <3>1. \A i \in Ids : records'[i] = IF i = id THEN r ELSE records[i]
      BY <1>1, <2>1 DEF TypeOK
    <3>2. r # NoRecord  BY <2>3, NoRecordIsNoRecord
    <3>3. \A i \in Ids : records'[i] # NoRecord => Coherent(records'[i])
      BY <2>3, <3>1, Facts
    <3>4. \A i \in Ids : records[i] # NoRecord =>
            records'[i] # NoRecord /\ Progress(records[i], records'[i])
      BY <2>3, <3>1, <3>2 DEF Progress, SameRequest
    <3>. QED  BY <1>2, <1>4, <3>1, <3>3, <3>4 DEF RecordsStep, OnlyOwnRecord
  <2>6. pc'[e] = "check" /\ copy'[e] = r /\ records'[id] = r /\ r # NoRecord
    BY <1>1, <1>2, <2>1, <2>3, NoRecordIsNoRecord DEF TypeOK
  <2>7. Staged(e)'
    BY <1>1, <1>2, <2>1, <2>6, PipelineConstants DEF LoadRecord, Staged, Admitted, Running, Sent, EffectStarted, TypeOK
  <2>8. Bound(e)'
    BY <1>1, <1>2, <2>3, <2>6 DEF LoadRecord, Bound, SameRequest
  <2>9. \A f \in Executions \ {e} : Untouched(f)
    BY <1>1, <2>1 DEF LoadRecord, Untouched, TypeOK
  <2>. QED  BY <1>1, <2>4, <2>5, <2>7, <2>8, <2>9, StepPreserves DEF Steady
<1>. QED  BY <1>3, <1>4

LEMMA CheckFailsPreserves ==
  ASSUME IInv, NEW e \in Resumptions, NEW g \in Actors \cup {None}, CheckFails(e, g)
  PROVE  IInv'
<1>1. \A i \in DOMAIN CheckOrder : CheckOrder[i] \in Codes
  BY DEF CheckOrder, Codes
<1>2. PICK code \in Codes : Fail(e, code)
  BY <1>1 DEF CheckFails
<1>. QED  BY <1>2, Facts, Failing DEF CheckFails

LEMMA ResolutionFailsPreserves ==
  ASSUME IInv, NEW e \in Resumptions, NEW g \in Actors \cup {None},
         NEW m \in Capabilities \cup {None}, ResolutionFails(e, g, m)
  PROVE  IInv'
<1>1. PICK code \in {"CAPABILITY_NOT_FOUND", "INPUT_INVALID"} : Fail(e, code)
  BY DEF ResolutionFails
<1>2. code \in Codes /\ pc[e] = "check"
  BY DEF Codes, ResolutionFails, ChecksPass
<1>. QED  BY <1>1, <1>2, Facts, Failing DEF ResolutionFails

\* What a passed integrity check establishes.
LEMMA ChecksEstablish ==
  ASSUME IInv, NEW e \in Resumptions, NEW g \in Actors \cup {None}, ChecksPass(e, g)
  PROVE  /\ g \in {None, copy[e].requester}
         /\ copy[e] \in Records
         /\ copy[e].status = "approved" /\ copy[e].approver \in Actors
         /\ ~SelfApproved(copy[e].approver, copy[e].requester)
         /\ copy[e].input = copy[e].hash
<1>1. TypeOK /\ Bound(e) /\ e \in Executions /\ pc[e] = "check"
  BY Facts DEF ChecksPass
<1>2. copy[e] \in Records /\ Coherent(copy[e])
  BY <1>1 DEF Bound, TypeOK
<1>3. DOMAIN CheckOrder = 1..7
  BY DEF CheckOrder
<1>4. /\ CheckOrder[1] = "APPROVAL_RESUME_MISMATCH" /\ CheckOrder[2] = "APPROVAL_PENDING"
      /\ CheckOrder[3] = "APPROVAL_REJECTED" /\ CheckOrder[4] = "APPROVAL_CONSUMED"
      /\ CheckOrder[5] = "APPROVAL_EXPIRED" /\ CheckOrder[6] = "APPROVAL_SELF_APPROVAL"
      /\ CheckOrder[7] = "APPROVAL_INPUT_MISMATCH"
  BY DEF CheckOrder
<1>5. \A i \in 1..7 : ~Violates(e, g, CheckOrder[i])
  BY <1>3 DEF ChecksPass
<1>6. /\ ~Violates(e, g, "APPROVAL_RESUME_MISMATCH")
      /\ ~Violates(e, g, "APPROVAL_PENDING") /\ ~Violates(e, g, "APPROVAL_REJECTED")
      /\ ~Violates(e, g, "APPROVAL_CONSUMED") /\ ~Violates(e, g, "APPROVAL_EXPIRED")
      /\ ~Violates(e, g, "APPROVAL_SELF_APPROVAL") /\ ~Violates(e, g, "APPROVAL_INPUT_MISMATCH")
  BY <1>4, <1>5
<1>7. g \in {None, copy[e].requester} /\ copy[e].input = copy[e].hash
  BY <1>6 DEF Violates
<1>8. copy[e].status = "approved"
  BY <1>2, <1>6 DEF Violates, Records, Statuses
<1>9. copy[e].approver # None /\ copy[e].approver \in Actors
  BY <1>2, <1>8 DEF Coherent, Records
<1>10. ~SelfApproved(copy[e].approver, copy[e].requester)
  BY <1>6, <1>9 DEF Violates
<1>. QED  BY <1>2, <1>7, <1>8, <1>9, <1>10
LEMMA ReadmitPreserves ==
  ASSUME IInv, NEW e \in Resumptions, NEW g \in Actors \cup {None},
         NEW m \in Capabilities \cup {None}, Readmit(e, g, m)
  PROVE  IInv'
<1>. DEFINE a == IF g # None THEN g ELSE copy[e].requester
            w == m.parse[copy[e].input]
<1>1. TypeOK /\ Staged(e) /\ Bound(e) /\ e \in Executions /\ pc[e] = "check"
  BY Facts DEF Readmit, ChecksPass
<1>2. /\ copy[e] \in Records /\ copy[e].status = "approved"
      /\ ~SelfApproved(copy[e].approver, copy[e].requester)
      /\ a = copy[e].requester
  BY ChecksEstablish DEF Readmit
<1>3. /\ copy[e].requester \in Actors /\ copy[e].input \in Values
  BY <1>2 DEF Records
<1>4. m \in Capabilities /\ w \in Values
  BY <1>3, PipelineConstants DEF Readmit, Visible, CapabilityMeta
<1>5. /\ pc' = [pc EXCEPT ![e] = "repolicies"] /\ envelope' = envelope
      /\ meta' = [meta EXCEPT ![e] = m] /\ actor' = [actor EXCEPT ![e] = a]
      /\ raw' = [raw EXCEPT ![e] = copy[e].input] /\ validated' = [validated EXCEPT ![e] = w]
  BY DEF Readmit, Goto
<1>. HIDE DEF a, w
<1>6. TypeOK'
  BY <1>1, <1>2, <1>3, <1>4, <1>5 DEF Readmit, TypeOK, Stages, GuardedStages
<1>7. /\ pc'[e] = "repolicies" /\ meta'[e] # None /\ actor'[e] = copy[e].requester
      /\ actor'[e] # None /\ raw'[e] # None /\ validated'[e] # None
  BY <1>1, <1>2, <1>3, <1>4, <1>5, NoneIsAbsent, RecordConstants DEF TypeOK
<1>8. Staged(e)'
  BY <1>1, <1>5, <1>7, PipelineConstants DEF Readmit, Staged, Admitted, Running, Sent, EffectStarted, TypeOK
<1>9. Bound(e)'
  BY <1>1, <1>2, <1>7 DEF Readmit, Bound, Staged
<1>10. \A f \in Executions \ {e} : Untouched(f)
  BY <1>1, <1>5 DEF Readmit, Untouched, TypeOK
<1>11. RecordsStep /\ OnlyOwnRecord(e)  BY <1>1, StoreUnchanged DEF Readmit
<1>. QED  BY <1>1, <1>6, <1>8, <1>9, <1>10, <1>11, StepPreserves DEF Steady

LEMMA ResumePoliciesPreserves ==
  ASSUME IInv, NEW e \in Resumptions, NEW o \in Outcomes, ResumePolicies(e, o)
  PROVE  IInv'
<1>1. TypeOK /\ Staged(e) /\ Bound(e) /\ e \in Executions /\ pc[e] = "repolicies"
  BY Facts DEF ResumePolicies
<1>2. CASE o \in Refusals /\ Fail(e, o)
  BY <1>1, <1>2, Failing DEF ResumePolicies, Refusals, Codes
<1>3. CASE Goto(e, "consume")
  <2>1. attempts[e] = 0 /\ Admitted(e)  BY <1>1 DEF Staged, Admitted
  <2>. QED  BY <1>1, <1>3, <2>1, Going DEF ResumePolicies, Stages, TypeOK
<1>. QED  BY <1>2, <1>3 DEF ResumePolicies

\* What the record and the resumption look like when markConsumed lands.
LEMMA ConsumptionStep ==
  ASSUME IInv, NEW e \in Resumptions, pc[e] = "consume",
         records[target[e]] # NoRecord, Consumable(records[target[e]]),
         records' = [records EXCEPT ![target[e]] = Consumed(@, e)]
  PROVE  /\ target[e] \in Ids
         /\ records' \in [Ids -> Records \cup {NoRecord}]
         /\ RecordsStep /\ OnlyOwnRecord(e)
         /\ records'[target[e]] = Consumed(records[target[e]], e)
         /\ Consumed(records[target[e]], e) \in Records
<1>. DEFINE id == target[e]
            r == Consumed(records[id], e)
<1>1. TypeOK /\ Bound(e) /\ e \in Executions  BY Facts
<1>2. id \in Ids  BY <1>1 DEF Bound, TypeOK
<1>3. records[id] \in Records /\ Coherent(records[id])
  BY <1>1, <1>2, Facts DEF TypeOK
<1>4. r \in Records /\ Coherent(r) /\ Progress(records[id], r)
  BY <1>1, <1>3, ConsumedProgress
<1>5. records' = [records EXCEPT ![id] = r]
  OBVIOUS
<1>. HIDE DEF r
<1>6. \A i \in Ids : records'[i] = IF i = id THEN r ELSE records[i]
  BY <1>1, <1>5 DEF TypeOK
<1>7. r # NoRecord  BY <1>4, NoRecordIsNoRecord
<1>8. RecordsStep
  <2>1. \A i \in Ids : records'[i] # NoRecord => Coherent(records'[i])
    BY <1>4, <1>6, Facts
  <2>2. \A i \in Ids : records[i] # NoRecord =>
          records'[i] # NoRecord /\ Progress(records[i], records'[i])
    BY <1>4, <1>6, <1>7 DEF Progress, SameRequest
  <2>. QED  BY <2>1, <2>2 DEF RecordsStep
<1>9. OnlyOwnRecord(e)
  BY <1>2, <1>6 DEF OnlyOwnRecord
<1>10. records' \in [Ids -> Records \cup {NoRecord}]
  BY <1>1, <1>4, <1>5 DEF TypeOK
<1>. QED  BY <1>2, <1>4, <1>6, <1>8, <1>9, <1>10 DEF r

LEMMA ConsumePreserves ==
  ASSUME IInv, NEW e \in Resumptions, Consume(e)
  PROVE  IInv'
<1>. DEFINE id == target[e]
            grant == [id |-> id, approver |-> copy[e].approver]
<1>1. TypeOK /\ Staged(e) /\ Bound(e) /\ e \in Executions /\ pc[e] = "consume"
  BY Facts DEF Consume
<1>2. /\ id \in Ids
      /\ records' \in [Ids -> Records \cup {NoRecord}]
      /\ RecordsStep /\ OnlyOwnRecord(e)
      /\ records'[id] = Consumed(records[id], e)
      /\ Consumed(records[id], e) \in Records
  BY <1>1, ConsumptionStep DEF Consume
<1>3. /\ copy[e] \in Records /\ Coherent(copy[e]) /\ copy[e].status = "approved"
      /\ copy[e].approver \in Actors
      /\ copy[e].requester = actor[e] /\ ~SelfApproved(copy[e].approver, actor[e])
      /\ SameRequest(copy[e], records[id]) /\ records[id] \in Records
  BY <1>1, <1>2 DEF Bound, Coherent, TypeOK, Records
<1>4. grant \in Approvals /\ grant # None
  BY <1>2, <1>3, NoneIsAbsent DEF Approvals
<1>5. /\ pc' = [pc EXCEPT ![e] = "governed"] /\ envelope' = envelope
      /\ approval' = [approval EXCEPT ![e] = grant]
  BY DEF Consume, Goto
<1>6. grant.approver = copy[e].approver
  OBVIOUS
<1>. HIDE DEF grant
<1>7. TypeOK'
  BY <1>1, <1>2, <1>4, <1>5 DEF Consume, TypeOK, Stages, GovernedStages
<1>8. pc'[e] = "governed" /\ approval'[e] = grant
  BY <1>1, <1>5 DEF TypeOK
<1>9. Staged(e)'
  BY <1>1, <1>3, <1>4, <1>5, <1>6, <1>8, PipelineConstants
     DEF Consume, Staged, Admitted, Running, Sent, EffectStarted, TypeOK
<1>10. /\ records'[id].status = "consumed" /\ records'[id].consumer = e
       /\ records'[id].approver = copy[e].approver
       /\ records'[id].requester = copy[e].requester
       /\ records'[id].hash = copy[e].hash
       /\ records'[id] # NoRecord /\ id # None
  BY <1>2, <1>3, NoRecordIsNoRecord, PipelineConstants, RecordConstants
     DEF Consumed, Records, SameRequest
<1>11. Bound(e)'
  BY <1>1, <1>3, <1>4, <1>6, <1>8, <1>10 DEF Consume, Bound, SameRequest
<1>12. \A f \in Executions \ {e} : Untouched(f)
  BY <1>1, <1>5 DEF Consume, Untouched, TypeOK
<1>. QED  BY <1>1, <1>2, <1>7, <1>9, <1>11, <1>12, StepPreserves DEF Steady

LEMMA ConsumeFailsPreserves ==
  ASSUME IInv, NEW e \in Resumptions, NEW landed \in BOOLEAN, ConsumeFails(e, landed)
  PROVE  IInv'
<1>1. TypeOK /\ Staged(e) /\ Bound(e) /\ e \in Executions /\ pc[e] = "consume"
  BY Facts DEF ConsumeFails
<1>2. Finish(e, "failed", "APPROVAL_CONSUMED")
  BY DEF ConsumeFails, Fail
<1>3. CASE UNCHANGED records
  BY <1>1, <1>2, <1>3, OnlyFinishing DEF ConsumeFails, Codes
<1>4. CASE ~UNCHANGED records
  <2>1. /\ records' \in [Ids -> Records \cup {NoRecord}]
        /\ RecordsStep /\ OnlyOwnRecord(e)
    BY <1>1, <1>4, ConsumptionStep DEF ConsumeFails
  <2>. QED  BY <1>1, <1>2, <2>1, Finishing DEF ConsumeFails, Codes, TypeOK
<1>. QED  BY <1>3, <1>4
-----------------------------------------------------------------------------
\* Stages 9 to 15.
LEMMA ExecutionPoliciesPreserves ==
  ASSUME IInv, NEW e \in Executions, NEW o \in Outcomes, ExecutionPolicies(e, o)
  PROVE  IInv'
<1>1. TypeOK /\ Staged(e) /\ (e \in Resumptions => Bound(e)) /\ pc[e] = "governed"
  BY Facts DEF ExecutionPolicies
<1>2. CASE o \in Refusals /\ Fail(e, o) /\ UNCHANGED gateVars
  BY <1>1, <1>2, Failing DEF ExecutionPolicies, Refusals, Codes
<1>3. CASE EnterGate(e, "inlineLate")
  BY <1>1, <1>3, EnterGatePreserves DEF ExecutionPolicies
<1>4. CASE Goto(e, "audit") /\ UNCHANGED gateVars
  <2>1. /\ attempts[e] = 0 /\ Admitted(e)
        /\ meta[e].gated \/ demanded[e] \/ e \in Resumptions => approval[e] # None
    BY <1>1 DEF Staged, Admitted
  <2>. QED  BY <1>1, <1>4, <2>1, Going DEF ExecutionPolicies, Stages, GovernedStages, TypeOK
<1>. QED  BY <1>2, <1>3, <1>4 DEF ExecutionPolicies

LEMMA EmitStartedPreserves ==
  ASSUME IInv, NEW e \in Executions, NEW durable \in BOOLEAN, EmitStarted(e, durable)
  PROVE  IInv'
<1>. DEFINE stage == IF StrictAudit /\ ~durable THEN "done" ELSE "loop"
<1>1. TypeOK /\ Staged(e) /\ (e \in Resumptions => Bound(e)) /\ pc[e] = "audit"
  BY Facts DEF EmitStarted
<1>2. attempts[e] = 0 /\ Admitted(e) /\ envelope[e] = None /\ meta[e] \in Capabilities
  BY <1>1 DEF Staged, Admitted, TypeOK
<1>3. 0 < Budget(meta[e])
  BY <1>2, PipelineConstants DEF Budget, CapabilityMeta
<1>4. recorded' = [recorded EXCEPT ![e] = durable]  BY DEF EmitStarted
<1>5. RecordsStep /\ OnlyOwnRecord(e)  BY StoreUnchanged DEF EmitStarted
<1>6. CASE StrictAudit /\ ~durable /\ Fail(e, "AUDIT_UNAVAILABLE")
  <2>. DEFINE env == [status |-> "failed", code |-> "AUDIT_UNAVAILABLE", effect |-> "none"]
  <2>1. /\ pc' = [pc EXCEPT ![e] = "done"] /\ envelope' = [envelope EXCEPT ![e] = env]
    BY <1>2, <1>6 DEF Fail, Finish, EffectStarted
  <2>2. env \in Envelopes /\ env # None
    BY NoneIsAbsent DEF Envelopes, Codes
  <2>. HIDE DEF env
  <2>3. TypeOK'
    BY <1>1, <1>4, <2>1, <2>2 DEF EmitStarted, TypeOK, Stages, Finished
  <2>4. pc'[e] = "done" /\ envelope'[e] = env
    BY <1>1, <2>1 DEF TypeOK
  <2>5. Staged(e)'
    BY <1>1, <1>2, <2>2, <2>4 DEF EmitStarted, Staged, Admitted, Running, Sent, EffectStarted
  <2>6. e \in Resumptions => Bound(e)'
    BY <1>1, <1>5, <2>4, BoundStays DEF EmitStarted
  <2>7. \A f \in Executions \ {e} : Untouched(f)
    BY <1>1, <1>4, <2>1 DEF EmitStarted, Untouched, TypeOK
  <2>. QED  BY <1>5, <2>3, <2>5, <2>6, <2>7, StepPreserves DEF Steady
<1>7. CASE (StrictAudit => durable) /\ Goto(e, "loop")
  <2>1. pc' = [pc EXCEPT ![e] = "loop"] /\ envelope' = envelope
    BY <1>7 DEF Goto
  <2>2. TypeOK'
    BY <1>1, <1>4, <2>1 DEF EmitStarted, TypeOK, Stages, GovernedStages
  <2>3. pc'[e] = "loop" /\ recorded'[e] = durable
    BY <1>1, <1>4, <2>1 DEF TypeOK
  <2>4. Staged(e)'
    BY <1>1, <1>2, <1>3, <1>7, <2>1, <2>3 DEF EmitStarted, Staged, Admitted, Running, Sent, EffectStarted
  <2>5. e \in Resumptions => Bound(e)'
    BY <1>1, <1>5, <2>3, BoundStays DEF EmitStarted
  <2>6. \A f \in Executions \ {e} : Untouched(f)
    BY <1>1, <1>4, <2>1 DEF EmitStarted, Untouched, TypeOK
  <2>. QED  BY <1>5, <2>2, <2>4, <2>5, <2>6, StepPreserves DEF Steady
<1>. QED  BY <1>6, <1>7 DEF EmitStarted

LEMMA BeginAttemptPreserves ==
  ASSUME IInv, NEW e \in Executions, BeginAttempt(e)
  PROVE  IInv'
<1>1. TypeOK /\ Staged(e) /\ (e \in Resumptions => Bound(e)) /\ pc[e] = "loop"
  BY Facts DEF BeginAttempt
<1>2. /\ attempts[e] \in Nat /\ attempts[e] < Budget(meta[e]) /\ meta[e] \in Capabilities
      /\ envelope[e] = None
  BY <1>1 DEF Staged, Admitted, TypeOK
<1>3. Budget(meta[e]) \in Nat /\ Budget(meta[e]) <= MaxAttempts
  BY <1>2, PipelineConstants DEF Budget, CapabilityMeta
<1>4. attempts[e] + 1 \in Attempts /\ attempts[e] + 1 \in 0..MaxAttempts
  BY <1>2, <1>3, PipelineConstants DEF Attempts
<1>5. /\ pc' = [pc EXCEPT ![e] = "calling"] /\ envelope' = envelope
      /\ attempts' = [attempts EXCEPT ![e] = @ + 1]
      /\ call' = [call EXCEPT ![e][attempts[e] + 1] = "sent"]
  BY DEF BeginAttempt, Goto
<1>6. TypeOK'
  BY <1>1, <1>4, <1>5 DEF BeginAttempt, TypeOK, Stages, GovernedStages, CallStates
<1>7. pc'[e] = "calling" /\ attempts'[e] = attempts[e] + 1
  BY <1>1, <1>5 DEF TypeOK
<1>8. attempts'[e] > 0 /\ attempts'[e] <= Budget(meta[e])
  BY <1>2, <1>3, <1>7
<1>9. Staged(e)'
  BY <1>1, <1>2, <1>5, <1>7, <1>8 DEF BeginAttempt, Staged, Admitted, Running, Sent, EffectStarted
<1>10. RecordsStep /\ OnlyOwnRecord(e)  BY StoreUnchanged DEF BeginAttempt
<1>11. e \in Resumptions => Bound(e)'
  BY <1>1, <1>7, <1>10, BoundStays DEF BeginAttempt
<1>12. \A f \in Executions \ {e} : Untouched(f)
  BY <1>1, <1>5 DEF BeginAttempt, Untouched, TypeOK
<1>. QED  BY <1>6, <1>9, <1>10, <1>11, <1>12, StepPreserves DEF Steady

LEMMA NoticeAbortPreserves ==
  ASSUME IInv, NEW e \in Executions, NoticeAbort(e)
  PROVE  IInv'
BY OnlyFinishing DEF NoticeAbort, Codes

\* A retry is within the budget.
LEMMA RetryWithinBudget ==
  ASSUME NEW m \in CapabilityMeta, NEW made \in Nat, RetryEligible(m, made)
  PROVE  made < Budget(m)
BY DEF RetryEligible, Budget, CapabilityMeta

LEMMA RetryPreserves ==
  ASSUME IInv, NEW e \in Executions, pc[e] = "calling",
         RetryEligible(meta[e], attempts[e]), Goto(e, "backoff"),
         UNCHANGED <<storeVars, entryVars, gateVars, resumeVars, approval, attempts, aborted, recorded>>,
         call' \in [Executions -> [Attempts -> CallStates]]
  PROVE  IInv'
<1>1. TypeOK /\ Staged(e) /\ (e \in Resumptions => Bound(e))  BY Facts
<1>2. /\ attempts[e] \in Nat /\ meta[e] \in CapabilityMeta /\ Admitted(e) /\ Running(e)
  BY <1>1, PipelineConstants DEF Staged, Admitted, Running, TypeOK
<1>3. attempts[e] < Budget(meta[e])  BY <1>2, RetryWithinBudget
<1>. QED  BY <1>1, <1>2, <1>3, Going DEF Stages, GovernedStages, TypeOK

LEMMA AttemptTimesOutPreserves ==
  ASSUME IInv, NEW e \in Executions, AttemptTimesOut(e)
  PROVE  IInv'
<1>1. TypeOK /\ pc[e] = "calling"  BY Facts DEF AttemptTimesOut
<1>2. CASE RetryEligible(meta[e], attempts[e]) /\ Goto(e, "backoff")
  BY <1>1, <1>2, RetryPreserves DEF AttemptTimesOut, TypeOK
<1>3. CASE Finish(e, "cancelled", "TIMEOUT")
  BY <1>1, <1>3, OnlyFinishing DEF AttemptTimesOut, Codes
<1>. QED  BY <1>2, <1>3 DEF AttemptTimesOut

LEMMA EndBackoffPreserves ==
  ASSUME IInv, NEW e \in Executions, EndBackoff(e)
  PROVE  IInv'
<1>1. TypeOK /\ Staged(e) /\ (e \in Resumptions => Bound(e)) /\ pc[e] = "backoff"
  BY Facts DEF EndBackoff
<1>2. Admitted(e) /\ Running(e) /\ attempts[e] < Budget(meta[e])
  BY <1>1 DEF Staged, Admitted, Running
<1>. QED  BY <1>1, <1>2, Going DEF EndBackoff, Stages, GovernedStages, TypeOK
\* Steps of the handler and of the caller that the execution does not notice.
LEMMA UnnoticedPreserves ==
  ASSUME IInv, NEW e \in Executions,
         UNCHANGED <<storeVars, pc, entryVars, gateVars, resumeVars, approval, attempts, recorded, envelope>>,
         aborted' \in [Executions -> BOOLEAN],
         call' \in [Executions -> [Attempts -> CallStates]]
  PROVE  IInv'
<1>1. TypeOK'  BY Facts DEF TypeOK
<1>2. RecordsStep /\ OnlyOwnRecord(e)  BY StoreUnchanged
<1>3. \A f \in Executions : Untouched(f)  BY DEF Untouched
<1>4. Steady(e)'  BY <1>1, <1>2, <1>3, UntouchedStaysSteady
<1>. QED  BY <1>1, <1>2, <1>3, <1>4, StepPreserves

LEMMA HandlerStartsPreserves ==
  ASSUME IInv, NEW e \in Executions, NEW k \in Attempts, HandlerStarts(e, k)
  PROVE  IInv'
<1>1. TypeOK  BY Facts
<1>2. PICK s \in {"running", "refused"} : call' = [call EXCEPT ![e][k] = s]
  BY DEF HandlerStarts
<1>3. call' \in [Executions -> [Attempts -> CallStates]]
  BY <1>1, <1>2 DEF TypeOK, CallStates
<1>. QED  BY <1>1, <1>3, UnnoticedPreserves DEF HandlerStarts, TypeOK

LEMMA AbandonedCallEndsPreserves ==
  ASSUME IInv, NEW e \in Executions, NEW k \in Attempts, AbandonedCallEnds(e, k)
  PROVE  IInv'
<1>1. TypeOK  BY Facts
<1>2. call' \in [Executions -> [Attempts -> CallStates]]
  BY <1>1 DEF AbandonedCallEnds, TypeOK, CallStates
<1>. QED  BY <1>1, <1>2, UnnoticedPreserves DEF AbandonedCallEnds, TypeOK

LEMMA CallerAbortsPreserves ==
  ASSUME IInv, NEW e \in Executions, CallerAborts(e)
  PROVE  IInv'
<1>1. TypeOK  BY Facts
<1>2. aborted' \in [Executions -> BOOLEAN]
  BY <1>1 DEF CallerAborts, TypeOK
<1>. QED  BY <1>1, <1>2, UnnoticedPreserves DEF CallerAborts, TypeOK

LEMMA CallSettlesPreserves ==
  ASSUME IInv, NEW e \in Executions, CallSettles(e)
  PROVE  IInv'
<1>1. TypeOK /\ Staged(e) /\ pc[e] = "calling"  BY Facts DEF CallSettles
<1>2. attempts[e] \in Attempts
  BY <1>1, PipelineConstants DEF Staged, TypeOK, Attempts
<1>3. call' \in [Executions -> [Attempts -> CallStates]]
  <2>1. CASE call' = [call EXCEPT ![e][attempts[e]] = "ended"]
    BY <1>1, <1>2, <2>1 DEF TypeOK, CallStates
  <2>2. CASE UNCHANGED call
    BY <1>1, <2>2 DEF TypeOK
  <2>. QED  BY <2>1, <2>2 DEF CallSettles
<1>4. RecordsStep /\ OnlyOwnRecord(e)  BY StoreUnchanged DEF CallSettles
<1>5. CASE RetryEligible(meta[e], attempts[e]) /\ Goto(e, "backoff")
  BY <1>1, <1>3, <1>5, RetryPreserves DEF CallSettles
<1>6. CASE \E status \in {"completed", "failed"}, code \in Codes : Finish(e, status, code)
  BY <1>1, <1>3, <1>4, <1>6, Finishing DEF CallSettles, TypeOK
<1>. QED  BY <1>5, <1>6 DEF CallSettles, Fail, Codes

-----------------------------------------------------------------------------
\* Exceptions.
LEMMA SeamThrowsPreserves ==
  ASSUME IInv, NEW e \in Executions, SeamThrows(e)
  PROVE  IInv'
<1>1. TypeOK /\ Staged(e) /\ (e \in Resumptions => Bound(e))  BY Facts
<1>2. CASE pc[e] \in GuardedStages /\ Fail(e, "INTERNAL_ERROR")
  BY <1>2, Failing DEF SeamThrows, GuardedStages, Codes
<1>3. CASE pc[e] \in GovernedStages /\ Goto(e, "thrown")
  BY <1>1, <1>3, Going DEF SeamThrows, GovernedStages, Stages, Finished, TypeOK
<1>. QED  BY <1>2, <1>3 DEF SeamThrows

LEMMA LoadFailsPreserves ==
  ASSUME IInv, NEW e \in Executions, LoadFails(e)
  PROVE  IInv'
<1>1. TypeOK /\ Staged(e) /\ (e \in Resumptions => Bound(e)) /\ pc[e] = "load"
  BY Facts DEF LoadFails
<1>. QED  BY <1>1, Going DEF LoadFails, Stages, Finished, TypeOK

-----------------------------------------------------------------------------
\* Steps of approvers, readers, the store and time.
LEMMA EnvironmentPreserves ==
  ASSUME IInv, TypeOK', RecordsStep, UNCHANGED execVars,
         \A id \in Ids : records[id] = NoRecord => records'[id] = NoRecord
  PROVE  IInv'
<1>1. \A f \in Executions : Untouched(f)
  BY DEF execVars, Untouched
<1>2. \A f \in Executions : Steady(f)'
  BY <1>1, UntouchedStaysSteady
<1>. QED  BY <1>2 DEF IInv, RecordsStep

\* One record is replaced by a later version of itself.
LEMMA OneRecordPreserves ==
  ASSUME IInv, NEW id \in Ids, NEW r \in Records, records[id] # NoRecord,
         Coherent(r), Progress(records[id], r),
         records' = [records EXCEPT ![id] = r], UNCHANGED <<clock, execVars>>
  PROVE  IInv'
<1>1. TypeOK  BY Facts
<1>2. TypeOK'
  BY <1>1 DEF TypeOK, execVars
<1>3. \A i \in Ids : records'[i] = IF i = id THEN r ELSE records[i]
  BY <1>1 DEF TypeOK
<1>4. r # NoRecord  BY NoRecordIsNoRecord
<1>5. \A i \in Ids : records'[i] # NoRecord => Coherent(records'[i])
  BY <1>3, Facts
<1>6. \A i \in Ids : records[i] # NoRecord =>
        records'[i] # NoRecord /\ Progress(records[i], records'[i])
  BY <1>3, <1>4 DEF Progress, SameRequest
<1>. QED  BY <1>2, <1>3, <1>5, <1>6, EnvironmentPreserves DEF RecordsStep

LEMMA DecidePreserves ==
  ASSUME IInv, NEW id \in Ids, NEW verdict \in Verdicts, NEW a \in Actors, Decide(id, verdict, a)
  PROVE  IInv'
<1>. DEFINE r == Decided(records[id], verdict, a, clock)
<1>1. records[id] \in Records /\ Coherent(records[id]) /\ clock \in Nat /\ records[id] # NoRecord
  BY Facts DEF Decide, TypeOK
<1>2. records[id].status = "pending"
  BY <1>1 DEF Decide, Decidable, Aged, Overdue, Records
<1>3. r \in Records /\ Coherent(r) /\ Progress(records[id], r)
  BY <1>1, <1>2, DecidedProgress
<1>4. records' = [records EXCEPT ![id] = r] /\ UNCHANGED <<clock, execVars>>
  BY DEF Decide
<1>. QED  BY <1>1, <1>3, <1>4, OneRecordPreserves

LEMMA SettlePreserves ==
  ASSUME IInv, NEW id \in Ids, Settle(id)
  PROVE  IInv'
<1>. DEFINE r == Aged(records[id], clock)
<1>1. records[id] \in Records /\ Coherent(records[id]) /\ clock \in Nat /\ records[id] # NoRecord
  BY Facts DEF Settle, TypeOK
<1>2. r \in Records /\ Coherent(r) /\ Progress(records[id], r)
  BY <1>1, AgedProgress
<1>3. records' = [records EXCEPT ![id] = r] /\ UNCHANGED <<clock, execVars>>
  BY DEF Settle
<1>. QED  BY <1>1, <1>2, <1>3, OneRecordPreserves

LEMMA StoreDriftsPreserves ==
  ASSUME IInv, NEW id \in Ids, NEW v \in Values, StoreDrifts(id, v)
  PROVE  IInv'
<1>. DEFINE r == [records[id] EXCEPT !.input = v]
<1>1. records[id] \in Records /\ Coherent(records[id]) /\ records[id] # NoRecord
  BY Facts DEF StoreDrifts, TypeOK
<1>2. r \in Records /\ Coherent(r) /\ Progress(records[id], r)
  BY <1>1 DEF Records, Coherent, Progress, SameRequest
<1>3. records' = [records EXCEPT ![id] = r] /\ UNCHANGED <<clock, execVars>>
  BY DEF StoreDrifts
<1>. QED  BY <1>1, <1>2, <1>3, OneRecordPreserves

LEMMA TickPreserves ==
  ASSUME IInv, Tick
  PROVE  IInv'
<1>1. TypeOK'
  BY Facts DEF Tick, TypeOK, execVars
<1>2. RecordsStep /\ \A id \in Ids : records[id] = NoRecord => records'[id] = NoRecord
  BY StoreUnchanged DEF Tick
<1>. QED  BY <1>1, <1>2, EnvironmentPreserves DEF Tick
-----------------------------------------------------------------------------
LEMMA InitEstablishes == Init => IInv
<1>. SUFFICES ASSUME Init PROVE IInv
  OBVIOUS
<1>1. TypeOK
  BY PipelineConstants DEF Init, TypeOK, Stages, CallStates
<1>2. \A e \in Executions : Staged(e) /\ Bound(e)
  BY PipelineConstants, RecordConstants, NoneIsAbsent
     DEF Init, Staged, Bound, Admitted, Running, Sent, EffectStarted
<1>3. \A id \in Ids : records[id] = NoRecord
  BY DEF Init
<1>. QED  BY <1>1, <1>2, <1>3 DEF IInv, Steady

LEMMA NextPreserves == IInv /\ [Next]_vars => IInv'
<1>. SUFFICES ASSUME IInv, [Next]_vars PROVE IInv'
  OBVIOUS
<1>1. ASSUME NEW e \in Executions, Begin(e) PROVE IInv'
  BY <1>1, InvokePreserves, InvokeRefusedPreserves, ResumePreserves DEF Begin
<1>2. ASSUME NEW e \in Executions, Proceed(e) PROVE IInv'
  <2>1. CASE e \in Invocations /\ InvokeStep(e)
    BY <2>1, InvocationPoliciesPreserves, CreateApprovalPreserves, InlineApprovesPreserves,
       InlineFailsPreserves, InlineDefersPreserves DEF InvokeStep
  <2>2. CASE e \in Resumptions /\ ResumeStep(e)
    BY <2>2, LoadRecordPreserves, CheckFailsPreserves, ResolutionFailsPreserves, ReadmitPreserves,
       ResumePoliciesPreserves, ConsumePreserves, ConsumeFailsPreserves DEF ResumeStep
  <2>3. CASE GovernedStep(e)
    BY <2>3, ExecutionPoliciesPreserves, EmitStartedPreserves, BeginAttemptPreserves,
       NoticeAbortPreserves, AttemptTimesOutPreserves, EndBackoffPreserves DEF GovernedStep
  <2>. QED  BY <1>2, <2>1, <2>2, <2>3 DEF Proceed
<1>3. ASSUME NEW e \in Executions, HandlerStep(e) PROVE IInv'
  BY <1>3, HandlerStartsPreserves, AbandonedCallEndsPreserves, CallSettlesPreserves DEF HandlerStep
<1>4. ASSUME NEW e \in Executions, Disturb(e) PROVE IInv'
  BY <1>4, SeamThrowsPreserves, LoadFailsPreserves, CallerAbortsPreserves DEF Disturb
<1>5. ASSUME Environment PROVE IInv'
  BY <1>5, DecidePreserves, SettlePreserves, StoreDriftsPreserves, TickPreserves DEF Environment
<1>6. CASE UNCHANGED vars
  <2>1. TypeOK'  BY <1>6, Facts DEF TypeOK
  <2>2. RecordsStep /\ \A id \in Ids : records[id] = NoRecord => records'[id] = NoRecord
    BY <1>6, StoreUnchanged
  <2>. QED  BY <1>6, <2>1, <2>2, EnvironmentPreserves DEF execVars
<1>. QED  BY <1>1, <1>2, <1>3, <1>4, <1>5, <1>6 DEF Next

\* The invariant holds in every reachable state of every instance.
THEOREM Invariance == Spec => []IInv
BY InitEstablishes, NextPreserves, PTL DEF Spec

\* Every variable keeps its type; in particular the attempts stay within the
\* bound and every grant names a real approver.
THEOREM TypeCorrectness == Spec => []TypeOK
<1>1. IInv => TypeOK  BY DEF IInv
<1>. QED  BY <1>1, Invariance, PTL

\* A gated capability is never reached without an approval, nor under one that
\* the requester's own identity gave.
THEOREM GateHolds == Spec => []EffectIsApproved
<1>1. IInv => EffectIsApproved
  BY Facts DEF EffectIsApproved, Staged, Running
<1>. QED  BY <1>1, Invariance, PTL

\* However many resumptions race for one approval, and whatever approvers, the
\* store and crashes do meanwhile, the one that reaches the handler owns it.
THEOREM SingleUse == Spec => []ResumedEffectOwnsApproval
<1>1. IInv => ResumedEffectOwnsApproval
  BY Facts, PipelineConstants DEF ResumedEffectOwnsApproval, Staged, Running, Bound
<1>. QED  BY <1>1, Invariance, PTL

\* effectStatus "none" is never a lie.
THEOREM HonestEnvelopes == Spec => []HonestEffectStatus
<1>1. IInv => HonestEffectStatus
  <2>. SUFFICES ASSUME IInv, NEW e \in Executions,
                       envelope[e] # None, envelope[e].status # "completed",
                       envelope[e].effect = "none"
                PROVE  ~Sent(e)
    BY DEF HonestEffectStatus
  <2>1. attempts[e] = 0  BY Facts DEF Staged
  <2>. QED  BY <2>1 DEF Sent, EffectStarted
<1>. QED  BY <1>1, Invariance, PTL

\* Retries never exceed what the side effect and the options allow.
THEOREM BoundedAttempts == Spec => []AttemptsAreBounded
<1>1. IInv => AttemptsAreBounded
  BY Facts DEF AttemptsAreBounded, Staged, Budget
<1>. QED  BY <1>1, Invariance, PTL

\* Strict audit: no effect without a durable capability.started.
THEOREM AuditFirst == Spec => []AuditPrecedesEffect
<1>1. IInv => AuditPrecedesEffect
  BY Facts DEF AuditPrecedesEffect, Staged, Running
<1>. QED  BY <1>1, Invariance, PTL

-----------------------------------------------------------------------------
(***************************************************************************)
(* What a step may do to a record, whoever takes it.                       *)
(***************************************************************************)
Replaced(id, r) == r \in Records /\ records' = [records EXCEPT ![id] = r]

Opened(id) ==
  /\ records[id] = NoRecord /\ validated[id] \in Values
  /\ Replaced(id, Pending(Request(id)))

Replacement(id) ==
  /\ records[id] # NoRecord
  /\ \/ Replaced(id, Aged(records[id], clock))
     \/ \E v \in Verdicts, a \in Actors :
          records[id].status = "pending" /\ Replaced(id, Decided(records[id], v, a, clock))
     \/ \E e \in Executions :
          Consumable(records[id]) /\ Replaced(id, Consumed(records[id], e))
     \/ \E v \in Values : Replaced(id, [records[id] EXCEPT !.input = v])

RecordChanges ==
  UNCHANGED records \/ \E id \in Ids : Opened(id) \/ Replacement(id)

LEMMA CreateChanges ==
  ASSUME IInv, NEW e \in Invocations, NEW landed \in BOOLEAN, NEW answered \in BOOLEAN,
         CreateApproval(e, landed, answered)
  PROVE  UNCHANGED records \/ (e \in Ids /\ Opened(e))
<1>1. TypeOK /\ Staged(e) /\ e \in Executions /\ pc[e] = "create" /\ e \in Ids
  BY Facts, PipelineConstants DEF CreateApproval
<1>2. actor[e] \in Actors /\ validated[e] \in Values /\ records[e] = NoRecord
  BY <1>1, Facts DEF Staged, Admitted, TypeOK
<1>3. Pending(Request(e)) \in Records
  BY <1>1, <1>2 DEF Pending, Request, Records, Statuses, TypeOK
<1>. QED  BY <1>1, <1>2, <1>3 DEF CreateApproval, Opened, Replaced

LEMMA ResumeChanges ==
  ASSUME IInv, NEW e \in Resumptions,
         LoadRecord(e) \/ Consume(e) \/ \E landed \in BOOLEAN : ConsumeFails(e, landed)
  PROVE  RecordChanges
<1>. DEFINE id == target[e]
<1>1. TypeOK /\ Bound(e) /\ e \in Executions /\ pc[e] \in {"load", "consume"}
  BY Facts DEF LoadRecord, Consume, ConsumeFails
<1>2. id \in Ids  BY <1>1 DEF Bound, TypeOK
<1>3. CASE UNCHANGED records  BY <1>3 DEF RecordChanges
<1>4. CASE records[id] # NoRecord
  <2>1. records[id] \in Records /\ Coherent(records[id]) /\ clock \in Nat
    BY <1>1, <1>2, <1>4, Facts DEF TypeOK
  <2>2. Aged(records[id], clock) \in Records  BY <2>1, AgedProgress
  <2>3. Consumable(records[id]) => Consumed(records[id], e) \in Records
    BY <1>1, <2>1, ConsumedProgress
  <2>. QED  BY <1>1, <1>2, <1>4, <2>2, <2>3
       DEF LoadRecord, Consume, ConsumeFails, RecordChanges, Replacement, Replaced
<1>. QED  BY <1>3, <1>4 DEF LoadRecord, Consume, ConsumeFails

LEMMA EnvironmentChanges ==
  ASSUME IInv, Environment
  PROVE  RecordChanges
<1>1. ASSUME NEW id \in Ids, NEW v \in Verdicts, NEW a \in Actors, Decide(id, v, a)
      PROVE  RecordChanges
  <2>1. records[id] \in Records /\ Coherent(records[id]) /\ clock \in Nat /\ records[id] # NoRecord
    BY <1>1, Facts DEF Decide, TypeOK
  <2>2. records[id].status = "pending"
    BY <1>1, <2>1 DEF Decide, Decidable, Aged, Overdue, Records
  <2>3. Decided(records[id], v, a, clock) \in Records
    BY <2>1, <2>2, DecidedProgress
  <2>. QED  BY <1>1, <2>1, <2>2, <2>3 DEF Decide, RecordChanges, Replacement, Replaced
<1>2. ASSUME NEW id \in Ids, Settle(id) PROVE RecordChanges
  <2>1. records[id] \in Records /\ Coherent(records[id]) /\ clock \in Nat /\ records[id] # NoRecord
    BY <1>2, Facts DEF Settle, TypeOK
  <2>2. Aged(records[id], clock) \in Records  BY <2>1, AgedProgress
  <2>. QED  BY <1>2, <2>1, <2>2 DEF Settle, RecordChanges, Replacement, Replaced
<1>3. ASSUME NEW id \in Ids, NEW v \in Values, StoreDrifts(id, v) PROVE RecordChanges
  <2>1. records[id] \in Records /\ records[id] # NoRecord
    BY <1>3, Facts DEF StoreDrifts, TypeOK
  <2>2. [records[id] EXCEPT !.input = v] \in Records  BY <2>1 DEF Records
  <2>. QED  BY <1>3, <2>1, <2>2 DEF StoreDrifts, RecordChanges, Replacement, Replaced
<1>4. CASE Tick  BY <1>4 DEF Tick, RecordChanges
<1>. QED  BY <1>1, <1>2, <1>3, <1>4 DEF Environment

LEMMA NextChanges == IInv /\ [Next]_vars => RecordChanges
<1>. SUFFICES ASSUME IInv, [Next]_vars PROVE RecordChanges  OBVIOUS
<1>1. ASSUME NEW e \in Executions, Begin(e) PROVE RecordChanges
  BY <1>1 DEF Begin, Invoke, InvokeRefused, Resume, RecordChanges
<1>2. ASSUME NEW e \in Executions, Proceed(e) PROVE RecordChanges
  <2>1. CASE e \in Invocations /\ InvokeStep(e)
    <3>1. ASSUME NEW landed \in BOOLEAN, NEW answered \in BOOLEAN,
                 CreateApproval(e, landed, answered)
          PROVE  RecordChanges
      BY <2>1, <3>1, CreateChanges DEF RecordChanges
    <3>2. CASE UNCHANGED records  BY <3>2 DEF RecordChanges
    <3>. QED  BY <2>1, <3>1, <3>2
         DEF InvokeStep, InvocationPolicies, InlineApproves, InlineFails, InlineDefers
  <2>2. CASE e \in Resumptions /\ ResumeStep(e)
    <3>1. CASE LoadRecord(e) \/ Consume(e) \/ \E landed \in BOOLEAN : ConsumeFails(e, landed)
      BY <2>2, <3>1, ResumeChanges
    <3>2. CASE UNCHANGED records  BY <3>2 DEF RecordChanges
    <3>. QED  BY <2>2, <3>1, <3>2
         DEF ResumeStep, CheckFails, ResolutionFails, Readmit, ResumePolicies
  <2>3. CASE GovernedStep(e)
    BY <2>3 DEF GovernedStep, ExecutionPolicies, EmitStarted, BeginAttempt, NoticeAbort,
                AttemptTimesOut, EndBackoff, RecordChanges
  <2>. QED  BY <1>2, <2>1, <2>2, <2>3 DEF Proceed
<1>3. ASSUME NEW e \in Executions, HandlerStep(e) \/ Disturb(e) PROVE RecordChanges
  BY <1>3 DEF HandlerStep, HandlerStarts, AbandonedCallEnds, CallSettles,
              Disturb, SeamThrows, LoadFails, CallerAborts, RecordChanges
<1>4. CASE Environment  BY <1>4, EnvironmentChanges
<1>5. CASE UNCHANGED vars  BY <1>5 DEF RecordChanges
<1>. QED  BY <1>1, <1>2, <1>3, <1>4, <1>5 DEF Next


-----------------------------------------------------------------------------
(***************************************************************************)
(* Seen from the records, the life cycle of approvals.                     *)
(***************************************************************************)
LEMMA ViewOfReplacement ==
  ASSUME TypeOK, NEW id \in Ids, NEW r, Replaced(id, r)
  PROVE  /\ Phase' = [Phase EXCEPT ![id] = r.status]
         /\ Decider' = [Decider EXCEPT ![id] = r.approver]
         /\ User' = [User EXCEPT ![id] = r.consumer]
<1>1. \A i \in Ids : records'[i] = IF i = id THEN r ELSE records[i]
  BY DEF Replaced, TypeOK
<1>2. r # NoRecord  BY NoRecordIsNoRecord DEF Replaced
<1>3. Phase' = [Phase EXCEPT ![id] = r.status]  BY <1>1, <1>2 DEF Phase
<1>4. Decider' = [Decider EXCEPT ![id] = r.approver]  BY <1>1, <1>2 DEF Decider
<1>5. User' = [User EXCEPT ![id] = r.consumer]  BY <1>1, <1>2 DEF User
<1>. QED  BY <1>3, <1>4, <1>5

LEMMA ViewAt ==
  ASSUME NEW id \in Ids
  PROVE  /\ records[id] # NoRecord => /\ Phase[id] = records[id].status
                                      /\ Decider[id] = records[id].approver
                                      /\ User[id] = records[id].consumer
         /\ records[id] = NoRecord =>
              Phase[id] = "absent" /\ Decider[id] = None /\ User[id] = None
BY DEF Phase, Decider, User

\* A replacement that keeps a field of the view leaves that view alone.
LEMMA ViewKept ==
  ASSUME NEW id \in Ids
  PROVE  /\ [Phase EXCEPT ![id] = Phase[id]] = Phase
         /\ [Decider EXCEPT ![id] = Decider[id]] = Decider
         /\ [User EXCEPT ![id] = User[id]] = User
BY DEF Phase, Decider, User

LEMMA OpeningOpens ==
  ASSUME TypeOK, NEW id \in Ids, Opened(id)
  PROVE  Lifecycle!Open(id)
<1>. DEFINE r == Pending(Request(id))
<1>1. r.status = "pending" /\ r.approver = None /\ r.consumer = None  BY DEF Pending
<1>2. Replaced(id, r) /\ records[id] = NoRecord  BY DEF Opened
<1>. HIDE DEF r
<1>3. /\ Phase' = [Phase EXCEPT ![id] = "pending"]
      /\ Decider' = [Decider EXCEPT ![id] = None] /\ User' = [User EXCEPT ![id] = None]
  BY <1>1, <1>2, ViewOfReplacement
<1>. QED  BY <1>2, <1>3, ViewAt, ViewKept DEF Lifecycle!Open

LEMMA ReplacementSteps ==
  ASSUME TypeOK, NEW id \in Ids, Replacement(id)
  PROVE  [Lifecycle!Next]_(Lifecycle!lifecycle)
<1>. DEFINE old == records[id]
<1>1. /\ old \in Records /\ old # NoRecord /\ Phase[id] = old.status
      /\ Decider[id] = old.approver /\ User[id] = old.consumer
  BY ViewAt DEF Replacement, TypeOK
<1>2. ASSUME NEW r, Replaced(id, r), r.status = old.status, r.approver = old.approver,
             r.consumer = old.consumer
      PROVE  [Lifecycle!Next]_(Lifecycle!lifecycle)
  BY <1>1, <1>2, ViewOfReplacement, ViewKept DEF Lifecycle!lifecycle
<1>3. CASE Replaced(id, Aged(old, clock))
  <2>1. CASE Overdue(old, clock)
    <3>. DEFINE r == [old EXCEPT !.status = "expired"]
    <3>1. Replaced(id, r) /\ old.status = "pending"  BY <1>3, <2>1 DEF Aged, Overdue
    <3>2. r.status = "expired" /\ r.approver = old.approver /\ r.consumer = old.consumer
      BY <1>1 DEF Records
    <3>. HIDE DEF r
    <3>3. Phase' = [Phase EXCEPT ![id] = "expired"] /\ Decider' = Decider /\ User' = User
      BY <1>1, <3>1, <3>2, ViewOfReplacement, ViewKept
    <3>4. Phase' = [i \in Ids |-> IF i \in {id} THEN "expired" ELSE Phase[i]]
      BY <3>3 DEF Phase
    <3>5. Lifecycle!Lapse({id})  BY <1>1, <3>1, <3>3, <3>4 DEF Lifecycle!Lapse
    <3>. QED  BY <3>5 DEF Lifecycle!Next
  <2>2. CASE ~Overdue(old, clock)
    BY <1>2, <1>3, <2>2 DEF Aged
  <2>. QED  BY <2>1, <2>2
<1>4. ASSUME NEW v \in Verdicts, NEW a \in Actors, old.status = "pending",
             Replaced(id, Decided(old, v, a, clock))
      PROVE  [Lifecycle!Next]_(Lifecycle!lifecycle)
  <2>. DEFINE r == Decided(old, v, a, clock)
  <2>1. r.status = v /\ r.approver = a /\ r.consumer = old.consumer
    BY <1>1 DEF Decided, Records
  <2>2. Replaced(id, r)  BY <1>4
  <2>. HIDE DEF r
  <2>3. /\ Phase' = [Phase EXCEPT ![id] = v] /\ Decider' = [Decider EXCEPT ![id] = a]
        /\ User' = User
    BY <1>1, <2>1, <2>2, ViewOfReplacement, ViewKept
  <2>4. Lifecycle!Decide(id, v, a)  BY <1>1, <1>4, <2>3 DEF Lifecycle!Decide
  <2>. QED  BY <2>4 DEF Lifecycle!Next, Verdicts
<1>5. ASSUME NEW e \in Executions, Consumable(old), Replaced(id, Consumed(old, e))
      PROVE  [Lifecycle!Next]_(Lifecycle!lifecycle)
  <2>. DEFINE r == Consumed(old, e)
  <2>1. r.status = "consumed" /\ r.approver = old.approver /\ r.consumer = e
    BY <1>1 DEF Consumed, Records
  <2>2. Replaced(id, r)  BY <1>5
  <2>. HIDE DEF r
  <2>3. /\ Phase' = [Phase EXCEPT ![id] = "consumed"] /\ User' = [User EXCEPT ![id] = e]
        /\ Decider' = Decider
    BY <1>1, <2>1, <2>2, ViewOfReplacement, ViewKept
  <2>4. Lifecycle!Use(id, e)  BY <1>1, <1>5, <2>3 DEF Lifecycle!Use, Consumable
  <2>. QED  BY <2>4 DEF Lifecycle!Next
<1>6. ASSUME NEW v \in Values, Replaced(id, [old EXCEPT !.input = v])
      PROVE  [Lifecycle!Next]_(Lifecycle!lifecycle)
  <2>. DEFINE r == [old EXCEPT !.input = v]
  <2>1. r.status = old.status /\ r.approver = old.approver /\ r.consumer = old.consumer
    BY <1>1 DEF Records
  <2>. QED  BY <1>2, <1>6, <2>1
<1>. QED  BY <1>3, <1>4, <1>5, <1>6 DEF Replacement

LEMMA NextRefines == IInv /\ [Next]_vars => [Lifecycle!Next]_(Lifecycle!lifecycle)
<1>. SUFFICES ASSUME IInv, [Next]_vars PROVE [Lifecycle!Next]_(Lifecycle!lifecycle)
  OBVIOUS
<1>1. TypeOK /\ RecordChanges  BY NextChanges DEF IInv
<1>2. CASE UNCHANGED records
  BY <1>2 DEF Lifecycle!lifecycle, Phase, Decider, User
<1>3. ASSUME NEW id \in Ids, Opened(id) \/ Replacement(id)
      PROVE  [Lifecycle!Next]_(Lifecycle!lifecycle)
  BY <1>1, <1>3, OpeningOpens, ReplacementSteps DEF Lifecycle!Next
<1>. QED  BY <1>1, <1>2, <1>3 DEF RecordChanges

LEMMA InitRefines == Init => Lifecycle!Init
BY DEF Init, Lifecycle!Init, Phase, Decider, User

\* Executions, approvers and the store together keep the promise of the
\* approval life cycle, although replies are lost and stored inputs drift.
THEOREM ImplementsLifecycle == Spec => KeepsLifecycle
BY InitRefines, NextRefines, Invariance, PTL DEF Spec, KeepsLifecycle, Lifecycle!Spec

-----------------------------------------------------------------------------
(***************************************************************************)
(* What is over stays over.                                                *)
(***************************************************************************)
\* Who finishes, or moves on, was not done.
LEMMA EnvelopeSteps ==
  ASSUME IInv, [Next]_vars, NEW f \in Executions, envelope[f] # None
  PROVE  envelope'[f] = envelope[f]
<1>1. TypeOK /\ pc[f] = "done"  BY Facts DEF Staged
<1>. USE DEF Fail, Finish, Goto
<1>2. ASSUME NEW e \in Executions, Begin(e) PROVE envelope'[f] = envelope[f]
  BY <1>1, <1>2 DEF Begin, Invoke, InvokeRefused, Resume, TypeOK
<1>3. ASSUME NEW e \in Executions, InvokeStep(e) PROVE envelope'[f] = envelope[f]
  BY <1>1, <1>3 DEF InvokeStep, InvocationPolicies, EnterGate, CreateApproval, InlineApproves,
     InlineFails, InlineDefers, InlineAsked, TypeOK
<1>4. ASSUME NEW e \in Executions, ResumeStep(e) PROVE envelope'[f] = envelope[f]
  BY <1>1, <1>4 DEF ResumeStep, LoadRecord, CheckFails, ChecksPass, ResolutionFails, Readmit,
     ResumePolicies, Consume, ConsumeFails, TypeOK
<1>5. ASSUME NEW e \in Executions, GovernedStep(e) PROVE envelope'[f] = envelope[f]
  BY <1>1, <1>5 DEF GovernedStep, ExecutionPolicies, EnterGate, EmitStarted, BeginAttempt,
     NoticeAbort, AttemptTimesOut, EndBackoff, TypeOK
<1>6. ASSUME NEW e \in Executions, HandlerStep(e) \/ Disturb(e) PROVE envelope'[f] = envelope[f]
  BY <1>1, <1>6 DEF HandlerStep, HandlerStarts, AbandonedCallEnds, CallSettles, Disturb,
     SeamThrows, LoadFails, CallerAborts, GuardedStages, GovernedStages, TypeOK
<1>7. CASE Environment
  BY <1>7 DEF Environment, Decide, Settle, StoreDrifts, Tick, execVars
<1>. QED  BY <1>2, <1>3, <1>4, <1>5, <1>6, <1>7 DEF Next, Proceed

\* Attempts are only begun at the head of the loop.
LEMMA AttemptSteps ==
  ASSUME IInv, [Next]_vars
  PROVE  UNCHANGED attempts \/ \E e \in Executions : BeginAttempt(e)
<1>1. ASSUME NEW e \in Executions, Begin(e) PROVE UNCHANGED attempts
  BY <1>1 DEF Begin, Invoke, InvokeRefused, Resume
<1>2. ASSUME NEW e \in Executions, Proceed(e) PROVE UNCHANGED attempts \/ BeginAttempt(e)
  BY <1>2 DEF Proceed, InvokeStep, InvocationPolicies, CreateApproval, InlineApproves,
     InlineFails, InlineDefers, ResumeStep, LoadRecord, CheckFails, ResolutionFails, Readmit,
     ResumePolicies, Consume, ConsumeFails, GovernedStep, ExecutionPolicies, EmitStarted,
     NoticeAbort, AttemptTimesOut, EndBackoff
<1>3. ASSUME NEW e \in Executions, HandlerStep(e) \/ Disturb(e) PROVE UNCHANGED attempts
  BY <1>3 DEF HandlerStep, HandlerStarts, AbandonedCallEnds, CallSettles, Disturb, SeamThrows,
     LoadFails, CallerAborts
<1>4. CASE Environment
  BY <1>4 DEF Environment, Decide, Settle, StoreDrifts, Tick, execVars
<1>. QED  BY <1>1, <1>2, <1>3, <1>4 DEF Next

\* Once the caller has aborted or has its envelope, no further attempt begins.
THEOREM AttemptsEnd == Spec => NoLateAttempt
<1>1. IInv /\ [Next]_vars =>
        [\A e \in Executions : aborted[e] \/ envelope[e] # None => attempts'[e] = attempts[e]]_vars
  <2>. SUFFICES ASSUME IInv, [Next]_vars, NEW e \in Executions, aborted[e] \/ envelope[e] # None
                PROVE  attempts'[e] = attempts[e]
    OBVIOUS
  <2>1. TypeOK /\ (envelope[e] # None => pc[e] = "done")  BY Facts DEF Staged
  <2>2. ASSUME NEW f \in Executions, BeginAttempt(f) PROVE attempts'[e] = attempts[e]
    BY <2>1, <2>2 DEF BeginAttempt, TypeOK
  <2>. QED  BY <2>2, AttemptSteps
<1>. QED  BY <1>1, Invariance, PTL DEF Spec, NoLateAttempt

\* Only the call of the running attempt completes an execution.
LEMMA CompletionSteps ==
  ASSUME IInv, [Next]_vars, NEW f \in Executions, envelope[f] = None, ~CallSettles(f),
         envelope'[f] # None
  PROVE  envelope'[f].status # "completed"
<1>1. TypeOK  BY Facts
<1>. USE DEF Fail, Finish, Goto
<1>2. ASSUME NEW e \in Executions, Begin(e) PROVE envelope'[f].status # "completed"
  BY <1>1, <1>2 DEF Begin, Invoke, InvokeRefused, Resume, TypeOK
<1>3. ASSUME NEW e \in Executions, InvokeStep(e) PROVE envelope'[f].status # "completed"
  BY <1>1, <1>3 DEF InvokeStep, InvocationPolicies, EnterGate, CreateApproval, InlineApproves,
     InlineFails, InlineDefers, InlineAsked, TypeOK
<1>4. ASSUME NEW e \in Executions, ResumeStep(e) PROVE envelope'[f].status # "completed"
  BY <1>1, <1>4 DEF ResumeStep, LoadRecord, CheckFails, ChecksPass, ResolutionFails, Readmit,
     ResumePolicies, Consume, ConsumeFails, TypeOK
<1>5. ASSUME NEW e \in Executions, GovernedStep(e) PROVE envelope'[f].status # "completed"
  BY <1>1, <1>5 DEF GovernedStep, ExecutionPolicies, EnterGate, EmitStarted, BeginAttempt,
     NoticeAbort, AttemptTimesOut, EndBackoff, TypeOK
<1>6. ASSUME NEW e \in Executions, HandlerStep(e) \/ Disturb(e)
      PROVE  envelope'[f].status # "completed"
  <2>1. CASE e # f
    BY <1>1, <1>6, <2>1 DEF HandlerStep, HandlerStarts, AbandonedCallEnds, CallSettles, Disturb,
       SeamThrows, LoadFails, CallerAborts, TypeOK
  <2>2. CASE e = f
    BY <1>1, <1>6, <2>2 DEF HandlerStep, HandlerStarts, AbandonedCallEnds, Disturb,
       SeamThrows, LoadFails, CallerAborts, TypeOK
  <2>. QED  BY <2>1, <2>2
<1>7. CASE Environment
  BY <1>7 DEF Environment, Decide, Settle, StoreDrifts, Tick, execVars
<1>8. CASE UNCHANGED vars  BY <1>8 DEF vars
<1>. QED  BY <1>2, <1>3, <1>4, <1>5, <1>6, <1>7, <1>8 DEF Next, Proceed

\* A call that has ended has ended, and who is done is no longer aborted.
LEMMA EndedStays ==
  ASSUME IInv, [Next]_vars, NEW f \in Executions, pc[f] = "done",
         NEW i \in Attempts, call[f][i] = "ended"
  PROVE  call'[f][i] = "ended" /\ aborted'[f] = aborted[f]
<1>1. TypeOK  BY Facts
<1>2. ASSUME NEW e \in Executions, Begin(e) PROVE UNCHANGED <<call, aborted>>
  BY <1>2 DEF Begin, Invoke, InvokeRefused, Resume
<1>3. ASSUME NEW e \in Executions, InvokeStep(e) PROVE UNCHANGED <<call, aborted>>
  BY <1>3 DEF InvokeStep, InvocationPolicies, CreateApproval, InlineApproves,
     InlineFails, InlineDefers
<1>4. ASSUME NEW e \in Executions, ResumeStep(e) PROVE UNCHANGED <<call, aborted>>
  BY <1>4 DEF ResumeStep, LoadRecord, CheckFails, ResolutionFails, Readmit,
     ResumePolicies, Consume, ConsumeFails
<1>5. ASSUME NEW e \in Executions, GovernedStep(e), ~BeginAttempt(e)
      PROVE  UNCHANGED <<call, aborted>>
  BY <1>5 DEF GovernedStep, ExecutionPolicies, EmitStarted, NoticeAbort, AttemptTimesOut,
     EndBackoff
<1>6. ASSUME NEW e \in Executions, BeginAttempt(e)
      PROVE  call'[f][i] = "ended" /\ aborted'[f] = aborted[f]
  BY <1>1, <1>6 DEF BeginAttempt, TypeOK
<1>7. ASSUME NEW e \in Executions, HandlerStep(e)
      PROVE  call'[f][i] = "ended" /\ aborted'[f] = aborted[f]
  <2>1. ASSUME NEW k \in Attempts, HandlerStarts(e, k) \/ AbandonedCallEnds(e, k)
        PROVE  call'[f][i] = "ended" /\ aborted'[f] = aborted[f]
    <3>1. aborted' = aborted /\ call[e][k] # "ended"
      BY <2>1 DEF HandlerStarts, AbandonedCallEnds
    <3>2. \E s \in CallStates : call' = [call EXCEPT ![e][k] = s]
      BY <2>1 DEF HandlerStarts, AbandonedCallEnds, CallStates
    <3>3. e # f \/ k # i  BY <3>1
    <3>. QED  BY <1>1, <3>1, <3>2, <3>3 DEF TypeOK
  <2>2. CASE CallSettles(e)
    BY <1>1, <2>2 DEF CallSettles, TypeOK
  <2>. QED  BY <1>7, <2>1, <2>2 DEF HandlerStep
<1>8. ASSUME NEW e \in Executions, Disturb(e)
      PROVE  call'[f][i] = "ended" /\ aborted'[f] = aborted[f]
  BY <1>1, <1>8 DEF Disturb, SeamThrows, LoadFails, CallerAborts, TypeOK
<1>9. CASE Environment
  BY <1>9 DEF Environment, Decide, Settle, StoreDrifts, Tick, execVars
<1>10. CASE UNCHANGED vars  BY <1>10 DEF vars, runVars
<1>. QED
  BY <1>2, <1>3, <1>4, <1>5, <1>6, <1>7, <1>8, <1>9, <1>10 DEF Next, Proceed

LEMMA DroppedSteps == IInv /\ LateResultsAreDropped /\ [Next]_vars => LateResultsAreDropped'
<1>. SUFFICES ASSUME IInv, LateResultsAreDropped, [Next]_vars, NEW e \in Executions,
                     envelope'[e] # None, envelope'[e].status = "completed"
              PROVE  /\ ~aborted'[e] /\ attempts'[e] > 0
                     /\ call'[e][attempts'[e]] = "ended"
  BY DEF LateResultsAreDropped, Sent, EffectStarted
<1>1. TypeOK /\ Staged(e)  BY Facts
<1>2. CASE envelope[e] # None
  <2>1. envelope'[e] = envelope[e] /\ pc[e] = "done"  BY <1>1, <1>2, EnvelopeSteps DEF Staged
  <2>2. attempts'[e] = attempts[e]
    BY <1>1, <2>1, AttemptSteps DEF BeginAttempt, TypeOK
  <2>3. ~aborted[e] /\ attempts[e] \in Attempts /\ call[e][attempts[e]] = "ended"
    BY <1>1, <1>2, <2>1, PipelineConstants
    DEF LateResultsAreDropped, Sent, EffectStarted, TypeOK, Attempts
  <2>. QED  BY <2>1, <2>2, <2>3, EndedStays DEF Attempts
<1>3. CASE envelope[e] = None
  <2>1. CallSettles(e)  BY <1>3, CompletionSteps
  <2>2. /\ attempts[e] \in Attempts /\ ~aborted[e] /\ UNCHANGED <<attempts, aborted>>
    BY <1>1, <2>1, PipelineConstants DEF CallSettles, Staged, TypeOK, Attempts
  <2>3. call' = [call EXCEPT ![e][attempts[e]] = "ended"]
    <3>1. \A code : ~Fail(e, code)
      BY <1>1 DEF Fail, Finish, TypeOK
    <3>2. ~Goto(e, "backoff")  BY <1>3 DEF Goto
    <3>. QED  BY <2>1, <3>1, <3>2 DEF CallSettles
  <2>4. call[e] \in [Attempts -> CallStates] /\ call'[e] = [call[e] EXCEPT ![attempts[e]] = "ended"]
    BY <1>1, <2>3 DEF TypeOK
  <2>5. call'[e][attempts[e]] = "ended"  BY <2>2, <2>4
  <2>6. attempts[e] > 0  BY <2>2, PipelineConstants DEF Attempts
  <2>. QED  BY <2>2, <2>5, <2>6
<1>. QED  BY <1>2, <1>3

\* A completed execution was not aborted, and the call of its last attempt is
\* what completed it, whatever earlier attempts left running.
THEOREM LateResultsDrop == Spec => []LateResultsAreDropped
<1>1. Init => LateResultsAreDropped  BY DEF Init, LateResultsAreDropped
<1>. QED  BY <1>1, DroppedSteps, Invariance, PTL DEF Spec

-----------------------------------------------------------------------------
(***************************************************************************)
(* What was approved is what is handed over.  A copy carries the hash of   *)
(* its record for good (Bound), re-admission compares the copy's input     *)
(* with it, and nothing sets raw afterwards.                               *)
(***************************************************************************)
Faithful(e) ==
  raw[e] # None =>
    /\ target[e] \in Ids /\ records[target[e]] # NoRecord
    /\ raw[e] = records[target[e]].hash

Provenance == \A e \in Resumptions : Faithful(e)

LEMMA HashesStay ==
  ASSUME IInv, [Next]_vars, NEW id \in Ids, records[id] # NoRecord
  PROVE  records'[id] # NoRecord /\ records'[id].hash = records[id].hash
<1>1. TypeOK /\ RecordChanges /\ records[id] \in Records  BY NextChanges DEF IInv, TypeOK
<1>2. CASE UNCHANGED records  BY <1>2
<1>3. ASSUME NEW i \in Ids, Opened(i) PROVE records'[id] = records[id]
  BY <1>1, <1>3 DEF Opened, Replaced, TypeOK
<1>4. ASSUME NEW i \in Ids, Replacement(i)
      PROVE  records'[id] # NoRecord /\ records'[id].hash = records[id].hash
  <2>1. CASE i # id
    BY <1>1, <1>4, <2>1 DEF Replacement, Replaced, TypeOK
  <2>2. CASE i = id
    <3>1. /\ Aged(records[id], clock).hash = records[id].hash
          /\ \A v \in Verdicts, a \in Actors :
               Decided(records[id], v, a, clock).hash = records[id].hash
          /\ \A e \in Executions : Consumed(records[id], e).hash = records[id].hash
          /\ \A v \in Values : [records[id] EXCEPT !.input = v].hash = records[id].hash
      BY <1>1 DEF Aged, Decided, Consumed, Records
    <3>2. \E r : Replaced(id, r) /\ r.hash = records[id].hash
      BY <1>4, <2>2, <3>1 DEF Replacement
    <3>. QED  BY <1>1, <3>2, NoRecordIsNoRecord DEF Replaced, TypeOK
  <2>. QED  BY <2>1, <2>2
<1>. QED  BY <1>1, <1>2, <1>3, <1>4 DEF RecordChanges

\* The steps that change what an execution hands over, and for which approval.
Quiet == UNCHANGED <<raw, target>>

Enters(e) ==
  \/ \E m \in Capabilities \cup {None}, a \in Actors \cup {None}, v \in Values :
       e \in Invocations /\ Invoke(e, m, a, v)
  \/ \E g \in Actors \cup {None}, m \in Capabilities \cup {None} :
       e \in Resumptions /\ Readmit(e, g, m)
  \/ \E id \in Ids : e \in Resumptions /\ Resume(e, id)

LEMMA EntrySteps ==
  ASSUME IInv, [Next]_vars
  PROVE  Quiet \/ \E e \in Executions : Enters(e)
<1>1. ASSUME NEW e \in Executions, Begin(e) PROVE Quiet \/ Enters(e)
  <2>1. ASSUME NEW m \in Capabilities \cup {None}, NEW a \in Actors \cup {None},
               NEW v \in Values, InvokeRefused(e, m, a, v)
        PROVE  Quiet
    BY <2>1 DEF InvokeRefused, Quiet
  <2>. QED  BY <1>1, <2>1 DEF Begin, Enters
<1>2. ASSUME NEW e \in Executions, InvokeStep(e) PROVE Quiet
  BY <1>2 DEF InvokeStep, InvocationPolicies, CreateApproval, InlineApproves,
              InlineFails, InlineDefers, Quiet
<1>3. ASSUME NEW e \in Resumptions, ResumeStep(e) PROVE Quiet \/ Enters(e)
  <2>1. ASSUME NEW g \in Actors \cup {None}, NEW m \in Capabilities \cup {None},
               ResolutionFails(e, g, m)
        PROVE  Quiet
    BY <2>1 DEF ResolutionFails, Quiet
  <2>2. ASSUME NEW g \in Actors \cup {None}, CheckFails(e, g) PROVE Quiet
    BY <2>2 DEF CheckFails, Quiet
  <2>3. ASSUME LoadRecord(e) \/ (\E o \in Outcomes : ResumePolicies(e, o)) \/ Consume(e)
                \/ \E landed \in BOOLEAN : ConsumeFails(e, landed)
        PROVE  Quiet
    BY <2>3 DEF LoadRecord, ResumePolicies, Consume, ConsumeFails, Quiet
  <2>. QED  BY <1>3, <2>1, <2>2, <2>3 DEF ResumeStep, Enters
<1>4. ASSUME NEW e \in Executions, GovernedStep(e) PROVE Quiet
  BY <1>4 DEF GovernedStep, ExecutionPolicies, EmitStarted, BeginAttempt, NoticeAbort,
              AttemptTimesOut, EndBackoff, Quiet
<1>5. ASSUME NEW e \in Executions, HandlerStep(e) \/ Disturb(e) PROVE Quiet
  BY <1>5 DEF HandlerStep, HandlerStarts, AbandonedCallEnds, CallSettles, Disturb, SeamThrows,
              LoadFails, CallerAborts, Quiet
<1>6. CASE Environment
  BY <1>6 DEF Environment, Decide, Settle, StoreDrifts, Tick, execVars, Quiet
<1>7. CASE UNCHANGED vars  BY <1>7 DEF Quiet
<1>8. ASSUME NEW e \in Executions, Proceed(e) PROVE Quiet \/ Enters(e)
  BY <1>2, <1>3, <1>4, <1>8 DEF Proceed
<1>. QED  BY <1>1, <1>5, <1>6, <1>7, <1>8 DEF Next

\* What was handed over, or will be, stays faithful to a record that progresses.
LEMMA FaithfulStays ==
  ASSUME IInv, [Next]_vars, NEW f \in Resumptions, Faithful(f),
         raw'[f] = raw[f], target'[f] = target[f]
  PROVE  Faithful(f)'
BY HashesStay DEF Faithful

LEMMA EntersKeeps ==
  ASSUME IInv, [Next]_vars, Provenance, NEW e \in Executions, Enters(e)
  PROVE  Provenance'
<1>1. /\ TypeOK /\ Staged(e) /\ (e \in Resumptions => Bound(e))
  BY Facts
<1>2. \A f \in Executions \ {e} : raw'[f] = raw[f] /\ target'[f] = target[f]
  BY <1>1 DEF Enters, Invoke, Readmit, Resume, TypeOK
<1>3. e \in Resumptions => Faithful(e)'
  <2>1. ASSUME NEW m \in Capabilities \cup {None}, NEW a \in Actors \cup {None},
               NEW v \in Values, e \in Invocations, Invoke(e, m, a, v)
        PROVE  e \notin Resumptions
    BY <2>1, PipelineConstants
  <2>2. ASSUME NEW g \in Actors \cup {None}, NEW m \in Capabilities \cup {None},
               e \in Resumptions, Readmit(e, g, m)
        PROVE  Faithful(e)'
    <3>1. ChecksPass(e, g) /\ pc[e] = "check"  BY <2>2 DEF Readmit, ChecksPass
    <3>2. copy[e] # NoRecord /\ copy[e] \in Records /\ copy[e].input = copy[e].hash
      BY <1>1, <2>2, <3>1, ChecksEstablish DEF Bound
    <3>3. raw'[e] = copy[e].input /\ target'[e] = target[e] /\ records' = records
      BY <1>1, <2>2 DEF Readmit, storeVars, resumeVars, TypeOK
    <3>. QED  BY <1>1, <2>2, <3>2, <3>3 DEF Faithful, Bound, SameRequest, TypeOK
  <2>3. ASSUME NEW id \in Ids, e \in Resumptions, Resume(e, id) PROVE Faithful(e)'
    BY <1>1, <2>3 DEF Resume, Staged, Faithful
  <2>. QED  BY <2>1, <2>2, <2>3 DEF Enters
<1>4. ASSUME NEW f \in Resumptions PROVE Faithful(f)'
  BY <1>2, <1>3, <1>4, Facts, FaithfulStays DEF Provenance
<1>. QED  BY <1>4 DEF Provenance

LEMMA ProvenanceSteps == IInv /\ Provenance /\ [Next]_vars => Provenance'
<1>. SUFFICES ASSUME IInv, Provenance, [Next]_vars PROVE Provenance'
  OBVIOUS
<1>1. CASE Quiet
  BY <1>1, FaithfulStays DEF Provenance, Quiet
<1>2. ASSUME NEW e \in Executions, Enters(e) PROVE Provenance'
  BY <1>2, EntersKeeps
<1>. QED  BY <1>1, <1>2, EntrySteps

\* What a resumption hands to oRPC is the value hashed for the approval,
\* although the store drifts and other versions are deployed meanwhile.
THEOREM ApprovedInput == Spec => []ApprovedInputIsHandedOver
<1>1. Init => IInv /\ Provenance
  BY InitEstablishes, PipelineConstants DEF Init, Provenance, Faithful
<1>2. IInv /\ Provenance /\ [Next]_vars => (IInv /\ Provenance)'
  BY NextPreserves, ProvenanceSteps
<1>3. IInv /\ Provenance => ApprovedInputIsHandedOver
  <2>. SUFFICES ASSUME IInv, Provenance, NEW e \in Resumptions, Sent(e)
                PROVE  raw[e] = records[target[e]].hash
    BY DEF ApprovedInputIsHandedOver
  <2>1. raw[e] # None  BY Facts DEF Staged, Admitted
  <2>. QED  BY <2>1 DEF Provenance, Faithful
<1>. QED  BY <1>1, <1>2, <1>3, PTL DEF Spec
=============================================================================
