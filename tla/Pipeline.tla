------------------------------ MODULE Pipeline ------------------------------
(***************************************************************************)
(* The governed pipeline of the runtime (core/src/runtime/pipeline.ts):    *)
(* runtime.invoke and runtime.resume as concurrent executions over one     *)
(* approval coordinator.                                                   *)
(*                                                                         *)
(* An execution is a JavaScript async function.  It is cut at the awaits   *)
(* behind which something else can change what it read or what it is about *)
(* to do: the policies, the inline approval handler, the coordinator, the  *)
(* strict audit write, the handler call and the back-off.  What runs       *)
(* between two of them is one action.  Awaits that touch nothing shared    *)
(* (schema validation, hashing) are part of the action around them.        *)
(*                                                                         *)
(* Every execution may belong to another process and another deployment:   *)
(* it carries the capability metadata of its own registry.                 *)
(***************************************************************************)
EXTENDS ApprovalRecords, FiniteSets

CONSTANTS
  Invocations,         \* executions that are calls of runtime.invoke
  Resumptions,         \* executions that are calls of runtime.resume
  Capabilities,        \* the deployed versions of the capability
  Identities,          \* actor ids
  IdOf,                \* IdOf[a]: the id of actor a, shared by kinds
  Unserializable,      \* values with no canonical JSON
  MaxAttempts,         \* bound on the attempts of one execution
  Window,              \* the decision window of an approval
  MaxClock,            \* bound on time
  RejectSelfApproval,  \* options.approvals.rejectSelfApproval
  InlineHandler,       \* an options.approvals.handler is configured
  StrictAudit,         \* options.audit.strict
  SeamsMayThrow        \* injected clock or tracing functions may throw

\* A version: exposed on the surface, meta.approval.required, write-like side
\* effect, meta.idempotent, meta.retry.maxAttempts, and its input schema:
\* parse[v] is the value the schema makes of v, None when it reports issues.
CapabilityMeta ==
  [exposed : BOOLEAN, gated : BOOLEAN, write : BOOLEAN, idempotent : BOOLEAN,
   retries : Nat, parse : [Values -> Values \cup {None}]]

ASSUME PipelineConstants ==
  /\ Executions = Invocations \cup Resumptions
  /\ Invocations \cap Resumptions = {}
  /\ Ids = Invocations      \* a gate mints one id: named after its execution
  /\ IdOf \in [Actors -> Identities]
  /\ Unserializable \subseteq Values
  /\ MaxAttempts \in Nat /\ Window \in Nat /\ MaxClock \in Nat
  /\ Capabilities \subseteq CapabilityMeta
  /\ \A m \in Capabilities : m.retries < MaxAttempts
  /\ {RejectSelfApproval, InlineHandler, StrictAudit, SeamsMayThrow} \subseteq BOOLEAN

VARIABLES
  records,    \* the coordinator's records
  clock,      \* now()
  pc,         \* where each execution stands
  meta,       \* meta[e]: the capability e resolved, None if there is none
  actor,      \* actor[e]: whom it runs as, None when malformed
  raw,        \* raw[e]: inputForCall
  validated,  \* validated[e]: validatedInput
  demanded,   \* demanded[e]: an approval was demanded of e
  deadline,   \* deadline[e]: expiresAt computed on entering the gate
  target,     \* target[e]: the approval id a resumption was called with
  copy,       \* copy[e]: the record it read, never read again
  approval,   \* approval[e]: frame.approval
  attempts,   \* attempts[e]: attempts begun; effectStarted once positive
  call,       \* call[e][k]: the handler call of attempt k
  aborted,    \* aborted[e]: the caller's signal
  recorded,   \* recorded[e]: capability.started is durable
  envelope    \* envelope[e]: the ExecutionResult returned, or None

storeVars  == <<records, clock>>
entryVars  == <<meta, actor, raw, validated>>
gateVars   == <<demanded, deadline>>
resumeVars == <<target, copy>>
runVars    == <<attempts, call, aborted, recorded>>
vars == <<storeVars, pc, entryVars, gateVars, resumeVars, approval, runVars, envelope>>

Attempts == 1..MaxAttempts

\* A call is sent to oRPC, may be refused before the handler (middleware,
\* in-call input validation), and otherwise runs and ends.
CallStates == {"none", "sent", "refused", "running", "ended"}

\* Inside executeGoverned, whose promise the pipelines return un-awaited.
GovernedStages == {"inlineLate", "governed", "audit", "loop", "calling", "backoff"}

\* Inside the try block of invokePipeline or resumePipeline.
GuardedStages == {"policies", "inline", "check", "repolicies"}

Finished == {"done", "thrown"}

Stages == {"idle", "load", "create", "consume"} \cup GovernedStages \cup GuardedStages \cup Finished

\* The error codes the pipeline itself reports; "OK" and "SUSPENDED" stand for
\* the two outcomes that carry no error.
Codes ==
  {"OK", "SUSPENDED", "CANCELLED", "TIMEOUT", "CAPABILITY_NOT_FOUND",
   "INPUT_INVALID", "UNAUTHENTICATED", "FORBIDDEN", "POLICY_DENIED", "POLICY_FAILED",
   "APPROVAL_PENDING", "APPROVAL_REJECTED", "APPROVAL_EXPIRED", "APPROVAL_CONSUMED",
   "APPROVAL_INPUT_MISMATCH", "APPROVAL_SELF_APPROVAL", "APPROVAL_RESUME_MISMATCH",
   "APPROVAL_UNSERIALIZABLE_INPUT", "EXECUTION_FAILED", "OUTPUT_INVALID",
   "AUDIT_UNAVAILABLE", "INTERNAL_ERROR"}

Envelopes ==
  [status : {"completed", "failed", "cancelled", "approval-required"},
   code : Codes, effect : {"none", "unknown"}]

Approvals == [id : Ids, approver : Actors]

\* None stands for undefined, which is none of the things it replaces.
ASSUME NoneIsAbsent ==
  None \notin Capabilities /\ None \notin Envelopes /\ None \notin Approvals

TypeOK ==
  /\ records \in [Ids -> Records \cup {NoRecord}]
  /\ clock \in Nat
  /\ pc \in [Executions -> Stages]
  /\ meta \in [Executions -> Capabilities \cup {None}]
  /\ actor \in [Executions -> Actors \cup {None}]
  /\ raw \in [Executions -> Values \cup {None}]
  /\ validated \in [Executions -> Values \cup {None}]
  /\ demanded \in [Executions -> BOOLEAN]
  /\ deadline \in [Executions -> Nat]
  /\ target \in [Executions -> Ids \cup {None}]
  /\ copy \in [Executions -> Records \cup {NoRecord}]
  /\ approval \in [Executions -> Approvals \cup {None}]
  /\ attempts \in [Executions -> 0..MaxAttempts]
  /\ call \in [Executions -> [Attempts -> CallStates]]
  /\ aborted \in [Executions -> BOOLEAN]
  /\ recorded \in [Executions -> BOOLEAN]
  /\ envelope \in [Executions -> Envelopes \cup {None}]

Init ==
  /\ records = [id \in Ids |-> NoRecord]
  /\ clock = 0
  /\ pc = [e \in Executions |-> "idle"]
  /\ meta = [e \in Executions |-> None]
  /\ actor = [e \in Executions |-> None]
  /\ raw = [e \in Executions |-> None]
  /\ validated = [e \in Executions |-> None]
  /\ demanded = [e \in Executions |-> FALSE]
  /\ deadline = [e \in Executions |-> 0]
  /\ target = [e \in Executions |-> None]
  /\ copy = [e \in Executions |-> NoRecord]
  /\ approval = [e \in Executions |-> None]
  /\ attempts = [e \in Executions |-> 0]
  /\ call = [e \in Executions |-> [k \in Attempts |-> "none"]]
  /\ aborted = [e \in Executions |-> FALSE]
  /\ recorded = [e \in Executions |-> FALSE]
  /\ envelope = [e \in Executions |-> None]

-----------------------------------------------------------------------------
Goto(e, stage) == pc' = [pc EXCEPT ![e] = stage] /\ UNCHANGED envelope

\* frame.effectStarted is set in the same block that counts the attempt.
EffectStarted(e) == attempts[e] > 0

\* Mutated: only failures, not cancellations, warn of a possible effect.
FinishForgetful(e, status, code) ==
  /\ pc' = [pc EXCEPT ![e] = "done"]
  /\ envelope' = [envelope EXCEPT ![e] =
       [status |-> status, code |-> code,
        effect |-> IF status = "failed" /\ EffectStarted(e) THEN "unknown" ELSE "none"]]

\* The finalizers: one envelope, effectStatus "unknown" once the effect may
\* have started.
Finish(e, status, code) ==
  /\ pc' = [pc EXCEPT ![e] = "done"]
  /\ envelope' = [envelope EXCEPT ![e] =
       [status |-> status, code |-> code,
        effect |-> IF status # "completed" /\ EffectStarted(e) THEN "unknown" ELSE "none"]]

Fail(e, code) == Finish(e, "failed", code)

(***************************************************************************)
(* Stages 2 to 6 of invoke: identity, resolution, exposure, validation,    *)
(* actor.  m is None for an unknown capability, a for a malformed actor.   *)
(***************************************************************************)
Visible(m) == m # None /\ m.exposed

InvokeRefused(e, m, a, v) ==
  /\ pc[e] = "idle"
  /\ \/ ~Visible(m) /\ Fail(e, "CAPABILITY_NOT_FOUND")
     \/ Visible(m) /\ m.parse[v] = None /\ Fail(e, "INPUT_INVALID")
     \/ Visible(m) /\ m.parse[v] # None /\ a = None /\ Fail(e, "UNAUTHENTICATED")
  /\ UNCHANGED <<storeVars, entryVars, gateVars, resumeVars, approval, runVars>>

Invoke(e, m, a, v) ==
  /\ pc[e] = "idle"
  /\ Visible(m) /\ m.parse[v] # None /\ a # None
  /\ meta' = [meta EXCEPT ![e] = m]
  /\ actor' = [actor EXCEPT ![e] = a]
  /\ raw' = [raw EXCEPT ![e] = v]
  /\ validated' = [validated EXCEPT ![e] = m.parse[v]]
  /\ Goto(e, "policies")
  /\ UNCHANGED <<storeVars, gateVars, resumeVars, approval, runVars>>

\* approvalGate up to its first await.  expiresAt is fixed here, before the
\* inline handler is asked and before the record is created.
EnterGate(e, inlineStage) ==
  /\ demanded' = [demanded EXCEPT ![e] = TRUE]
  /\ \/ /\ validated[e] \in Unserializable
        /\ Fail(e, "APPROVAL_UNSERIALIZABLE_INPUT")
        /\ UNCHANGED deadline
     \/ /\ validated[e] \notin Unserializable
        /\ deadline' = [deadline EXCEPT ![e] = clock + Window]
        /\ Goto(e, IF InlineHandler THEN inlineStage ELSE "create")

\* The outcome of a policy batch after precedence: failure > deny > hide >
\* require-approval > allow.
Refusals == {"POLICY_FAILED", "POLICY_DENIED", "CAPABILITY_NOT_FOUND"}
Outcomes == Refusals \cup {"require-approval", "allow"}

\* Stages 7 and 8 of invoke.
InvocationPolicies(e, outcome) ==
  /\ pc[e] = "policies"
  /\ \/ outcome \in Refusals /\ Fail(e, outcome) /\ UNCHANGED gateVars
     \/ /\ outcome = "require-approval" \/ (outcome = "allow" /\ meta[e].gated)
        /\ EnterGate(e, "inline")
     \/ /\ outcome = "allow" /\ ~meta[e].gated
        /\ Goto(e, "governed") /\ UNCHANGED gateVars
  /\ UNCHANGED <<storeVars, entryVars, resumeVars, approval, runVars>>

\* Stage 9: execution-phase policies, also when there are none ("allow").
\* An approval, once present, satisfies require-approval.
ExecutionPolicies(e, outcome) ==
  /\ pc[e] = "governed"
  /\ \/ outcome \in Refusals /\ Fail(e, outcome) /\ UNCHANGED gateVars
     \/ outcome = "require-approval" /\ approval[e] = None /\ EnterGate(e, "inlineLate")
     \/ /\ outcome = "allow" \/ (outcome = "require-approval" /\ approval[e] # None)
        /\ Goto(e, "audit") /\ UNCHANGED gateVars
  /\ UNCHANGED <<storeVars, entryVars, resumeVars, approval, runVars>>

-----------------------------------------------------------------------------
(***************************************************************************)
(* Stage 8 after its first await.  "inline" is the gate of stage 8, whose  *)
(* exceptions invokePipeline catches; "inlineLate" the one entered from    *)
(* stage 9, whose exceptions nobody catches.                               *)
(***************************************************************************)
SelfApproved(approver, requester) ==
  RejectSelfApproval /\ IdOf[approver] = IdOf[requester]

AfterGate(e) == IF pc[e] = "inline" THEN "governed" ELSE "audit"

InlineAsked(e) == pc[e] \in {"inline", "inlineLate"}

\* Mutated: the inline path does not check for self-approval.
InlineApprovesAnyone(e, approver) ==
  /\ InlineAsked(e)
  /\ approval' = [approval EXCEPT ![e] = [id |-> e, approver |-> approver]]
  /\ Goto(e, AfterGate(e))
  /\ UNCHANGED <<storeVars, entryVars, gateVars, resumeVars, runVars>>

InlineApproves(e, approver) ==
  /\ InlineAsked(e)
  /\ \/ /\ SelfApproved(approver, actor[e])
        /\ Fail(e, "APPROVAL_SELF_APPROVAL")
        /\ UNCHANGED approval
     \/ /\ ~SelfApproved(approver, actor[e])
        /\ approval' = [approval EXCEPT ![e] = [id |-> e, approver |-> approver]]
        /\ Goto(e, AfterGate(e))
  /\ UNCHANGED <<storeVars, entryVars, gateVars, resumeVars, runVars>>

\* The handler rejects, throws, or returns an invalid decision.
InlineFails(e, code) ==
  /\ InlineAsked(e)
  /\ code \in {"APPROVAL_REJECTED", "INTERNAL_ERROR"}
  /\ Fail(e, code)
  /\ UNCHANGED <<storeVars, entryVars, gateVars, resumeVars, approval, runVars>>

\* The handler returns undefined: the request goes to the coordinator.
InlineDefers(e) ==
  /\ InlineAsked(e)
  /\ Goto(e, "create")
  /\ UNCHANGED <<storeVars, entryVars, gateVars, resumeVars, approval, runVars>>

Request(e) ==
  [requester |-> actor[e], input |-> validated[e], hash |-> validated[e],
   expiresAt |-> deadline[e]]

\* coordinator.create.  The record may exist although the call failed: the
\* reply, not the insert, was lost.
CreateApproval(e, landed, answered) ==
  /\ pc[e] = "create"
  /\ answered => landed
  /\ \/ landed /\ records' = [records EXCEPT ![e] = Pending(Request(e))]
     \/ ~landed /\ UNCHANGED records
  /\ \/ answered /\ Finish(e, "approval-required", "SUSPENDED")
     \/ ~answered /\ Fail(e, "INTERNAL_ERROR")
  /\ UNCHANGED <<clock, entryVars, gateVars, resumeVars, approval, runVars>>

-----------------------------------------------------------------------------
(***************************************************************************)
(* resume: the record is read once; every later check is about that copy.  *)
(***************************************************************************)
Resume(e, id) ==
  /\ pc[e] = "idle"
  /\ target' = [target EXCEPT ![e] = id]
  /\ Goto(e, "load")
  /\ UNCHANGED <<storeVars, entryVars, gateVars, copy, approval, runVars>>

\* coordinator.get, which settles an expiry.
LoadRecord(e) ==
  LET id == target[e] IN
  /\ pc[e] = "load"
  /\ \/ /\ records[id] = NoRecord
        /\ Fail(e, "INTERNAL_ERROR")
        /\ UNCHANGED <<records, copy>>
     \/ /\ records[id] # NoRecord
        /\ records' = [records EXCEPT ![id] = Aged(@, clock)]
        /\ copy' = [copy EXCEPT ![e] = Aged(records[id], clock)]
        /\ Goto(e, "check")
  /\ UNCHANGED <<clock, entryVars, gateVars, target, approval, runVars>>

\* coordinator.get is awaited outside the try block.
LoadFails(e) ==
  /\ SeamsMayThrow
  /\ pc[e] = "load"
  /\ Goto(e, "thrown")
  /\ UNCHANGED <<storeVars, entryVars, gateVars, resumeVars, approval, runVars>>

\* Mutated: one of the integrity checks is missing.
CheckOrderWithoutRehash ==
  <<"APPROVAL_RESUME_MISMATCH", "APPROVAL_PENDING", "APPROVAL_REJECTED",
    "APPROVAL_CONSUMED", "APPROVAL_EXPIRED", "APPROVAL_SELF_APPROVAL">>

\* The binding guard, which comes first so that a stranger learns nothing,
\* then the integrity checks, in the order of the code.
CheckOrder ==
  <<"APPROVAL_RESUME_MISMATCH", "APPROVAL_PENDING", "APPROVAL_REJECTED",
    "APPROVAL_CONSUMED", "APPROVAL_EXPIRED", "APPROVAL_SELF_APPROVAL",
    "APPROVAL_INPUT_MISMATCH">>

Violates(e, expected, code) ==
  LET r == copy[e] IN
  \/ code = "APPROVAL_RESUME_MISMATCH" /\ expected \notin {None, r.requester}
  \/ code = "APPROVAL_PENDING" /\ r.status = "pending"
  \/ code = "APPROVAL_REJECTED" /\ r.status = "rejected"
  \/ code = "APPROVAL_CONSUMED" /\ r.status = "consumed"
  \/ code = "APPROVAL_EXPIRED" /\ (r.status = "expired" \/ clock > r.expiresAt)
  \/ /\ code = "APPROVAL_SELF_APPROVAL"
     /\ r.approver # None /\ SelfApproved(r.approver, r.requester)
  \/ code = "APPROVAL_INPUT_MISMATCH" /\ r.input # r.hash

\* expected is options.expectedActor, None when trusted code omits it.
CheckFails(e, expected) ==
  /\ pc[e] = "check"
  /\ \E i \in DOMAIN CheckOrder :
       /\ Violates(e, expected, CheckOrder[i])
       /\ \A j \in 1..(i - 1) : ~Violates(e, expected, CheckOrder[j])
       /\ Fail(e, CheckOrder[i])
  /\ UNCHANGED <<storeVars, entryVars, gateVars, resumeVars, approval, runVars>>

ChecksPass(e, expected) ==
  pc[e] = "check" /\ \A i \in DOMAIN CheckOrder : ~Violates(e, expected, CheckOrder[i])

\* Resolution, exposure and validation against the CURRENT registry, in which
\* the capability is m.
ResolutionFails(e, expected, m) ==
  /\ ChecksPass(e, expected)
  /\ \/ ~Visible(m) /\ Fail(e, "CAPABILITY_NOT_FOUND")
     \/ Visible(m) /\ m.parse[copy[e].input] = None /\ Fail(e, "INPUT_INVALID")
  /\ UNCHANGED <<storeVars, entryVars, gateVars, resumeVars, approval, runVars>>

\* Everything the frame takes from the record is fixed from here on: it runs
\* as expectedActor, when given, else as the record's actor.
Readmit(e, expected, m) ==
  /\ ChecksPass(e, expected)
  /\ Visible(m) /\ m.parse[copy[e].input] # None
  /\ meta' = [meta EXCEPT ![e] = m]
  /\ actor' = [actor EXCEPT ![e] = IF expected # None THEN expected ELSE copy[e].requester]
  /\ raw' = [raw EXCEPT ![e] = copy[e].input]
  /\ validated' = [validated EXCEPT ![e] = m.parse[copy[e].input]]
  /\ Goto(e, "repolicies")
  /\ UNCHANGED <<storeVars, gateVars, resumeVars, approval, runVars>>

\* The invocation policies again; the approval satisfies require-approval.
ResumePolicies(e, outcome) ==
  /\ pc[e] = "repolicies"
  /\ \/ outcome \in Refusals /\ Fail(e, outcome)
     \/ outcome \notin Refusals /\ Goto(e, "consume")
  /\ UNCHANGED <<storeVars, entryVars, gateVars, resumeVars, approval, runVars>>

\* coordinator.markConsumed answers; the frame of stages 9 to 15 is built.
Consume(e) ==
  LET id == target[e] IN
  /\ pc[e] = "consume"
  /\ records[id] # NoRecord /\ Consumable(records[id])
  /\ records' = [records EXCEPT ![id] = Consumed(@, e)]
  /\ approval' = [approval EXCEPT ![e] = [id |-> id, approver |-> copy[e].approver]]
  /\ Goto(e, "governed")
  /\ UNCHANGED <<clock, entryVars, gateVars, resumeVars, runVars>>

\* It throws: the record is not consumable, or the call failed before or
\* after the update landed.  In the last case the approval is spent.
ConsumeFails(e, landed) ==
  LET id == target[e] IN
  /\ pc[e] = "consume"
  /\ \/ /\ landed
        /\ records[id] # NoRecord /\ Consumable(records[id])
        /\ records' = [records EXCEPT ![id] = Consumed(@, e)]
     \/ ~landed /\ UNCHANGED records
  /\ Fail(e, "APPROVAL_CONSUMED")
  /\ UNCHANGED <<clock, entryVars, gateVars, resumeVars, approval, runVars>>

-----------------------------------------------------------------------------
(***************************************************************************)
(* Stages 10 to 15 (executeGoverned).                                      *)
(***************************************************************************)
\* Mutated: a failed strict write is swallowed.
EmitStartedAnyway(e, durable) ==
  /\ pc[e] = "audit"
  /\ durable => StrictAudit
  /\ recorded' = [recorded EXCEPT ![e] = durable]
  /\ Goto(e, "loop")
  /\ UNCHANGED <<storeVars, entryVars, gateVars, resumeVars, approval, attempts, call, aborted>>

\* Stage 10.  Strict: the write is awaited.  Otherwise it is handed to the
\* sinks and nothing is known of it.
EmitStarted(e, durable) ==
  /\ pc[e] = "audit"
  /\ durable => StrictAudit
  /\ recorded' = [recorded EXCEPT ![e] = durable]
  /\ \/ StrictAudit /\ ~durable /\ Fail(e, "AUDIT_UNAVAILABLE")
     \/ (StrictAudit => durable) /\ Goto(e, "loop")
  /\ UNCHANGED <<storeVars, entryVars, gateVars, resumeVars, approval, attempts, call, aborted>>

\* Mutated: the head of the loop does not look at the caller's signal.
BeginAttemptUnasked(e) ==
  /\ pc[e] = "loop"
  /\ attempts' = [attempts EXCEPT ![e] = @ + 1]
  /\ call' = [call EXCEPT ![e][attempts[e] + 1] = "sent"]
  /\ Goto(e, "calling")
  /\ UNCHANGED <<storeVars, entryVars, gateVars, resumeVars, approval, aborted, recorded>>

\* Stage 11, the head of the retry loop.
BeginAttempt(e) ==
  /\ pc[e] = "loop"
  /\ ~aborted[e]
  /\ attempts' = [attempts EXCEPT ![e] = @ + 1]
  /\ call' = [call EXCEPT ![e][attempts[e] + 1] = "sent"]
  /\ Goto(e, "calling")
  /\ UNCHANGED <<storeVars, entryVars, gateVars, resumeVars, approval, aborted, recorded>>

\* The three places that notice the caller's abort: the head of the loop, the
\* race with the handler, the back-off.
NoticeAbort(e) ==
  /\ pc[e] \in {"loop", "calling", "backoff"}
  /\ aborted[e]
  /\ Finish(e, "cancelled", "CANCELLED")
  /\ UNCHANGED <<storeVars, entryVars, gateVars, resumeVars, approval, runVars>>

\* Mutated: an off-by-one in the attempts left.
RetryEligibleOnceMore(m, made) ==
  /\ m.retries > 0
  /\ made <= m.retries + 1
  /\ m.write => m.idempotent

\* Retryable error, attempts left, and the side effect allows it.
RetryEligible(m, made) ==
  /\ m.retries > 0
  /\ made <= m.retries
  /\ m.write => m.idempotent

\* Mutated: the runtime waits for the handler to notice the signal.
AttemptTimesOutPolitely(e) ==
  /\ pc[e] = "calling" /\ call[e][attempts[e]] # "running"
  /\ ~aborted[e]
  /\ \/ RetryEligible(meta[e], attempts[e]) /\ Goto(e, "backoff")
     \/ Finish(e, "cancelled", "TIMEOUT")
  /\ UNCHANGED <<storeVars, entryVars, gateVars, resumeVars, approval, runVars>>

\* The attempt's timer fires; the handler call is abandoned, not stopped.
\* retryOn may decline any retry.
AttemptTimesOut(e) ==
  /\ pc[e] = "calling"
  /\ ~aborted[e]
  /\ \/ RetryEligible(meta[e], attempts[e]) /\ Goto(e, "backoff")
     \/ Finish(e, "cancelled", "TIMEOUT")
  /\ UNCHANGED <<storeVars, entryVars, gateVars, resumeVars, approval, runVars>>

EndBackoff(e) ==
  /\ pc[e] = "backoff"
  /\ ~aborted[e]
  /\ Goto(e, "loop")
  /\ UNCHANGED <<storeVars, entryVars, gateVars, resumeVars, approval, runVars>>

\* oRPC's own middleware and in-call validation, then the handler.
HandlerStarts(e, k) ==
  /\ call[e][k] = "sent"
  /\ \/ /\ meta[e].parse[raw[e]] # None
        /\ call' = [call EXCEPT ![e][k] = "running"]
     \/ call' = [call EXCEPT ![e][k] = "refused"]
  /\ UNCHANGED <<storeVars, pc, entryVars, gateVars, resumeVars, approval, attempts, aborted, recorded, envelope>>

\* Mutated: a result that lost to the abort of its signal is taken all the same.
CallSettlesLate(e) ==
  LET k == attempts[e] IN
  /\ pc[e] = "calling"
  /\ call[e][k] = "running"
  /\ call' = [call EXCEPT ![e][k] = "ended"]
  /\ \/ Finish(e, "completed", "OK")
     \/ RetryEligible(meta[e], k) /\ Goto(e, "backoff")
  /\ UNCHANGED <<storeVars, entryVars, gateVars, resumeVars, approval, attempts, aborted, recorded>>

\* The current attempt settles before its signal aborts: success, with
\* redaction throwing or not, or an error that is retried or final.
CallSettles(e) ==
  LET k == attempts[e] IN
  /\ pc[e] = "calling"
  /\ ~aborted[e]
  /\ \/ /\ call[e][k] = "running"
        /\ call' = [call EXCEPT ![e][k] = "ended"]
        /\ \/ Finish(e, "completed", "OK")
           \/ \E code \in {"EXECUTION_FAILED", "OUTPUT_INVALID"} : Fail(e, code)
           \/ RetryEligible(meta[e], k) /\ Goto(e, "backoff")
     \/ /\ call[e][k] = "refused"
        /\ UNCHANGED call
        /\ \/ \E code \in {"EXECUTION_FAILED", "INPUT_INVALID", "UNAUTHENTICATED", "FORBIDDEN"} :
             Fail(e, code)
           \/ RetryEligible(meta[e], k) /\ Goto(e, "backoff")
  /\ UNCHANGED <<storeVars, entryVars, gateVars, resumeVars, approval, attempts, aborted, recorded>>

\* An abandoned handler runs to its end unobserved.
AbandonedCallEnds(e, k) ==
  /\ call[e][k] = "running"
  /\ pc[e] # "calling" \/ k # attempts[e]
  /\ call' = [call EXCEPT ![e][k] = "ended"]
  /\ UNCHANGED <<storeVars, pc, entryVars, gateVars, resumeVars, approval, attempts, aborted, recorded, envelope>>

-----------------------------------------------------------------------------
(***************************************************************************)
(* What happens around the executions.                                     *)
(***************************************************************************)
\* An injected clock, tracing function or malformed inline answer throws.
\* Inside a try block it becomes INTERNAL_ERROR.  executeGoverned is returned
\* without await, so from there the promise rejects: no terminal event, no
\* envelope.
SeamThrows(e) ==
  /\ SeamsMayThrow
  /\ \/ pc[e] \in GuardedStages /\ Fail(e, "INTERNAL_ERROR")
     \/ pc[e] \in GovernedStages /\ Goto(e, "thrown")
  /\ UNCHANGED <<storeVars, entryVars, gateVars, resumeVars, approval, runVars>>

\* The signal is first looked at in the retry loop: an earlier abort is not
\* told apart from one that arrives there.
CallerAborts(e) ==
  /\ pc[e] \in {"loop", "calling", "backoff"}
  /\ ~aborted[e]
  /\ aborted' = [aborted EXCEPT ![e] = TRUE]
  /\ UNCHANGED <<storeVars, pc, entryVars, gateVars, resumeVars, approval, attempts, call, recorded, envelope>>

execVars == <<pc, entryVars, gateVars, resumeVars, approval, runVars, envelope>>

\* An approver decides through runtime.approvals; a late one only settles.
Decide(id, verdict, approver) ==
  /\ records[id] # NoRecord
  /\ Decidable(Aged(records[id], clock))
  /\ records' = [records EXCEPT ![id] = Decided(@, verdict, approver, clock)]
  /\ UNCHANGED <<clock, execVars>>

\* get, list or a late decide by anyone settles an expiry.
Settle(id) ==
  /\ records[id] # NoRecord
  /\ Overdue(records[id], clock)
  /\ records' = [records EXCEPT ![id] = Aged(@, clock)]
  /\ UNCHANGED <<clock, execVars>>

\* The store loses the input it was given (a migration, a lossy column, a
\* hand-written update); the hash column is left as it was.
StoreDrifts(id, v) ==
  /\ records[id] # NoRecord
  /\ records' = [records EXCEPT ![id].input = v]
  /\ UNCHANGED <<clock, execVars>>

Tick ==
  /\ clock < MaxClock
  /\ clock' = clock + 1
  /\ UNCHANGED <<records, execVars>>

\* The steps by which an execution itself goes on.
InvokeStep(e) ==
  \/ \E o \in Outcomes : InvocationPolicies(e, o)
  \/ \E landed, answered \in BOOLEAN : CreateApproval(e, landed, answered)
  \/ \E a \in Actors : InlineApproves(e, a)
  \/ \E code \in {"APPROVAL_REJECTED", "INTERNAL_ERROR"} : InlineFails(e, code)
  \/ InlineDefers(e)

ResumeStep(e) ==
  \/ LoadRecord(e)
  \/ \E g \in Actors \cup {None} : CheckFails(e, g)
  \/ \E g \in Actors \cup {None}, m \in Capabilities \cup {None} :
       ResolutionFails(e, g, m) \/ Readmit(e, g, m)
  \/ \E o \in Outcomes : ResumePolicies(e, o)
  \/ Consume(e)
  \/ \E landed \in BOOLEAN : ConsumeFails(e, landed)

GovernedStep(e) ==
  \/ \E o \in Outcomes : ExecutionPolicies(e, o)
  \/ \E durable \in BOOLEAN : EmitStarted(e, durable)
  \/ BeginAttempt(e) \/ NoticeAbort(e) \/ AttemptTimesOut(e) \/ EndBackoff(e)

Proceed(e) ==
  \/ e \in Invocations /\ InvokeStep(e)
  \/ e \in Resumptions /\ ResumeStep(e)
  \/ GovernedStep(e)

HandlerStep(e) ==
  \/ \E k \in Attempts : HandlerStarts(e, k) \/ AbandonedCallEnds(e, k)
  \/ CallSettles(e)

Begin(e) ==
  \/ /\ e \in Invocations
     /\ \E m \in Capabilities \cup {None}, a \in Actors \cup {None}, v \in Values :
          Invoke(e, m, a, v) \/ InvokeRefused(e, m, a, v)
  \/ e \in Resumptions /\ \E id \in Ids : Resume(e, id)

Disturb(e) == SeamThrows(e) \/ LoadFails(e) \/ CallerAborts(e)

Environment ==
  \/ \E id \in Ids, verdict \in Verdicts, a \in Actors : Decide(id, verdict, a)
  \/ \E id \in Ids : Settle(id)
  \/ \E id \in Ids, v \in Values : StoreDrifts(id, v)
  \/ Tick

Next ==
  \/ \E e \in Executions : Begin(e) \/ Proceed(e) \/ HandlerStep(e) \/ Disturb(e)
  \/ Environment

Spec == Init /\ [][Next]_vars

\* The event loop goes on with every execution whose await has settled, and
\* everything awaited settles: policies and handler calls have timers, the
\* coordinator, the strict sink and the inline handler are taken to answer.
\* Nothing is assumed of the handler, of the callers, of approvers or of time.
\* A process that dies is, in Spec, an execution that takes no further step.
FairSpec == Spec /\ \A e \in Executions : WF_vars(Proceed(e))

-----------------------------------------------------------------------------
Sent(e) == EffectStarted(e)
HandlerRan(e) == \E k \in Attempts : call[e][k] \in {"running", "ended"}

\* A gated execution reaches the handler only under an approval (SI-4), and
\* never under one given by the requester's own identity.
EffectIsApproved ==
  \A e \in Executions : Sent(e) =>
    /\ meta[e].gated \/ demanded[e] \/ e \in Resumptions => approval[e] # None
    /\ approval[e] # None => ~SelfApproved(approval[e].approver, actor[e])

\* A resumed execution that reaches the handler holds the approval alone: the
\* record is consumed by it, carries its approver, and it runs as the record's
\* requester, whatever other resumptions, decisions and crashes interleave.
ResumedEffectOwnsApproval ==
  \A e \in Resumptions : Sent(e) =>
    LET r == records[target[e]] IN
    /\ r # NoRecord
    /\ r.status = "consumed" /\ r.consumer = e
    /\ r.approver = approval[e].approver
    /\ r.requester = actor[e]

\* What a resumption hands to oRPC is the value that was hashed when the
\* approval was requested (SI-5), although it was read from a store that may
\* drift, long before and by a copy.
ApprovedInputIsHandedOver ==
  \A e \in Resumptions : Sent(e) => raw[e] = records[target[e]].hash

\* docs/concepts/approvals.md:109: the hashed value is "the same value that
\* will execute (SI-6)".  The handler gets what oRPC's own validation makes of
\* what it is handed.
ApprovedValueExecutes ==
  \A e \in Resumptions : HandlerRan(e) =>
    meta[e].parse[raw[e]] = records[target[e]].hash

\* An envelope that neither completes nor warns "effectStatus: unknown" is
\* proof that the handler was never called.
HonestEffectStatus ==
  \A e \in Executions :
    envelope[e] # None /\ envelope[e].status # "completed" /\ envelope[e].effect = "none"
      => ~Sent(e)

\* A write not declared idempotent is handed to oRPC at most once (SI-11),
\* and no execution exceeds its configured attempts.
AttemptsAreBounded ==
  \A e \in Executions : Sent(e) =>
    attempts[e] <= (IF meta[e].write /\ ~meta[e].idempotent THEN 1 ELSE meta[e].retries + 1)

\* Strict audit: capability.started is durable before the handler is called.
AuditPrecedesEffect ==
  StrictAudit => \A e \in Executions : Sent(e) => recorded[e]

\* "After abort the runtime does not consume a late result": an execution that
\* completed was not aborted, and what completed it is the call of its last
\* attempt, not one left behind by an earlier attempt's time-out.
LateResultsAreDropped ==
  \A e \in Executions :
    envelope[e] # None /\ envelope[e].status = "completed"
      => ~aborted[e] /\ Sent(e) /\ call[e][attempts[e]] = "ended"

\* Once the caller has aborted or has its envelope, no further attempt begins.
NoLateAttempt ==
  [][\A e \in Executions :
       aborted[e] \/ envelope[e] # None => attempts'[e] = attempts[e]]_vars

Phase == [id \in Ids |-> IF records[id] # NoRecord THEN records[id].status ELSE "absent"]
Decider == [id \in Ids |-> IF records[id] # NoRecord THEN records[id].approver ELSE None]
User == [id \in Ids |-> IF records[id] # NoRecord THEN records[id].consumer ELSE None]

Lifecycle == INSTANCE ApprovalLifecycle
               WITH phase <- Phase, decider <- Decider, user <- User

\* Seen from the records, invocations, resumptions and approvers together keep
\* the promise of the approval life cycle.
KeepsLifecycle == Lifecycle!Spec

\* "runtime invariant violations still produce a failed envelope."
NeverRejects == \A e \in Executions : pc[e] # "thrown"

\* Every execution that has begun ends, although handlers may hang forever:
\* with an envelope, unless an uncaught seam threw.
EveryExecutionEnds ==
  \A e \in Executions : (pc[e] # "idle") ~> (pc[e] \in Finished)
=============================================================================
