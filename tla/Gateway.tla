------------------------------- MODULE Gateway -------------------------------
(***************************************************************************)
(* createCapabilityGateway (core/src/server/index.ts) over an invocation   *)
(* journal (core/src/server/journal.ts, postgres/src/invocations.ts), one  *)
(* approval coordinator and any number of gateway processes.               *)
(*                                                                         *)
(* A request is one call of invoke, resumeApproval or getInvocation,       *)
(* served by some process and its deployment.  It is cut at the awaits     *)
(* that read or write shared state: the journal, the coordinator and the   *)
(* runtime.  At any of them it may be interrupted: the process dies, the   *)
(* journal or the audit drain fails, the signal is aborted.                *)
(*                                                                         *)
(* The runtime is taken at its word, which module Pipeline checks: an      *)
(* envelope that neither completes nor says effectStatus "unknown" means   *)
(* that the handler was not called, and a resumption reaches the handler   *)
(* only after it has consumed its approval.  All attempts of an execution  *)
(* count as one run of the handler.  The approvals are an instance of      *)
(* ApprovalLifecycle, which both coordinators implement; the id of an      *)
(* approval is the request that opened it.                                 *)
(*                                                                         *)
(* A key is an invocation id inside a scope (tenant, actor and surface).   *)
(* That the approval's actor and surface are those of the principal        *)
(* follows from the scope and is not checked again here.                   *)
(***************************************************************************)
CONSTANTS
  Requests,
  Keys,
  Inputs,       \* fingerprints: the capability and the hash of its input
  Contracts,    \* contract digests of the deployed versions
  Approvers,
  MayAsk,       \* MayAsk[r]: the questions that request r may be
  None

ASSUME GatewayConstants ==
  None \notin Requests \cup Inputs \cup Contracts \cup Approvers

VARIABLES
  journal,    \* journal[k]: the InvocationRecord, or None
  phase, decider, user,   \* the coordinator's approvals
  pc,
  req,        \* req[r]: what was asked, None before
  seen,       \* seen[r]: the journal's record as a resumption read it
  handler,    \* handler[r]: the run of the procedure that r started
  result,     \* result[r]: the portable outcome of the runtime's envelope
  answer      \* answer[r]: what the client of r was told, or None

approvals == <<phase, decider, user>>
vars == <<journal, approvals, pc, req, seen, handler, result, answer>>

Approval == INSTANCE ApprovalLifecycle
              WITH Ids <- Requests, Executions <- Requests, Actors <- Approvers

Outcomes == {"completed", "failed", "approval-required"}

\* Every field of a request and of the process that serves it.  contract is
\* None where the capability is not registered or not exposed, input is None
\* where it has no canonical JSON, digest and approval where they are absent.
Questions ==
  [op : {"invoke", "resume", "get"}, key : Keys, input : Inputs \cup {None},
   digest : Contracts \cup {None}, approval : Requests \cup {None},
   contract : Contracts \cup {None}]

\* What a field is not used for is absent.
ASSUME QuestionsAsked ==
  /\ MayAsk \in [Requests -> SUBSET Questions]
  /\ \A r \in Requests : \A q \in MayAsk[r] :
       /\ q.op = "resume" <=> q.approval # None
       /\ q.op # "invoke" => q.input = None

JournalRecords ==
  [input : Inputs, contract : Contracts, token : Requests,
   state : {"pending", "settled"}, outcome : Outcomes \cup {None},
   approval : Requests \cup {None}]

\* "unknown" is outcome-unknown, from the gateway or from the client, which
\* makes it of every answer that does not arrive.  The last ones settle
\* nothing: preflight failures and receipts without an outcome.
Answers ==
  Outcomes \cup
    {"unknown", "conflict", "mismatch", "not-found", "invalid", "refused",
     "pending", "absent"}

Stages ==
  {"idle", "claim", "read", "decide", "claimResume", "invoke", "resume", "handler",
   "settle", "done"}

ASSUME NoneIsNoRecord == None \notin JournalRecords \cup Questions \cup Answers

TypeOK ==
  /\ journal \in [Keys -> JournalRecords \cup {None}]
  /\ pc \in [Requests -> Stages]
  /\ req \in [Requests -> Questions \cup {None}]
  /\ seen \in [Requests -> JournalRecords \cup {None}]
  /\ handler \in [Requests -> {"none", "running", "committed", "stopped"}]
  /\ result \in [Requests -> Outcomes \cup {None}]
  /\ answer \in [Requests -> Answers \cup {None}]

Init ==
  /\ journal = [k \in Keys |-> None]
  /\ Approval!Init
  /\ pc = [r \in Requests |-> "idle"]
  /\ req = [r \in Requests |-> None]
  /\ seen = [r \in Requests |-> None]
  /\ handler = [r \in Requests |-> "none"]
  /\ result = [r \in Requests |-> None]
  /\ answer = [r \in Requests |-> None]

-----------------------------------------------------------------------------
Goto(r, stage) == pc' = [pc EXCEPT ![r] = stage] /\ UNCHANGED answer

\* The client hears a, or nothing: drainAudit rejects, the connection is
\* lost, or the deadline has answered before.
Reply(r, a) ==
  /\ pc' = [pc EXCEPT ![r] = "done"]
  /\ \/ answer[r] # None /\ UNCHANGED answer
     \/ /\ answer[r] = None
        /\ \E told \in {a, "unknown"} : answer' = [answer EXCEPT ![r] = told]

Key(r) == req[r].key

Settled(rec) == rec.state = "settled"

\* saved: what the journal already knows.
Saved(rec) == IF Settled(rec) THEN rec.outcome ELSE "unknown"

\* The client knows the digest it asks with from an earlier description.
CurrentFor(digest, contract) == digest \in {None, contract}

(***************************************************************************)
(* invoke                                                                  *)
(***************************************************************************)
\* Everything before the journal: authentication, authorization, exposure,
\* contract, canonical input.
Refuse(r, q) ==
  /\ pc[r] = "idle"
  /\ req' = [req EXCEPT ![r] = q]
  /\ \/ Reply(r, "refused")
     \/ /\ q.op = "invoke"
        /\ \/ q.contract = None /\ Reply(r, "not-found")
           \/ q.contract # None /\ ~CurrentFor(q.digest, q.contract) /\ Reply(r, "mismatch")
           \/ /\ q.contract # None /\ CurrentFor(q.digest, q.contract)
              /\ q.input = None /\ Reply(r, "invalid")
  /\ UNCHANGED <<journal, approvals, seen, handler, result>>

Accept(r, q) ==
  /\ pc[r] = "idle"
  /\ req' = [req EXCEPT ![r] = q]
  /\ \/ /\ q.op = "invoke" /\ q.contract # None
        /\ CurrentFor(q.digest, q.contract) /\ q.input # None
        /\ Goto(r, "claim")
     \/ q.op \in {"resume", "get"} /\ Goto(r, "read")
  /\ UNCHANGED <<journal, approvals, seen, handler, result>>

Claimed(r) ==
  [input |-> req[r].input, contract |-> req[r].contract, token |-> r,
   state |-> "pending", outcome |-> None, approval |-> None]

Claimable(rec) == rec = None

\* Mutated: the fingerprint is not compared.
AnyQuestion(rec, input) == TRUE

SameQuestion(rec, input) == rec.input = input

\* journal.claim: insert if absent.  The Postgres journal reads an existing
\* row in a second statement; this action is then that statement.
Claim(r) ==
  LET rec == journal[Key(r)] IN
  /\ pc[r] = "claim"
  /\ \/ /\ Claimable(rec)
        /\ journal' = [journal EXCEPT ![Key(r)] = Claimed(r)]
        /\ Goto(r, "invoke")
     \/ /\ ~Claimable(rec)
        /\ Reply(r, IF SameQuestion(rec, req[r].input) THEN Saved(rec) ELSE "conflict")
        /\ UNCHANGED journal
  /\ UNCHANGED <<approvals, req, seen, handler, result>>

-----------------------------------------------------------------------------
(***************************************************************************)
(* runtime.invoke and runtime.resume, as seen from outside.                *)
(***************************************************************************)
\* Mutated: effectStatus is ignored.
PortableBlunt(completed, started) == IF completed THEN "completed" ELSE "failed"

\* portableResult: a failure or cancellation after the effect may have
\* started is no outcome.
Portable(completed, started) ==
  CASE completed -> "completed"
    [] ~completed /\ started -> "unknown"
    [] ~completed /\ ~started -> "failed"

\* settle is called unless the outcome is unknown.
Conclude(r, outcome) ==
  \/ /\ outcome = "unknown"
     /\ Reply(r, outcome)
     /\ UNCHANGED result
  \/ /\ outcome # "unknown"
     /\ result' = [result EXCEPT ![r] = outcome]
     /\ Goto(r, "settle")

\* The pipeline suspends; or it fails although the approval was opened.
RuntimeSuspends(r) ==
  /\ pc[r] = "invoke"
  /\ Approval!Open(r)
  /\ \/ Conclude(r, "approval-required")
     \/ Conclude(r, Portable(FALSE, FALSE))
  /\ UNCHANGED <<journal, req, seen, handler>>

\* The pipeline fails or is cancelled before the handler is called; a
\* resumption may have spent its approval by then.
RuntimeFails(r) ==
  /\ \/ pc[r] \in {"invoke", "resume"} /\ UNCHANGED approvals
     \/ pc[r] = "resume" /\ Approval!Use(req[r].approval, r)
  /\ Conclude(r, Portable(FALSE, FALSE))
  /\ UNCHANGED <<journal, req, seen, handler>>

RuntimeCalls(r) ==
  /\ \/ pc[r] = "invoke" /\ UNCHANGED approvals
     \/ pc[r] = "resume" /\ Approval!Use(req[r].approval, r)
  /\ handler' = [handler EXCEPT ![r] = "running"]
  /\ Goto(r, "handler")
  /\ UNCHANGED <<journal, req, seen, result>>

\* The effect commits, or the run stops without one; the request that began
\* it may long be over.
HandlerEnds(r, how) ==
  /\ handler[r] = "running"
  /\ handler' = [handler EXCEPT ![r] = how]
  /\ UNCHANGED <<journal, approvals, pc, req, seen, result, answer>>

\* The envelope arrives: completed, or failed, timed out or cancelled, which
\* need not wait for the handler.
RuntimeAnswers(r, completed) ==
  /\ pc[r] = "handler"
  /\ completed => handler[r] = "committed"
  /\ Conclude(r, Portable(completed, TRUE))
  /\ UNCHANGED <<journal, approvals, req, seen, handler>>

-----------------------------------------------------------------------------
\* journal.settle: compare-and-set on the owner's token.
Owns(rec, token) == rec # None /\ rec.state = "pending" /\ rec.token = token

WithOutcome(rec, outcome, opened) ==
  [rec EXCEPT !.state = "settled", !.outcome = outcome,
              !.approval = IF outcome = "approval-required" THEN opened ELSE @]

Settle(r) ==
  LET rec == journal[Key(r)] IN
  /\ pc[r] = "settle"
  /\ \/ /\ Owns(rec, r)
        /\ journal' = [journal EXCEPT ![Key(r)] = WithOutcome(rec, result[r], r)]
        /\ Reply(r, result[r])
     \/ /\ ~Owns(rec, r)
        /\ Reply(r, "unknown")
        /\ UNCHANGED journal
  /\ UNCHANGED <<approvals, req, seen, handler, result>>

(***************************************************************************)
(* getInvocation and resumeApproval                                        *)
(***************************************************************************)
\* journal.get.
Read(r) ==
  LET rec == journal[Key(r)] IN
  /\ pc[r] = "read"
  /\ \/ req[r].op = "get" /\ rec = None /\ Reply(r, "absent") /\ UNCHANGED seen
     \/ /\ req[r].op = "get" /\ rec # None /\ UNCHANGED seen
        /\ Reply(r, IF Settled(rec) THEN rec.outcome ELSE "pending")
     \/ /\ req[r].op = "resume"
        /\ seen' = [seen EXCEPT ![r] = rec]
        /\ Goto(r, "decide")
  /\ UNCHANGED <<journal, approvals, req, handler, result>>

\* authorize is asked again with what the record holds.
Unauthorized(r) ==
  /\ pc[r] \in {"read", "decide"}
  /\ Reply(r, "refused")
  /\ UNCHANGED <<journal, approvals, req, seen, handler, result>>

\* Mutated: any settled record can be taken up again.
WaitingSettled(rec, id) == rec.state = "settled" /\ rec.approval = id

Waiting(rec, id) == Settled(rec) /\ rec.outcome = "approval-required" /\ rec.approval = id

\* Mutated: the deployment's own contract is not compared with the record's.
SameContractAsAsked(rec, q) == CurrentFor(q.digest, rec.contract)

SameContract(rec, q) == q.contract = rec.contract /\ CurrentFor(q.digest, rec.contract)

\* approvals.get, then every check of resumeApproval up to claimResume; the
\* record is the one read before.
DecideResume(r) ==
  LET rec == seen[r]  q == req[r]
      known == rec # None /\ q.approval # None /\ rec.approval = q.approval
  IN
  /\ pc[r] = "decide"
  /\ \/ ~known /\ Reply(r, "refused")
     \/ known /\ ~Waiting(rec, q.approval) /\ Reply(r, Saved(rec))
     \/ /\ known /\ Waiting(rec, q.approval)
        /\ \/ ~SameContract(rec, q) /\ Reply(r, "mismatch")
           \/ SameContract(rec, q) /\ phase[q.approval] = "pending" /\ Reply(r, "approval-required")
           \/ SameContract(rec, q) /\ phase[q.approval] # "pending" /\ Goto(r, "claimResume")
  /\ UNCHANGED <<journal, approvals, req, seen, handler, result>>

\* journal.claimResume: from the matching approval-required outcome back to
\* pending, under a new token.  Who loses is told what the journal knows.
ClaimResume(r) ==
  LET rec == journal[Key(r)] IN
  /\ pc[r] = "claimResume"
  /\ \/ /\ Waiting(rec, req[r].approval)
        /\ journal' = [journal EXCEPT ![Key(r)] =
             [rec EXCEPT !.state = "pending", !.token = r, !.outcome = None]]
        /\ Goto(r, "resume")
     \/ /\ ~Waiting(rec, req[r].approval)
        /\ Reply(r, Saved(rec))
        /\ UNCHANGED journal
  /\ UNCHANGED <<approvals, req, seen, handler, result>>

-----------------------------------------------------------------------------
(***************************************************************************)
(* What may go wrong, and the world around.                                *)
(***************************************************************************)
Begun(r) == pc[r] \notin {"idle", "done"}

\* An await rejects, the output cannot be serialised, the signal is aborted,
\* or the process dies: nothing more is written.
Interrupted(r) ==
  /\ Begun(r)
  /\ Reply(r, "unknown")
  /\ UNCHANGED <<journal, approvals, req, seen, handler, result>>

\* Mutated: the ceiling holds only until the handler is called.
DeadlineOutsideHandler(r) ==
  /\ Begun(r) /\ pc[r] # "handler" /\ answer[r] = None
  /\ answer' = [answer EXCEPT ![r] = "unknown"]
  /\ UNCHANGED <<journal, approvals, pc, req, seen, handler, result>>

\* The request's ceiling: the client is answered, the task goes on.
Deadline(r) ==
  /\ Begun(r) /\ answer[r] = None
  /\ answer' = [answer EXCEPT ![r] = "unknown"]
  /\ UNCHANGED <<journal, approvals, pc, req, seen, handler, result>>

requestVars == <<pc, req, seen, handler, result, answer>>

Approver ==
  /\ \/ \E id \in Requests, v \in {"approved", "rejected"}, a \in Approvers :
          Approval!Decide(id, v, a)
     \/ \E id \in Requests : phase[id] = "pending" /\ Approval!Lapse({id})
  /\ UNCHANGED <<journal, requestVars>>

\* An operator settles an orphaned claim with what is true, having made sure
\* that its execution is over.
OperatorSettles(k) ==
  LET rec == journal[k] IN
  /\ rec # None /\ rec.state = "pending"
  /\ pc[rec.token] = "done" /\ handler[rec.token] # "running"
  /\ journal' = [journal EXCEPT ![k] =
       WithOutcome(rec, IF handler[rec.token] = "committed" THEN "completed" ELSE "failed", None)]
  /\ UNCHANGED <<approvals, requestVars>>

\* The id of an approval is known only once it has been opened.
Askable(q) == q.op = "resume" => phase[q.approval] # "absent"

Step(r) ==
  \/ \E q \in MayAsk[r] : Askable(q) /\ (Refuse(r, q) \/ Accept(r, q))
  \/ Claim(r) \/ Settle(r) \/ Read(r) \/ DecideResume(r) \/ ClaimResume(r)
  \/ RuntimeSuspends(r) \/ RuntimeFails(r) \/ RuntimeCalls(r)
  \/ \E how \in {"committed", "stopped"} : HandlerEnds(r, how)
  \/ \E completed \in BOOLEAN : RuntimeAnswers(r, completed)
  \/ Unauthorized(r) \/ Interrupted(r) \/ Deadline(r)

Next ==
  \/ \E r \in Requests : Step(r)
  \/ \E k \in Keys : OperatorSettles(k)
  \/ Approver

Spec == Init /\ [][Next]_vars

\* The ceiling is a timer of the process; nothing else is assumed to go on.
FairSpec == Spec /\ \A r \in Requests : WF_vars(Deadline(r))

-----------------------------------------------------------------------------
\* How far the record of an invocation has come.
StageOf(rec) ==
  CASE rec = None -> "new"
    [] rec # None /\ ~Settled(rec) -> "open"
    [] rec # None /\ Settled(rec) /\ rec.outcome = "approval-required" -> "waiting"
    [] OTHER -> rec.outcome

Stage == [k \in Keys |-> StageOf(journal[k])]

Effect == [k \in Keys |->
  {r \in Requests : handler[r] = "committed" /\ req[r].key = k}]

Promise == INSTANCE InvocationPromise
             WITH Runs <- Requests, stage <- Stage, effect <- Effect

\* The gateway keeps its promise: whatever requests repeat, race, die or are
\* taken over by an operator, an invocation is admitted once, its effect
\* happens once, and what the journal settles is true and stays.
KeepsPromise == Promise!Spec

\* The clients of one invocation never hear two different final outcomes.
AnswersAgree ==
  \A r1, r2 \in Requests :
    /\ answer[r1] \in {"completed", "failed"}
    /\ answer[r2] \in {"completed", "failed"}
    /\ Key(r1) = Key(r2)
    => answer[r1] = answer[r2]

\* An outcome is only ever given to the question it is the outcome of: a
\* reused invocation id never passes another input's result for its own.
AnswersFitTheQuestion ==
  \A r \in Requests :
    answer[r] \in Outcomes /\ req[r].op = "invoke" => journal[Key(r)].input = req[r].input

\* A resumed handler runs for the input and under the contract for which its
\* approval was opened, with the verdict of an approver, and the approval is
\* spent on it.
ApprovedContractExecutes ==
  \A r \in Requests : req[r] # None /\ req[r].op = "resume" /\ handler[r] # "none" =>
    LET opener == req[r].approval IN
    /\ req[opener].contract = req[r].contract
    /\ req[opener].key = req[r].key /\ req[opener].input = journal[Key(r)].input
    /\ user[opener] = r /\ decider[opener] # None

\* Whoever asks is answered, although handlers may hang and journals be slow.
RequestsAreAnswered == \A r \in Requests : pc[r] # "idle" ~> answer[r] # None
=============================================================================
