---------------------------- MODULE GatewayProofs ----------------------------
(***************************************************************************)
(* Theorems about Gateway, for any number of requests, keys, inputs,       *)
(* contracts and approvers, and whatever each request may ask: what the    *)
(* clients of one invocation hear agrees and fits, a resumed handler runs  *)
(* what was approved, and the promise made to remote hosts is kept.        *)
(*                                                                         *)
(* The argument: who is past the claim holds the journal's record (Tied),  *)
(* whoever else advances the record takes it from nobody who still needs   *)
(* it (Advances), and a run that has taken effect keeps the record for     *)
(* good.                                                                   *)
(***************************************************************************)
EXTENDS Gateway, TLAPS

\* The stages behind the claim, in which the record must be the request's own.
Live == {"invoke", "resume", "handler", "settle"}

Conclusive == {"completed", "failed"}

Holds(r, k) == journal[k] # None /\ journal[k].state = "pending" /\ journal[k].token = r

Stands(rec, outcome) == rec # None /\ rec.state = "settled" /\ rec.outcome = outcome

\* The approval of a record was opened by a request for the same thing.
Opened(rec, k) ==
  rec.approval # None =>
    /\ req[rec.approval] # None
    /\ req[rec.approval].key = k
    /\ req[rec.approval].contract = rec.contract
    /\ req[rec.approval].input = rec.input

ApprovalsOK ==
  /\ phase \in [Requests -> {"absent", "pending", "approved", "rejected", "expired", "consumed"}]
  /\ decider \in [Requests -> Approvers \cup {None}]
  /\ user \in [Requests -> Requests \cup {None}]
  /\ \A id \in Requests : phase[id] \in {"approved", "consumed"} => decider[id] # None

\* What the stage of a request says about itself.
Staged(r) ==
  /\ pc[r] = "idle" =>
       req[r] = None /\ handler[r] = "none" /\ answer[r] = None /\ seen[r] = None
  /\ pc[r] # "idle" => req[r] # None /\ req[r] \in MayAsk[r]
  /\ pc[r] \in {"claim", "invoke"} =>
       req[r].op = "invoke" /\ req[r].input # None /\ req[r].contract # None
  /\ pc[r] \in {"decide", "claimResume", "resume"} => req[r].op = "resume"
  /\ pc[r] \in {"claim", "read", "decide", "claimResume", "invoke", "resume"} =>
       handler[r] = "none"
  /\ pc[r] = "settle" =>
       /\ result[r] # None /\ handler[r] # "running"
       /\ result[r] = "completed" <=> handler[r] = "committed"
       /\ result[r] = "approval-required" => req[r].op = "invoke"

\* What a request may rely on in the journal and among the approvals.
Owner(r) == pc[r] \in Live \/ handler[r] = "running" => Holds(r, Key(r))

Effective(r) ==
  handler[r] = "committed" =>
    \/ Holds(r, Key(r))
    \/ Stands(journal[Key(r)], "completed") /\ journal[Key(r)].token = r

Answered(r) ==
  /\ answer[r] \in Conclusive => Stands(journal[Key(r)], answer[r])
  /\ req[r] # None /\ req[r].op = "invoke" /\ answer[r] \in Outcomes =>
       journal[Key(r)] # None /\ journal[Key(r)].input = req[r].input

Claimant(r) ==
  pc[r] \in Live /\ req[r].op = "invoke" =>
    journal[Key(r)].input = req[r].input /\ journal[Key(r)].contract = req[r].contract

Reader(r) ==
  seen[r] # None =>
    /\ journal[Key(r)] # None
    /\ journal[Key(r)].input = seen[r].input
    /\ seen[r].state = "settled" => seen[r].outcome # None
    /\ Opened(seen[r], Key(r))
    /\ \A o \in Conclusive : Stands(seen[r], o) => Stands(journal[Key(r)], o)

Resumer(r) ==
  req[r] # None /\ req[r].op = "resume" =>
    /\ pc[r] \in Live \cup {"claimResume"} \/ handler[r] # "none" =>
         /\ req[r].approval \in Requests /\ req[req[r].approval] # None
         /\ req[req[r].approval].key = Key(r)
         /\ req[req[r].approval].contract = req[r].contract
         /\ journal[Key(r)] # None
         /\ req[req[r].approval].input = journal[Key(r)].input
    /\ handler[r] # "none" =>
         user[req[r].approval] = r /\ decider[req[r].approval] # None

Tied(r) ==
  Owner(r) /\ Effective(r) /\ Answered(r) /\ Claimant(r) /\ Reader(r) /\ Resumer(r)

\* What the journal's record says about its runs.
Entry(k) ==
  journal[k] # None =>
    /\ Opened(journal[k], k)
    /\ req[journal[k].token] # None /\ req[journal[k].token].key = k
    /\ journal[k].state = "settled" => journal[k].outcome # None
    /\ Stands(journal[k], "completed") => handler[journal[k].token] = "committed"

IInv ==
  /\ TypeOK /\ ApprovalsOK
  /\ \A r \in Requests : Staged(r) /\ Tied(r)
  /\ \A k \in Keys : Entry(k)

-----------------------------------------------------------------------------
(***************************************************************************)
(* A step is made by the requests D and advances the records J.            *)
(***************************************************************************)
Frame(D) ==
  \A q \in Requests \ D :
    /\ pc'[q] = pc[q] /\ req'[q] = req[q] /\ seen'[q] = seen[q]
    /\ handler'[q] = handler[q] /\ result'[q] = result[q] /\ answer'[q] = answer[q]

\* What was asked is never asked again, what has taken effect stays so, and an
\* approval never loses its approver or the request it was spent on.
Monotone ==
  /\ \A q \in Requests :
       /\ req[q] # None => req'[q] = req[q]
       /\ handler[q] = "committed" => handler'[q] = "committed"
  /\ \A id \in Requests :
       /\ user[id] # None => user'[id] = user[id]
       /\ decider[id] # None => decider'[id] # None

Advances(k, D) ==
  /\ journal'[k] # None
  /\ journal[k] # None =>
       /\ journal'[k].input = journal[k].input
       /\ \A o \in Conclusive : ~Stands(journal[k], o)
       /\ journal'[k].contract = journal[k].contract
  /\ \A q \in Requests \ D : Holds(q, k) =>
       /\ pc[q] \notin Live /\ handler[q] # "running"
       /\ handler[q] = "committed" =>
            Stands(journal'[k], "completed") /\ journal'[k].token = q

\* Requests that do not step stay tied to the journal.
LEMMA OthersStayTied ==
  ASSUME IInv, NEW D \in SUBSET Requests, NEW J \in SUBSET Keys, Frame(D), Monotone,
         \A k \in Keys \ J : journal'[k] = journal[k], \A k \in J : Advances(k, D),
         NEW q \in Requests \ D
  PROVE  Staged(q)' /\ Tied(q)'
<1>1. TypeOK /\ ApprovalsOK /\ Staged(q) /\ Tied(q)  BY DEF IInv
<1>2. /\ pc'[q] = pc[q] /\ req'[q] = req[q] /\ seen'[q] = seen[q]
      /\ handler'[q] = handler[q] /\ result'[q] = result[q] /\ answer'[q] = answer[q]
  BY DEF Frame
<1>3. Staged(q)'  BY <1>1, <1>2 DEF Staged
<1>. DEFINE k == req[q].key
<1>4. CASE req[q] = None
  <2>1. pc[q] = "idle"  BY <1>1, <1>4 DEF Staged
  <2>2. handler[q] = "none" /\ answer[q] = None /\ seen[q] = None
    BY <1>1, <2>1 DEF Staged
  <2>3. None \notin Outcomes /\ None \notin Conclusive
    BY NoneIsNoRecord DEF Answers, Outcomes, Conclusive
  <2>. QED  BY <1>2, <1>3, <1>4, <2>1, <2>2, <2>3
       DEF Tied, Owner, Effective, Answered, Claimant, Reader, Resumer, Live
<1>5. CASE req[q] # None
  <2>0. req[q] \in Questions /\ k \in Keys  BY <1>1, <1>5 DEF TypeOK, Questions
  <2>1. /\ journal[k] # None => journal'[k] # None /\ journal'[k].input = journal[k].input
                                /\ journal'[k].contract = journal[k].contract
        /\ \A o \in Conclusive : Stands(journal[k], o) => Stands(journal'[k], o)
    BY <2>0 DEF Advances, Stands
  <2>2. Owner(q)'
    BY <1>1, <1>2, <2>0 DEF Tied, Owner, Advances, Holds, Key
  <2>3. Effective(q)'
    <3>. SUFFICES ASSUME handler[q] = "committed"
                  PROVE  \/ Holds(q, k)'
                         \/ Stands(journal'[k], "completed") /\ journal'[k].token = q
      BY <1>2 DEF Effective, Key, Stands
    <3>1. Holds(q, k) \/ (Stands(journal[k], "completed") /\ journal[k].token = q)
      BY <1>1 DEF Tied, Effective, Key
    <3>2. CASE k \notin J
      <4>1. journal'[k] = journal[k]  BY <2>0, <3>2
      <4>. QED  BY <3>1, <4>1, <1>2 DEF Holds, Stands
    <3>3. CASE k \in J
      <4>1. Holds(q, k)  BY <3>1, <3>3 DEF Advances, Stands, Conclusive
      <4>. QED  BY <3>3, <4>1 DEF Advances
    <3>. QED  BY <3>2, <3>3
  <2>4. Answered(q)'
    BY <1>1, <1>2, <2>1 DEF Tied, Answered, Key, Stands
  <2>5. Claimant(q)'
    <3>1. pc[q] \in Live => journal[k] # None  BY <1>1 DEF Tied, Owner, Holds, Key
    <3>. QED  BY <1>1, <1>2, <2>1, <3>1 DEF Tied, Claimant, Key
  <2>6. Reader(q)'
    <3>. SUFFICES ASSUME seen[q] # None
                  PROVE  /\ journal'[k] # None /\ journal'[k].input = seen[q].input
                         /\ seen[q].state = "settled" => seen[q].outcome # None
                         /\ Opened(seen[q], k)'
                         /\ \A o \in Conclusive : Stands(seen[q], o) => Stands(journal'[k], o)
      BY <1>2 DEF Reader, Key, Stands, Opened
    <3>1. /\ journal[k] # None /\ journal[k].input = seen[q].input /\ Opened(seen[q], k)
          /\ seen[q].state = "settled" => seen[q].outcome # None
          /\ \A o \in Conclusive : Stands(seen[q], o) => Stands(journal[k], o)
      BY <1>1 DEF Tied, Reader, Key
    <3>2. seen[q] \in JournalRecords  BY <1>1 DEF TypeOK
    <3>3. Opened(seen[q], k)'
      BY <1>2, <3>1, <3>2 DEF Opened, Monotone, JournalRecords
    <3>. QED  BY <2>1, <3>1, <3>3
  <2>7. Resumer(q)'
    <3>. DEFINE a == req[q].approval
    <3>. SUFFICES ASSUME req[q].op = "resume",
                         pc[q] \in Live \cup {"claimResume"} \/ handler[q] # "none"
                  PROVE  /\ a \in Requests /\ req'[a] # None /\ req'[a].key = k
                         /\ req'[a].contract = req[q].contract
                         /\ journal'[k] # None /\ req'[a].input = journal'[k].input
                         /\ handler[q] # "none" => user'[a] = q /\ decider'[a] # None
      BY <1>2 DEF Resumer, Key
    <3>1. /\ a \in Requests /\ req[a] # None /\ req[a].key = k
          /\ req[a].contract = req[q].contract
          /\ journal[k] # None /\ req[a].input = journal[k].input
          /\ handler[q] # "none" => user[a] = q /\ decider[a] # None
      BY <1>1, <1>5 DEF Tied, Resumer, Key
    <3>2. req'[a] = req[a]  BY <3>1 DEF Monotone
    <3>3. handler[q] # "none" => user'[a] = q /\ decider'[a] # None
      BY <3>1, GatewayConstants DEF Monotone
    <3>. HIDE DEF a, k
    <3>. QED  BY <2>1, <3>1, <3>2, <3>3
  <2>. QED  BY <1>3, <2>2, <2>3, <2>4, <2>5, <2>6, <2>7 DEF Tied
<1>. QED  BY <1>4, <1>5

LEMMA StepPreserves ==
  ASSUME IInv, NEW D \in SUBSET Requests, NEW J \in SUBSET Keys, Frame(D), Monotone,
         TypeOK', ApprovalsOK',
         \A k \in Keys \ J : journal'[k] = journal[k], \A k \in J : Advances(k, D) /\ Entry(k)',
         \A r \in D : Staged(r)' /\ Tied(r)'
  PROVE  IInv'
<1>1. \A r \in Requests : Staged(r)' /\ Tied(r)'  BY OthersStayTied
<1>2. ASSUME NEW k \in Keys PROVE Entry(k)'
  <2>1. CASE k \in J  BY <2>1
  <2>2. CASE k \notin J
    <3>. SUFFICES ASSUME journal[k] # None PROVE Entry(k)'
      BY <2>2 DEF Entry
    <3>1. journal'[k] = journal[k] /\ journal[k] \in JournalRecords /\ Entry(k)
      BY <2>2 DEF IInv, TypeOK
    <3>2. journal[k].token \in Requests /\ journal[k].approval \in Requests \cup {None}
      BY <3>1 DEF JournalRecords
    <3>3. Opened(journal[k], k)' /\ req'[journal[k].token] # None /\ req'[journal[k].token].key = k
      BY <3>1, <3>2 DEF Entry, Opened, Monotone
    <3>4. Stands(journal[k], "completed") => handler'[journal[k].token] = "committed"
      BY <3>1, <3>2 DEF Entry, Monotone
    <3>. QED  BY <3>1, <3>3, <3>4 DEF Entry, Stands
  <2>. QED  BY <2>1, <2>2
<1>. QED  BY <1>1, <1>2 DEF IInv

-----------------------------------------------------------------------------
(***************************************************************************)
(* What the parts of a step do.                                            *)
(***************************************************************************)
ApprovalsGrow ==
  /\ ApprovalsOK'
  /\ \A id \in Requests :
       /\ user[id] # None => user'[id] = user[id]
       /\ decider[id] # None => decider'[id] # None

\* Every step of the coordinator keeps approvers and users.
LEMMA ApprovalSteps ==
  ASSUME ApprovalsOK
  PROVE  /\ UNCHANGED approvals => ApprovalsGrow
         /\ \A id \in Requests : Approval!Open(id) => ApprovalsGrow
         /\ \A id, r \in Requests : Approval!Use(id, r) =>
              ApprovalsGrow /\ user'[id] = r /\ decider'[id] # None
         /\ \A id \in Requests, v \in {"approved", "rejected"}, a \in Approvers :
              Approval!Decide(id, v, a) => ApprovalsGrow
         /\ \A id \in Requests : phase[id] = "pending" /\ Approval!Lapse({id}) => ApprovalsGrow
<1>1. UNCHANGED approvals => ApprovalsGrow
  BY DEF approvals, ApprovalsGrow, ApprovalsOK
<1>2. ASSUME NEW id \in Requests, Approval!Open(id) PROVE ApprovalsGrow
  BY <1>2 DEF Approval!Open, ApprovalsGrow, ApprovalsOK
<1>3. ASSUME NEW id \in Requests, NEW r \in Requests, Approval!Use(id, r)
      PROVE  ApprovalsGrow /\ user'[id] = r /\ decider'[id] # None
  BY <1>3 DEF Approval!Use, ApprovalsGrow, ApprovalsOK
<1>4. ASSUME NEW id \in Requests, NEW v \in {"approved", "rejected"}, NEW a \in Approvers,
             Approval!Decide(id, v, a)
      PROVE  ApprovalsGrow
  BY <1>4, GatewayConstants DEF Approval!Decide, ApprovalsGrow, ApprovalsOK
<1>5. ASSUME NEW id \in Requests, Approval!Lapse({id}) PROVE ApprovalsGrow
  BY <1>5 DEF Approval!Lapse, ApprovalsGrow, ApprovalsOK
<1>. QED  BY <1>1, <1>2, <1>3, <1>4, <1>5

LEMMA GotoShape ==
  ASSUME TypeOK, NEW r \in Requests, NEW stage \in Stages, Goto(r, stage)
  PROVE  /\ pc' \in [Requests -> Stages] /\ pc'[r] = stage /\ answer' = answer
         /\ \A q \in Requests \ {r} : pc'[q] = pc[q]
BY DEF Goto, TypeOK

LEMMA ReplyShape ==
  ASSUME TypeOK, NEW r \in Requests, NEW a \in Answers, Reply(r, a)
  PROVE  /\ pc' \in [Requests -> Stages] /\ pc'[r] = "done"
         /\ answer' \in [Requests -> Answers \cup {None}]
         /\ answer'[r] \in {answer[r], a, "unknown"}
         /\ \A q \in Requests \ {r} : pc'[q] = pc[q] /\ answer'[q] = answer[q]
<1>1. "done" \in Stages /\ "unknown" \in Answers  BY DEF Stages, Answers
<1>. QED  BY <1>1 DEF Reply, TypeOK

\* A request that has begun has asked a question it may ask.
LEMMA AskedFacts ==
  ASSUME IInv, NEW r \in Requests, pc[r] # "idle"
  PROVE  /\ req[r] # None /\ req[r] \in Questions /\ Key(r) \in Keys
         /\ req[r].op \in {"invoke", "resume", "get"}
         /\ req[r].op = "resume" => req[r].approval \in Requests
         /\ journal[Key(r)] \in JournalRecords \cup {None}
<1>1. req[r] # None /\ req[r] \in MayAsk[r] /\ TypeOK  BY DEF IInv, Staged
<1>2. req[r] \in Questions  BY <1>1 DEF TypeOK
<1>3. req[r].op = "resume" => req[r].approval # None  BY <1>1, QuestionsAsked
<1>. QED  BY <1>1, <1>2, <1>3 DEF Questions, Key, TypeOK

LEMMA QuietStep ==
  ASSUME IInv, NEW r \in Requests, Frame({r}), ApprovalsGrow, TypeOK', UNCHANGED journal,
         req[r] # None => req'[r] = req[r],
         handler[r] = "committed" => handler'[r] = "committed",
         Staged(r)', Tied(r)'
  PROVE  IInv'
<1>. DEFINE D == {r}  J == {}
<1>1. Frame(D) /\ D \in SUBSET Requests /\ J \in SUBSET Keys  OBVIOUS
<1>2. Monotone  BY DEF Monotone, Frame, ApprovalsGrow
<1>3. \A k \in Keys \ J : journal'[k] = journal[k]  OBVIOUS
<1>4. \A k \in J : Advances(k, D) /\ Entry(k)'  OBVIOUS
<1>5. \A q \in D : Staged(q)' /\ Tied(q)'  OBVIOUS
<1>6. ApprovalsOK'  BY DEF ApprovalsGrow
<1>. HIDE DEF D, J
<1>. QED  BY <1>1, <1>2, <1>3, <1>4, <1>5, <1>6, StepPreserves

\* A request ends with an answer and changes nothing else.
LEMMA ReplyEnds ==
  ASSUME IInv, NEW r \in Requests, NEW a \in Answers, Reply(r, a), pc[r] # "idle",
         UNCHANGED <<journal, approvals, req, seen, handler, result>>,
         a \in Conclusive => Stands(journal[Key(r)], a),
         req[r].op = "invoke" /\ a \in Outcomes =>
           journal[Key(r)] # None /\ journal[Key(r)].input = req[r].input
  PROVE  IInv'
<1>1. /\ TypeOK /\ ApprovalsOK /\ Staged(r) /\ Tied(r)
      /\ pc' \in [Requests -> Stages] /\ pc'[r] = "done"
      /\ answer' \in [Requests -> Answers \cup {None}]
      /\ answer'[r] \in {answer[r], a, "unknown"}
      /\ \A q \in Requests \ {r} : pc'[q] = pc[q] /\ answer'[q] = answer[q]
  BY ReplyShape DEF IInv
<1>2. Frame({r})  BY <1>1 DEF Frame
<1>3. TypeOK'  BY <1>1 DEF TypeOK
<1>4. ApprovalsGrow  BY <1>1, ApprovalSteps
<1>5. Staged(r)'  BY <1>1 DEF Staged
<1>6. Tied(r)'
  <2>1. Owner(r)' /\ Effective(r)'
    BY <1>1 DEF Tied, Owner, Effective, Holds, Stands, Key, Live
  <2>2. Answered(r)'
    BY <1>1 DEF Tied, Answered, Stands, Key, Conclusive, Outcomes
  <2>3. Claimant(r)' /\ Reader(r)'
    BY <1>1 DEF Tied, Claimant, Reader, Stands, Opened, Key, Live
  <2>4. Resumer(r)'
    BY <1>1 DEF Tied, Resumer, Key, Live, approvals
  <2>. QED  BY <2>1, <2>2, <2>3, <2>4 DEF Tied
<1>. QED  BY <1>2, <1>3, <1>4, <1>5, <1>6, QuietStep DEF approvals

-----------------------------------------------------------------------------
(***************************************************************************)
(* invoke, resumeApproval and getInvocation up to the runtime.             *)
(***************************************************************************)
LEMMA RefusePreserves ==
  ASSUME IInv, NEW r \in Requests, NEW q \in MayAsk[r], Refuse(r, q)
  PROVE  IInv'
<1>1. /\ TypeOK /\ ApprovalsOK /\ Staged(r) /\ Tied(r) /\ pc[r] = "idle"
      /\ req' = [req EXCEPT ![r] = q] /\ q \in Questions /\ q # None
      /\ UNCHANGED <<journal, approvals, seen, handler, result>>
  BY QuestionsAsked, NoneIsNoRecord DEF IInv, Refuse
<1>2. PICK a \in {"refused", "not-found", "mismatch", "invalid"} : Reply(r, a)
  BY DEF Refuse
<1>3. a \in Answers /\ a \notin Outcomes /\ a \notin Conclusive
  BY DEF Answers, Outcomes, Conclusive
<1>4. /\ pc' \in [Requests -> Stages] /\ pc'[r] = "done"
      /\ answer' \in [Requests -> Answers \cup {None}]
      /\ answer'[r] \in {answer[r], a, "unknown"}
      /\ \A x \in Requests \ {r} : pc'[x] = pc[x] /\ answer'[x] = answer[x]
  BY <1>1, <1>2, <1>3, ReplyShape
<1>5. Frame({r}) /\ req'[r] = q  BY <1>1, <1>4 DEF Frame, TypeOK
<1>6. TypeOK'  BY <1>1, <1>4 DEF TypeOK
<1>7. ApprovalsGrow  BY <1>1, ApprovalSteps
<1>8. /\ handler[r] = "none" /\ answer[r] = None /\ seen[r] = None /\ req[r] = None
      /\ None \notin Answers
  BY <1>1, NoneIsNoRecord DEF Staged
<1>9. Staged(r)'  BY <1>1, <1>4, <1>5, <1>8 DEF Staged
<1>10. answer'[r] \notin Outcomes /\ answer'[r] \notin Conclusive
  BY <1>3, <1>4, <1>8 DEF Answers, Outcomes, Conclusive
<1>11. Tied(r)'
  BY <1>1, <1>4, <1>8, <1>10
  DEF Tied, Owner, Effective, Answered, Claimant, Reader, Resumer, Live
<1>. QED  BY <1>1, <1>5, <1>6, <1>7, <1>8, <1>9, <1>11, QuietStep

LEMMA AcceptPreserves ==
  ASSUME IInv, NEW r \in Requests, NEW q \in MayAsk[r], Accept(r, q)
  PROVE  IInv'
<1>1. /\ TypeOK /\ ApprovalsOK /\ Staged(r) /\ Tied(r) /\ pc[r] = "idle"
      /\ req' = [req EXCEPT ![r] = q] /\ q \in Questions /\ q # None
      /\ UNCHANGED <<journal, approvals, seen, handler, result>>
  BY QuestionsAsked, NoneIsNoRecord DEF IInv, Accept
<1>2. PICK stage \in {"claim", "read"} :
        /\ Goto(r, stage)
        /\ stage = "claim" => q.op = "invoke" /\ q.contract # None /\ q.input # None
  BY DEF Accept
<1>3. /\ pc' \in [Requests -> Stages] /\ pc'[r] = stage /\ answer' = answer
      /\ \A x \in Requests \ {r} : pc'[x] = pc[x]
  BY <1>1, <1>2, GotoShape DEF Stages
<1>4. Frame({r}) /\ req'[r] = q  BY <1>1, <1>3 DEF Frame, TypeOK
<1>5. TypeOK'  BY <1>1, <1>3 DEF TypeOK
<1>6. ApprovalsGrow  BY <1>1, ApprovalSteps
<1>7. /\ handler[r] = "none" /\ answer[r] = None /\ seen[r] = None /\ req[r] = None
      /\ None \notin Outcomes /\ None \notin Conclusive
  BY <1>1, NoneIsNoRecord DEF Staged, Answers, Outcomes, Conclusive
<1>8. Staged(r)'  BY <1>1, <1>2, <1>3, <1>4, <1>7 DEF Staged
<1>9. Tied(r)'
  BY <1>1, <1>3, <1>7
  DEF Tied, Owner, Effective, Answered, Claimant, Reader, Resumer, Live
<1>. QED  BY <1>1, <1>4, <1>5, <1>6, <1>7, <1>8, <1>9, QuietStep

\* What the journal already knows may be told to whoever asks the same.
LEMMA SavedFacts ==
  ASSUME IInv, NEW rec \in JournalRecords, rec.state = "settled" => rec.outcome # None
  PROVE  Saved(rec) \in Answers /\ (Saved(rec) \in Conclusive => Stands(rec, Saved(rec)))
BY NoneIsNoRecord DEF Saved, Settled, JournalRecords, Answers, Outcomes, Conclusive, Stands


\* A request advances the record of its invocation.
LEMMA RecordStep ==
  ASSUME IInv, NEW r \in Requests, Key(r) \in Keys, Frame({r}),
         UNCHANGED <<approvals, req, seen, handler, result>>,
         TypeOK', \A k \in Keys \ {Key(r)} : journal'[k] = journal[k],
         Advances(Key(r), {r}), Entry(Key(r))', Staged(r)', Tied(r)'
  PROVE  IInv'
<1>. DEFINE D == {r}  J == {Key(r)}
<1>1. Frame(D) /\ D \in SUBSET Requests /\ J \in SUBSET Keys  OBVIOUS
<1>2. Monotone  BY DEF Monotone, approvals
<1>3. \A k \in Keys \ J : journal'[k] = journal[k]  OBVIOUS
<1>4. \A k \in J : Advances(k, D) /\ Entry(k)'  BY DEF Key
<1>5. \A q \in D : Staged(q)' /\ Tied(q)'  OBVIOUS
<1>6. ApprovalsOK'  BY DEF IInv, ApprovalsOK, approvals
<1>. HIDE DEF D, J
<1>. QED  BY <1>1, <1>2, <1>3, <1>4, <1>5, <1>6, StepPreserves

LEMMA ClaimPreserves ==
  ASSUME IInv, NEW r \in Requests, Claim(r)
  PROVE  IInv'
<1>. DEFINE k == Key(r)
<1>1. /\ TypeOK /\ ApprovalsOK /\ Staged(r) /\ Tied(r) /\ Entry(k) /\ pc[r] = "claim"
      /\ UNCHANGED <<approvals, req, seen, handler, result>>
      /\ req[r] # None /\ req[r] \in Questions /\ k \in Keys
      /\ journal[k] \in JournalRecords \cup {None}
      /\ req[r].op = "invoke" /\ req[r].input # None /\ req[r].contract # None
  BY AskedFacts DEF IInv, Claim, Staged
<1>2. CASE journal[k] = None
  <2>1. /\ journal' = [journal EXCEPT ![k] = Claimed(r)] /\ Goto(r, "invoke")
    BY <1>2 DEF Claim, Claimable
  <2>2. /\ pc' \in [Requests -> Stages] /\ pc'[r] = "invoke" /\ answer' = answer
        /\ \A q \in Requests \ {r} : pc'[q] = pc[q]
    BY <1>1, <2>1, GotoShape DEF Stages
  <2>3. Claimed(r) \in JournalRecords /\ Claimed(r) # None
    BY <1>1, NoneIsNoRecord DEF Claimed, JournalRecords, Questions
  <2>4. journal'[k] = Claimed(r) /\ \A x \in Keys \ {k} : journal'[x] = journal[x]
    BY <1>1, <2>1 DEF TypeOK
  <2>5. Frame({r})  BY <1>1, <2>2 DEF Frame
  <2>6. TypeOK'  BY <1>1, <2>1, <2>2, <2>3 DEF TypeOK
  <2>7. Advances(k, {r})  BY <1>2, <2>3, <2>4 DEF Advances, Holds
  <2>8. Entry(k)'
    BY <1>1, <2>4 DEF Entry, Opened, Stands, Claimed, Key
  <2>9. Staged(r)'  BY <1>1, <2>2 DEF Staged
  <2>10. /\ seen[r] = None /\ handler[r] = "none" /\ Key(r)' = k
         /\ answer[r] \notin Conclusive /\ answer[r] \notin Outcomes
    BY <1>1, <1>2 DEF Tied, Reader, Answered, Stands, Staged, Key
  <2>11. Owner(r)' /\ Effective(r)'
    BY <1>1, <2>3, <2>4, <2>10 DEF Owner, Effective, Holds, Claimed
  <2>12. Answered(r)'  BY <1>1, <2>2, <2>10 DEF Answered
  <2>13. Claimant(r)'  BY <1>1, <2>4, <2>10 DEF Claimant, Claimed
  <2>14. Reader(r)' /\ Resumer(r)'  BY <1>1, <2>10 DEF Reader, Resumer
  <2>15. Tied(r)'  BY <2>11, <2>12, <2>13, <2>14 DEF Tied
  <2>. QED  BY <1>1, <2>4, <2>5, <2>6, <2>7, <2>8, <2>9, <2>15, RecordStep
<1>3. CASE journal[k] # None
  <2>1. PICK a : /\ Reply(r, a) /\ UNCHANGED journal
                 /\ a = "conflict" \/ (a = Saved(journal[k]) /\ journal[k].input = req[r].input)
    BY <1>3 DEF Claim, Claimable, SameQuestion
  <2>2. /\ Saved(journal[k]) \in Answers
        /\ Saved(journal[k]) \in Conclusive => Stands(journal[k], Saved(journal[k]))
    BY <1>1, <1>3, SavedFacts DEF Entry
  <2>3. a \in Answers /\ (a \in Conclusive => Stands(journal[k], a))
    BY <2>1, <2>2 DEF Answers, Conclusive
  <2>4. a \in Outcomes => journal[k].input = req[r].input
    BY <2>1 DEF Outcomes
  <2>. QED  BY <1>1, <1>3, <2>1, <2>3, <2>4, ReplyEnds
<1>. QED  BY <1>2, <1>3


-----------------------------------------------------------------------------
(***************************************************************************)
(* The runtime.                                                            *)
(***************************************************************************)
\* The runtime's envelope has an outcome, which is then to be settled.
LEMMA ConcludePreserves ==
  ASSUME IInv, NEW r \in Requests, NEW o \in Outcomes, Conclude(r, o), ApprovalsGrow,
         pc[r] \in {"invoke", "resume", "handler"}, handler[r] # "running",
         o = "completed" <=> handler[r] = "committed",
         o = "approval-required" => req[r].op = "invoke",
         UNCHANGED <<journal, req, seen, handler>>
  PROVE  IInv'
<1>1. /\ TypeOK /\ ApprovalsOK /\ Staged(r) /\ Tied(r)
      /\ o # None /\ o # "unknown" /\ req[r] # None
  BY NoneIsNoRecord DEF IInv, Answers, Outcomes, Staged
<1>2. result' = [result EXCEPT ![r] = o] /\ Goto(r, "settle")
  BY <1>1 DEF Conclude
<1>3. /\ pc' \in [Requests -> Stages] /\ pc'[r] = "settle" /\ answer' = answer
      /\ \A q \in Requests \ {r} : pc'[q] = pc[q]
  BY <1>1, <1>2, GotoShape DEF Stages
<1>4. /\ result' \in [Requests -> Outcomes \cup {None}] /\ result'[r] = o
      /\ \A q \in Requests \ {r} : result'[q] = result[q]
  BY <1>1, <1>2 DEF TypeOK
<1>5. Frame({r})  BY <1>3, <1>4 DEF Frame
<1>6. TypeOK'  BY <1>1, <1>3, <1>4 DEF TypeOK
<1>7. Staged(r)'  BY <1>1, <1>3, <1>4 DEF Staged
<1>8. Owner(r)' /\ Effective(r)' /\ Answered(r)' /\ Claimant(r)'
  BY <1>1, <1>3
  DEF Tied, Owner, Effective, Answered, Claimant, Holds, Stands, Key, Live
<1>9. Reader(r)'  BY <1>1 DEF Tied, Reader, Opened, Stands, Key
<1>10. Resumer(r)'
  BY <1>1, <1>3, GatewayConstants DEF Tied, Resumer, Key, Live, ApprovalsGrow
<1>11. Tied(r)'  BY <1>8, <1>9, <1>10 DEF Tied
<1>. QED  BY <1>5, <1>6, <1>7, <1>11, QuietStep

LEMMA RuntimeSuspendsPreserves ==
  ASSUME IInv, NEW r \in Requests, RuntimeSuspends(r)
  PROVE  IInv'
<1>1. ApprovalsOK /\ Staged(r) /\ pc[r] = "invoke"  BY DEF IInv, RuntimeSuspends
<1>2. PICK o \in {"approval-required", "failed"} : Conclude(r, o)
  BY DEF RuntimeSuspends, Portable
<1>3. ApprovalsGrow  BY <1>1, ApprovalSteps DEF RuntimeSuspends
<1>4. handler[r] = "none" /\ req[r].op = "invoke"  BY <1>1 DEF Staged
<1>5. o \in Outcomes  BY DEF Outcomes
<1>. QED  BY <1>1, <1>2, <1>3, <1>4, <1>5, ConcludePreserves DEF RuntimeSuspends

LEMMA RuntimeFailsPreserves ==
  ASSUME IInv, NEW r \in Requests, RuntimeFails(r)
  PROVE  IInv'
<1>1. ApprovalsOK /\ Staged(r) /\ pc[r] \in {"invoke", "resume"}
  BY DEF IInv, RuntimeFails
<1>2. Conclude(r, "failed") /\ "failed" \in Outcomes
  BY DEF RuntimeFails, Portable, Outcomes
<1>3. pc[r] = "resume" => req[r].approval \in Requests
  BY <1>1, AskedFacts DEF Staged
<1>4. ApprovalsGrow  BY <1>1, <1>3, ApprovalSteps DEF RuntimeFails
<1>5. handler[r] = "none"  BY <1>1 DEF Staged
<1>. QED  BY <1>1, <1>2, <1>4, <1>5, ConcludePreserves DEF RuntimeFails

LEMMA RuntimeCallsPreserves ==
  ASSUME IInv, NEW r \in Requests, RuntimeCalls(r)
  PROVE  IInv'
<1>1. /\ TypeOK /\ ApprovalsOK /\ Staged(r) /\ Tied(r) /\ pc[r] \in {"invoke", "resume"}
      /\ handler' = [handler EXCEPT ![r] = "running"] /\ Goto(r, "handler")
      /\ UNCHANGED <<journal, req, seen, result>>
  BY DEF IInv, RuntimeCalls
<1>2. /\ pc' \in [Requests -> Stages] /\ pc'[r] = "handler" /\ answer' = answer
      /\ \A q \in Requests \ {r} : pc'[q] = pc[q]
  BY <1>1, GotoShape DEF Stages
<1>3. /\ handler' \in [Requests -> {"none", "running", "committed", "stopped"}]
      /\ handler'[r] = "running" /\ \A q \in Requests \ {r} : handler'[q] = handler[q]
      /\ handler[r] = "none" /\ req[r] # None
  BY <1>1 DEF TypeOK, Staged
<1>4. pc[r] = "resume" => req[r].approval \in Requests
  BY <1>1, AskedFacts DEF Staged
<1>5. ApprovalsGrow  BY <1>1, <1>4, ApprovalSteps DEF RuntimeCalls
<1>6. pc[r] = "resume" => user'[req[r].approval] = r /\ decider'[req[r].approval] # None
  BY <1>1, <1>4, ApprovalSteps DEF RuntimeCalls
<1>7. Frame({r})  BY <1>1, <1>2, <1>3 DEF Frame
<1>8. TypeOK'  BY <1>1, <1>2, <1>3 DEF TypeOK
<1>9. Staged(r)'  BY <1>1, <1>2, <1>3 DEF Staged
<1>10. Owner(r)' /\ Effective(r)' /\ Answered(r)' /\ Claimant(r)'
  BY <1>1, <1>2, <1>3
  DEF Tied, Owner, Effective, Answered, Claimant, Holds, Stands, Key, Live
<1>11. Reader(r)'  BY <1>1 DEF Tied, Reader, Opened, Stands, Key
<1>12. Resumer(r)'
  BY <1>1, <1>2, <1>3, <1>6 DEF Tied, Resumer, Key, Live, Staged
<1>13. Tied(r)'  BY <1>10, <1>11, <1>12 DEF Tied
<1>. QED  BY <1>1, <1>3, <1>5, <1>7, <1>8, <1>9, <1>13, QuietStep

LEMMA HandlerEndsPreserves ==
  ASSUME IInv, NEW r \in Requests, NEW how \in {"committed", "stopped"}, HandlerEnds(r, how)
  PROVE  IInv'
<1>1. /\ TypeOK /\ ApprovalsOK /\ Staged(r) /\ Tied(r) /\ handler[r] = "running"
      /\ handler' = [handler EXCEPT ![r] = how]
      /\ UNCHANGED <<journal, approvals, pc, req, seen, result, answer>>
  BY DEF IInv, HandlerEnds
<1>2. /\ handler' \in [Requests -> {"none", "running", "committed", "stopped"}]
      /\ handler'[r] = how /\ \A q \in Requests \ {r} : handler'[q] = handler[q]
  BY <1>1 DEF TypeOK
<1>3. Frame({r})  BY <1>1, <1>2 DEF Frame
<1>4. TypeOK'  BY <1>1, <1>2 DEF TypeOK
<1>5. ApprovalsGrow  BY <1>1, ApprovalSteps
<1>6. Staged(r)'  BY <1>1, <1>2 DEF Staged
<1>7. Owner(r)' /\ Effective(r)' /\ Answered(r)' /\ Claimant(r)'
  BY <1>1, <1>2
  DEF Tied, Owner, Effective, Answered, Claimant, Holds, Stands, Key, Live
<1>8. Reader(r)'  BY <1>1 DEF Tied, Reader, Opened, Stands, Key
<1>9. Resumer(r)'  BY <1>1, <1>2 DEF Tied, Resumer, Key, Live, approvals
<1>10. Tied(r)'  BY <1>7, <1>8, <1>9 DEF Tied
<1>. QED  BY <1>1, <1>3, <1>4, <1>5, <1>6, <1>10, QuietStep

LEMMA RuntimeAnswersPreserves ==
  ASSUME IInv, NEW r \in Requests, NEW completed \in BOOLEAN, RuntimeAnswers(r, completed)
  PROVE  IInv'
<1>1. /\ ApprovalsOK /\ pc[r] = "handler" /\ (completed => handler[r] = "committed")
      /\ Conclude(r, Portable(completed, TRUE))
      /\ UNCHANGED <<journal, approvals, req, seen, handler>>
  BY DEF IInv, RuntimeAnswers
<1>2. ApprovalsGrow  BY <1>1, ApprovalSteps
<1>3. CASE completed
  <2>1. Conclude(r, "completed") /\ "completed" \in Outcomes
    BY <1>1, <1>3 DEF Portable, Outcomes
  <2>. QED  BY <1>1, <1>2, <1>3, <2>1, ConcludePreserves
<1>4. CASE ~completed
  <2>1. Conclude(r, "unknown")  BY <1>1, <1>4 DEF Portable
  <2>2. Reply(r, "unknown") /\ UNCHANGED result  BY <2>1 DEF Conclude
  <2>3. "unknown" \in Answers /\ "unknown" \notin Outcomes /\ "unknown" \notin Conclusive
    BY DEF Answers, Outcomes, Conclusive
  <2>. QED  BY <1>1, <2>2, <2>3, ReplyEnds
<1>. QED  BY <1>3, <1>4


\* The owner settles: whoever is here still holds the record.
LEMMA SettlePreserves ==
  ASSUME IInv, NEW r \in Requests, Settle(r)
  PROVE  IInv'
<1>. DEFINE k == Key(r)  new == WithOutcome(journal[k], result[r], r)
<1>1. /\ TypeOK /\ ApprovalsOK /\ Staged(r) /\ Tied(r) /\ Entry(k) /\ pc[r] = "settle"
      /\ UNCHANGED <<approvals, req, seen, handler, result>>
      /\ req[r] # None /\ req[r] \in Questions /\ k \in Keys
      /\ journal[k] \in JournalRecords \cup {None}
  BY AskedFacts DEF IInv, Settle
<1>2. Holds(r, k) /\ journal[k] \in JournalRecords
  BY <1>1 DEF Tied, Owner, Live, Holds
<1>3. journal' = [journal EXCEPT ![k] = new] /\ Reply(r, result[r])
  BY <1>2 DEF Settle, Owns, Holds
<1>4. /\ result[r] \in Outcomes /\ result[r] # None /\ handler[r] # "running"
      /\ result[r] = "completed" <=> handler[r] = "committed"
      /\ result[r] = "approval-required" =>
           /\ req[r].op = "invoke" /\ journal[k].input = req[r].input
           /\ journal[k].contract = req[r].contract
  BY <1>1 DEF TypeOK, Staged, Tied, Claimant, Live
<1>5. result[r] \in Answers  BY <1>4 DEF Answers
<1>6. /\ pc' \in [Requests -> Stages] /\ pc'[r] = "done"
      /\ answer' \in [Requests -> Answers \cup {None}]
      /\ answer'[r] \in {answer[r], result[r], "unknown"}
      /\ \A q \in Requests \ {r} : pc'[q] = pc[q] /\ answer'[q] = answer[q]
  BY <1>1, <1>3, <1>5, ReplyShape
<1>7. /\ new \in JournalRecords /\ new # None
      /\ new.state = "settled" /\ new.outcome = result[r] /\ new.token = r
      /\ new.input = journal[k].input /\ new.contract = journal[k].contract
      /\ new.approval = IF result[r] = "approval-required" THEN r ELSE journal[k].approval
  BY <1>2, <1>4, NoneIsNoRecord DEF WithOutcome, JournalRecords, Holds
<1>8. journal'[k] = new /\ \A x \in Keys \ {k} : journal'[x] = journal[x]
  BY <1>1, <1>3 DEF TypeOK
<1>. HIDE DEF new
<1>9. Frame({r})  BY <1>1, <1>6 DEF Frame
<1>10. TypeOK'  BY <1>1, <1>3, <1>6, <1>7 DEF TypeOK
<1>11. Advances(k, {r})
  BY <1>2, <1>7, <1>8 DEF Advances, Holds, Stands
<1>12. Entry(k)'
  <2>1. Opened(journal[k], k)'
    <3>1. Opened(journal[k], k)  BY <1>1, <1>2 DEF Entry, Holds
    <3>. QED  BY <1>1, <1>4, <1>7, <1>8, <3>1 DEF Opened, Key
  <2>. QED  BY <1>1, <1>4, <1>7, <1>8, <2>1 DEF Entry, Stands, Key, Opened
<1>13. Staged(r)'  BY <1>1, <1>6 DEF Staged
<1>14. Key(r)' = k /\ answer[r] \notin Conclusive
  BY <1>1, <1>2 DEF Tied, Answered, Stands, Holds, Key
<1>15. Owner(r)' /\ Effective(r)' /\ Claimant(r)'
  BY <1>1, <1>4, <1>6, <1>7, <1>8, <1>14
  DEF Owner, Effective, Claimant, Stands, Live
<1>16. Answered(r)'
  <2>1. answer'[r] \in Conclusive => answer'[r] = result[r]
    BY <1>6, <1>14 DEF Conclusive
  <2>2. answer'[r] \in Outcomes /\ req[r].op = "invoke" => journal[k].input = req[r].input
    BY <1>1 DEF Tied, Claimant, Live
  <2>. QED  BY <1>1, <1>7, <1>8, <1>14, <2>1, <2>2 DEF Answered, Stands
<1>17. Reader(r)'
  <2>1. seen[r] # None => \A o \in Conclusive : ~Stands(seen[r], o)
    BY <1>1, <1>2 DEF Tied, Reader, Stands, Holds, Key
  <2>. QED  BY <1>1, <1>7, <1>8, <1>14, <2>1 DEF Tied, Reader, Opened, Stands, Key
<1>18. Resumer(r)'
  BY <1>1, <1>6, <1>7, <1>8, <1>14 DEF Tied, Resumer, Live, approvals, Key
<1>19. Tied(r)'  BY <1>15, <1>16, <1>17, <1>18 DEF Tied
<1>. QED  BY <1>1, <1>8, <1>9, <1>10, <1>11, <1>12, <1>13, <1>19, RecordStep

-----------------------------------------------------------------------------
(***************************************************************************)
(* getInvocation and resumeApproval.                                       *)
(***************************************************************************)
LEMMA ReadPreserves ==
  ASSUME IInv, NEW r \in Requests, Read(r)
  PROVE  IInv'
<1>. DEFINE k == Key(r)
<1>1. /\ TypeOK /\ ApprovalsOK /\ Staged(r) /\ Tied(r) /\ Entry(k) /\ pc[r] = "read"
      /\ UNCHANGED <<journal, approvals, req, handler, result>>
      /\ req[r] # None /\ req[r] \in Questions /\ k \in Keys
      /\ journal[k] \in JournalRecords \cup {None}
  BY AskedFacts DEF IInv, Read
<1>2. CASE req[r].op = "get"
  <2>1. PICK a : /\ Reply(r, a) /\ UNCHANGED seen
                 /\ \/ a \in {"absent", "pending"}
                    \/ journal[k] # None /\ journal[k].state = "settled" /\ a = journal[k].outcome
    BY <1>2 DEF Read, Settled
  <2>2. a \in Answers /\ (a \in Conclusive => Stands(journal[k], a))
    BY <1>1, <2>1 DEF Entry, JournalRecords, Answers, Conclusive, Stands
  <2>. QED  BY <1>1, <1>2, <2>1, <2>2, ReplyEnds
<1>3. CASE req[r].op # "get"
  <2>1. /\ seen' = [seen EXCEPT ![r] = journal[k]] /\ Goto(r, "decide")
        /\ req[r].op = "resume"
    BY <1>3 DEF Read
  <2>2. /\ pc' \in [Requests -> Stages] /\ pc'[r] = "decide" /\ answer' = answer
        /\ \A q \in Requests \ {r} : pc'[q] = pc[q]
    BY <1>1, <2>1, GotoShape DEF Stages
  <2>3. /\ seen' \in [Requests -> JournalRecords \cup {None}] /\ seen'[r] = journal[k]
        /\ \A q \in Requests \ {r} : seen'[q] = seen[q]
    BY <1>1, <2>1 DEF TypeOK
  <2>4. Frame({r})  BY <1>1, <2>2, <2>3 DEF Frame
  <2>5. TypeOK'  BY <1>1, <2>2, <2>3 DEF TypeOK
  <2>6. ApprovalsGrow  BY <1>1, ApprovalSteps
  <2>7. Staged(r)'  BY <1>1, <2>1, <2>2 DEF Staged
  <2>8. Owner(r)' /\ Effective(r)' /\ Answered(r)' /\ Claimant(r)'
    BY <1>1, <2>1, <2>2
    DEF Tied, Owner, Effective, Answered, Claimant, Holds, Stands, Key, Live
  <2>9. Reader(r)'  BY <1>1, <2>3 DEF Entry, Reader, Opened, Stands, Key
  <2>10. Resumer(r)'
    BY <1>1, <2>2 DEF Tied, Resumer, Key, Live, approvals
  <2>11. Tied(r)'  BY <2>8, <2>9, <2>10 DEF Tied
  <2>. QED  BY <1>1, <2>4, <2>5, <2>6, <2>7, <2>11, QuietStep
<1>. QED  BY <1>2, <1>3

LEMMA DecideResumePreserves ==
  ASSUME IInv, NEW r \in Requests, DecideResume(r)
  PROVE  IInv'
<1>. DEFINE k == Key(r)  rec == seen[r]
<1>1. /\ TypeOK /\ ApprovalsOK /\ Staged(r) /\ Tied(r) /\ pc[r] = "decide"
      /\ UNCHANGED <<journal, approvals, req, seen, handler, result>>
      /\ req[r] # None /\ req[r] \in Questions /\ k \in Keys /\ req[r].op = "resume"
      /\ req[r].approval \in Requests /\ rec \in JournalRecords \cup {None}
  BY AskedFacts DEF IInv, DecideResume, Staged, TypeOK
<1>2. CASE \E a \in {"refused", "mismatch", "approval-required"} : Reply(r, a)
  <2>1. PICK a \in {"refused", "mismatch", "approval-required"} : Reply(r, a)
    BY <1>2
  <2>2. a \in Answers /\ a \notin Conclusive  BY DEF Answers, Outcomes, Conclusive
  <2>. QED  BY <1>1, <2>1, <2>2, ReplyEnds
<1>3. CASE rec # None /\ Reply(r, Saved(rec))
  <2>1. /\ journal[k] # None
        /\ rec.state = "settled" => rec.outcome # None
        /\ \A o \in Conclusive : Stands(rec, o) => Stands(journal[k], o)
    BY <1>1, <1>3 DEF Tied, Reader
  <2>2. Saved(rec) \in Answers /\ (Saved(rec) \in Conclusive => Stands(rec, Saved(rec)))
    BY <1>1, <1>3, <2>1, SavedFacts
  <2>. QED  BY <1>1, <1>3, <2>1, <2>2, ReplyEnds
<1>4. CASE /\ rec # None /\ rec.approval = req[r].approval /\ req[r].approval # None
           /\ SameContract(rec, req[r]) /\ Goto(r, "claimResume")
  <2>1. /\ pc' \in [Requests -> Stages] /\ pc'[r] = "claimResume" /\ answer' = answer
        /\ \A q \in Requests \ {r} : pc'[q] = pc[q]
    BY <1>1, <1>4, GotoShape DEF Stages
  <2>2. Frame({r})  BY <1>1, <2>1 DEF Frame
  <2>3. TypeOK'  BY <1>1, <2>1 DEF TypeOK
  <2>4. ApprovalsGrow  BY <1>1, ApprovalSteps
  <2>5. Staged(r)' /\ handler[r] = "none"  BY <1>1, <2>1 DEF Staged
  <2>6. Owner(r)' /\ Effective(r)' /\ Answered(r)' /\ Claimant(r)'
    BY <1>1, <2>1, <2>5
    DEF Tied, Owner, Effective, Answered, Claimant, Holds, Stands, Key, Live
  <2>7. Reader(r)'  BY <1>1 DEF Tied, Reader, Opened, Stands, Key
  <2>8. /\ req[req[r].approval] # None /\ req[req[r].approval].key = k
        /\ req[req[r].approval].contract = req[r].contract
        /\ journal[k] # None /\ req[req[r].approval].input = journal[k].input
    BY <1>1, <1>4 DEF Tied, Reader, Opened, SameContract
  <2>9. Resumer(r)'  BY <1>1, <2>5, <2>8 DEF Resumer, Key
  <2>10. Tied(r)'  BY <2>6, <2>7, <2>9 DEF Tied
  <2>. QED  BY <1>1, <2>2, <2>3, <2>4, <2>5, <2>10, QuietStep
<1>. QED  BY <1>2, <1>3, <1>4 DEF DecideResume

LEMMA ClaimResumePreserves ==
  ASSUME IInv, NEW r \in Requests, ClaimResume(r)
  PROVE  IInv'
<1>. DEFINE k == Key(r)  rec == journal[k]
            new == [rec EXCEPT !.state = "pending", !.token = r, !.outcome = None]
<1>1. /\ TypeOK /\ ApprovalsOK /\ Staged(r) /\ Tied(r) /\ Entry(k) /\ pc[r] = "claimResume"
      /\ UNCHANGED <<approvals, req, seen, handler, result>>
      /\ req[r] # None /\ req[r] \in Questions /\ k \in Keys /\ req[r].op = "resume"
      /\ rec \in JournalRecords \cup {None}
  BY AskedFacts DEF IInv, ClaimResume, Staged
<1>2. rec \in JournalRecords /\ rec # None  BY <1>1 DEF Tied, Resumer
<1>3. CASE ~Waiting(rec, req[r].approval)
  <2>1. Reply(r, Saved(rec)) /\ UNCHANGED journal  BY <1>3 DEF ClaimResume
  <2>2. Saved(rec) \in Answers /\ (Saved(rec) \in Conclusive => Stands(rec, Saved(rec)))
    BY <1>1, <1>2, SavedFacts DEF Entry
  <2>. QED  BY <1>1, <2>1, <2>2, ReplyEnds
<1>4. CASE Waiting(rec, req[r].approval)
  <2>1. journal' = [journal EXCEPT ![k] = new] /\ Goto(r, "resume")
    BY <1>4 DEF ClaimResume
  <2>2. /\ pc' \in [Requests -> Stages] /\ pc'[r] = "resume" /\ answer' = answer
        /\ \A q \in Requests \ {r} : pc'[q] = pc[q]
    BY <1>1, <2>1, GotoShape DEF Stages
  <2>3. /\ new \in JournalRecords /\ new # None /\ new.state = "pending" /\ new.token = r
        /\ new.input = rec.input /\ new.contract = rec.contract /\ new.approval = rec.approval
    BY <1>2, NoneIsNoRecord DEF JournalRecords
  <2>4. journal'[k] = new /\ \A x \in Keys \ {k} : journal'[x] = journal[x]
    BY <1>1, <2>1 DEF TypeOK
  <2>5. \A o \in Conclusive : ~Stands(rec, o)
    BY <1>4 DEF Waiting, Settled, Stands, Conclusive
  <2>6. rec.state = "settled"  BY <1>4 DEF Waiting, Settled
  <2>. HIDE DEF new
  <2>7. Frame({r})  BY <1>1, <2>2 DEF Frame
  <2>8. TypeOK'  BY <1>1, <2>1, <2>2, <2>3 DEF TypeOK
  <2>9. Advances(k, {r})  BY <2>3, <2>4, <2>5, <2>6 DEF Advances, Holds
  <2>10. Entry(k)'
    BY <1>1, <1>2, <2>3, <2>4 DEF Entry, Opened, Stands, Key
  <2>11. Staged(r)' /\ handler[r] = "none"  BY <1>1, <2>2 DEF Staged
  <2>12. Key(r)' = k /\ answer[r] \notin Conclusive
    BY <1>1, <2>5 DEF Tied, Answered, Key
  <2>13. Owner(r)' /\ Effective(r)' /\ Answered(r)' /\ Claimant(r)'
    BY <1>1, <2>2, <2>3, <2>4, <2>11, <2>12
    DEF Owner, Effective, Answered, Claimant, Holds
  <2>14. Reader(r)'
    <3>1. seen[r] # None => \A o \in Conclusive : ~Stands(seen[r], o)
      BY <1>1, <2>5 DEF Tied, Reader
    <3>. QED  BY <1>1, <2>3, <2>4, <2>12, <3>1 DEF Tied, Reader, Opened, Stands
  <2>15. Resumer(r)'
    BY <1>1, <2>2, <2>3, <2>4, <2>11, <2>12 DEF Tied, Resumer, Key
  <2>16. Tied(r)'  BY <2>13, <2>14, <2>15 DEF Tied
  <2>. QED  BY <1>1, <2>4, <2>7, <2>8, <2>9, <2>10, <2>11, <2>16, RecordStep
<1>. QED  BY <1>3, <1>4

-----------------------------------------------------------------------------
(***************************************************************************)
(* What may go wrong, and the world around.                                *)
(***************************************************************************)
LEMMA EndingsPreserve ==
  ASSUME IInv, NEW r \in Requests, Unauthorized(r) \/ Interrupted(r)
  PROVE  IInv'
<1>1. PICK a \in {"refused", "unknown"} : Reply(r, a)
  BY DEF Unauthorized, Interrupted
<1>2. a \in Answers /\ a \notin Outcomes /\ a \notin Conclusive
  BY DEF Answers, Outcomes, Conclusive
<1>3. pc[r] # "idle" /\ UNCHANGED <<journal, approvals, req, seen, handler, result>>
  BY DEF Unauthorized, Interrupted, Begun
<1>. QED  BY <1>1, <1>2, <1>3, ReplyEnds

LEMMA DeadlinePreserves ==
  ASSUME IInv, NEW r \in Requests, Deadline(r)
  PROVE  IInv'
<1>1. /\ TypeOK /\ ApprovalsOK /\ Staged(r) /\ Tied(r) /\ pc[r] # "idle"
      /\ answer' = [answer EXCEPT ![r] = "unknown"]
      /\ UNCHANGED <<journal, approvals, pc, req, seen, handler, result>>
  BY DEF IInv, Deadline, Begun
<1>2. "unknown" \in Answers /\ "unknown" \notin Outcomes /\ "unknown" \notin Conclusive
  BY DEF Answers, Outcomes, Conclusive
<1>3. /\ answer' \in [Requests -> Answers \cup {None}] /\ answer'[r] = "unknown"
      /\ \A q \in Requests \ {r} : answer'[q] = answer[q]
  BY <1>1, <1>2 DEF TypeOK
<1>4. Frame({r})  BY <1>1, <1>3 DEF Frame
<1>5. TypeOK'  BY <1>1, <1>3 DEF TypeOK
<1>6. ApprovalsGrow  BY <1>1, ApprovalSteps
<1>7. Staged(r)'  BY <1>1, <1>3 DEF Staged
<1>8. Owner(r)' /\ Effective(r)' /\ Answered(r)' /\ Claimant(r)'
  BY <1>1, <1>2, <1>3
  DEF Tied, Owner, Effective, Answered, Claimant, Holds, Stands, Key
<1>9. Reader(r)'  BY <1>1 DEF Tied, Reader, Opened, Stands, Key
<1>10. Resumer(r)'  BY <1>1 DEF Tied, Resumer, Key, approvals
<1>11. Tied(r)'  BY <1>8, <1>9, <1>10 DEF Tied
<1>. QED  BY <1>1, <1>4, <1>5, <1>6, <1>7, <1>11, QuietStep

\* An operator takes a record from a request that no longer needs it.
LEMMA OperatorPreserves ==
  ASSUME IInv, NEW k \in Keys, OperatorSettles(k)
  PROVE  IInv'
<1>. DEFINE rec == journal[k]
            o == IF handler[rec.token] = "committed" THEN "completed" ELSE "failed"
            new == WithOutcome(rec, o, None)
            D == {}  J == {k}
<1>1. /\ TypeOK /\ ApprovalsOK /\ Entry(k) /\ rec # None /\ rec.state = "pending"
      /\ pc[rec.token] = "done" /\ handler[rec.token] # "running"
      /\ journal' = [journal EXCEPT ![k] = new]
      /\ UNCHANGED <<approvals, pc, req, seen, handler, result, answer>>
  BY DEF IInv, OperatorSettles, requestVars
<1>2. rec \in JournalRecords /\ o \in Conclusive  BY <1>1 DEF TypeOK, Conclusive
<1>3. o \in Outcomes /\ o # "approval-required" /\ o # None
  BY <1>2, NoneIsNoRecord DEF Outcomes, Conclusive, Answers
<1>4. o = "completed" <=> handler[rec.token] = "committed"  OBVIOUS
<1>. HIDE DEF o
<1>5. /\ new \in JournalRecords /\ new # None
      /\ new.state = "settled" /\ new.outcome = o /\ new.token = rec.token
      /\ new.input = rec.input /\ new.contract = rec.contract /\ new.approval = rec.approval
  BY <1>2, <1>3, NoneIsNoRecord DEF WithOutcome, JournalRecords
<1>6. journal'[k] = new /\ \A x \in Keys \ {k} : journal'[x] = journal[x]
  BY <1>1 DEF TypeOK
<1>. HIDE DEF new
<1>7. TypeOK'  BY <1>1, <1>5 DEF TypeOK
<1>8. ApprovalsGrow  BY <1>1, ApprovalSteps
<1>9. Frame(D) /\ D \in SUBSET Requests /\ J \in SUBSET Keys
  BY <1>1 DEF Frame
<1>10. Monotone  BY <1>1, <1>8 DEF Monotone, ApprovalsGrow
<1>11. ApprovalsOK'  BY <1>8 DEF ApprovalsGrow
<1>12. \A x \in Keys \ J : journal'[x] = journal[x]  BY <1>6
<1>13. Advances(k, D)
  BY <1>1, <1>4, <1>5, <1>6 DEF Advances, Holds, Stands, Live
<1>14. Entry(k)'
  BY <1>1, <1>3, <1>4, <1>5, <1>6 DEF Entry, Opened, Stands
<1>15. \A x \in J : Advances(x, D) /\ Entry(x)'  BY <1>13, <1>14
<1>16. \A q \in D : Staged(q)' /\ Tied(q)'  OBVIOUS
<1>. HIDE DEF D, J
<1>. QED  BY <1>7, <1>9, <1>10, <1>11, <1>12, <1>15, <1>16, StepPreserves

LEMMA ApproverPreserves ==
  ASSUME IInv, Approver
  PROVE  IInv'
<1>. DEFINE D == {}  J == {}
<1>1. /\ TypeOK /\ ApprovalsOK
      /\ UNCHANGED <<journal, pc, req, seen, handler, result, answer>>
  BY DEF IInv, Approver, requestVars
<1>2. ApprovalsGrow  BY <1>1, ApprovalSteps DEF Approver
<1>3. Frame(D) /\ D \in SUBSET Requests /\ J \in SUBSET Keys
  BY <1>1 DEF Frame
<1>4. Monotone /\ ApprovalsOK' /\ TypeOK'
  BY <1>1, <1>2 DEF Monotone, ApprovalsGrow, TypeOK
<1>5. \A k \in Keys \ J : journal'[k] = journal[k]  BY <1>1
<1>6. \A k \in J : Advances(k, D) /\ Entry(k)'  OBVIOUS
<1>7. \A q \in D : Staged(q)' /\ Tied(q)'  OBVIOUS
<1>. HIDE DEF D, J
<1>. QED  BY <1>3, <1>4, <1>5, <1>6, <1>7, StepPreserves


-----------------------------------------------------------------------------
(***************************************************************************)
(* The invariant holds.                                                    *)
(***************************************************************************)
LEMMA InitEstablishes == Init => IInv
<1>. SUFFICES ASSUME Init PROVE IInv  OBVIOUS
<1>1. None \notin Answers /\ None \notin Outcomes /\ None \notin Conclusive
  BY NoneIsNoRecord DEF Answers, Outcomes, Conclusive
<1>2. TypeOK  BY DEF Init, TypeOK, Stages
<1>3. ApprovalsOK  BY DEF Init, Approval!Init, ApprovalsOK
<1>4. ASSUME NEW r \in Requests PROVE Staged(r) /\ Tied(r)
  BY <1>1
  DEF Init, Staged, Tied, Owner, Effective, Answered, Claimant, Reader, Resumer, Live
<1>5. \A k \in Keys : Entry(k)  BY DEF Init, Entry
<1>. QED  BY <1>2, <1>3, <1>4, <1>5 DEF IInv

LEMMA NextPreserves == IInv /\ [Next]_vars => IInv'
<1>. SUFFICES ASSUME IInv, [Next]_vars PROVE IInv'  OBVIOUS
<1>1. CASE UNCHANGED vars
  <2>1. UNCHANGED <<journal, phase, decider, user, pc, req, seen, handler, result, answer>>
    BY <1>1 DEF vars, approvals
  <2>2. TypeOK' /\ ApprovalsOK'  BY <2>1 DEF IInv, TypeOK, ApprovalsOK
  <2>3. \A r \in Requests : Staged(r)' /\ Tied(r)'
    BY <2>1 DEF IInv, Staged, Tied, Owner, Effective, Answered, Claimant, Reader, Resumer,
                Holds, Stands, Opened, Key
  <2>4. \A k \in Keys : Entry(k)'  BY <2>1 DEF IInv, Entry, Opened, Stands
  <2>. QED  BY <2>2, <2>3, <2>4 DEF IInv
<1>2. ASSUME NEW r \in Requests, Step(r) PROVE IInv'
  <2>1. ASSUME NEW q \in MayAsk[r], Refuse(r, q) \/ Accept(r, q) PROVE IInv'
    BY <2>1, RefusePreserves, AcceptPreserves
  <2>2. CASE Claim(r)  BY <2>2, ClaimPreserves
  <2>3. CASE Settle(r)  BY <2>3, SettlePreserves
  <2>4. CASE Read(r)  BY <2>4, ReadPreserves
  <2>5. CASE DecideResume(r)  BY <2>5, DecideResumePreserves
  <2>6. CASE ClaimResume(r)  BY <2>6, ClaimResumePreserves
  <2>7. CASE RuntimeSuspends(r)  BY <2>7, RuntimeSuspendsPreserves
  <2>8. CASE RuntimeFails(r)  BY <2>8, RuntimeFailsPreserves
  <2>9. CASE RuntimeCalls(r)  BY <2>9, RuntimeCallsPreserves
  <2>10. ASSUME NEW how \in {"committed", "stopped"}, HandlerEnds(r, how) PROVE IInv'
    BY <2>10, HandlerEndsPreserves
  <2>11. ASSUME NEW completed \in BOOLEAN, RuntimeAnswers(r, completed) PROVE IInv'
    BY <2>11, RuntimeAnswersPreserves
  <2>12. CASE Unauthorized(r) \/ Interrupted(r)  BY <2>12, EndingsPreserve
  <2>13. CASE Deadline(r)  BY <2>13, DeadlinePreserves
  <2>. QED  BY <1>2, <2>1, <2>2, <2>3, <2>4, <2>5, <2>6, <2>7, <2>8, <2>9, <2>10, <2>11,
               <2>12, <2>13 DEF Step
<1>3. ASSUME NEW k \in Keys, OperatorSettles(k) PROVE IInv'
  BY <1>3, OperatorPreserves
<1>4. CASE Approver  BY <1>4, ApproverPreserves
<1>. QED  BY <1>1, <1>2, <1>3, <1>4 DEF Next

\* Whoever is past the claim holds the record, whatever races, dies or is
\* taken over.
THEOREM Invariance == Spec => []IInv
BY InitEstablishes, NextPreserves, PTL DEF Spec

\* Every variable has the shape its comment says.
THEOREM TypeCorrectness == Spec => []TypeOK
<1>1. IInv => TypeOK  BY DEF IInv
<1>. QED  BY <1>1, Invariance, PTL

\* The clients of one invocation never hear two different final outcomes.
THEOREM ClientsAgree == Spec => []AnswersAgree
<1>1. IInv => AnswersAgree
  BY DEF IInv, Tied, Answered, Stands, Conclusive, AnswersAgree
<1>. QED  BY <1>1, Invariance, PTL

\* An invocation id reused for another input never yields that input's result.
THEOREM AnswersFit == Spec => []AnswersFitTheQuestion
<1>1. IInv => AnswersFitTheQuestion
  <2>. SUFFICES ASSUME IInv, NEW r \in Requests, answer[r] \in Outcomes, req[r].op = "invoke"
                PROVE  journal[Key(r)].input = req[r].input
    BY DEF AnswersFitTheQuestion
  <2>1. answer[r] # None  BY NoneIsNoRecord DEF Answers, Outcomes
  <2>2. req[r] # None  BY <2>1 DEF IInv, Staged
  <2>. QED  BY <2>2 DEF IInv, Tied, Answered
<1>. QED  BY <1>1, Invariance, PTL

\* A resumed handler runs what was approved, under the contract it was
\* approved for, and its approval is spent on it.
THEOREM ApprovedContract == Spec => []ApprovedContractExecutes
<1>1. IInv => ApprovedContractExecutes
  BY DEF IInv, Tied, Resumer, Key, ApprovedContractExecutes
<1>. QED  BY <1>1, Invariance, PTL


-----------------------------------------------------------------------------
(***************************************************************************)
(* The gateway keeps its promise.                                          *)
(***************************************************************************)
LEMMA StageFacts ==
  ASSUME NEW rec
  PROVE  /\ rec = None => StageOf(rec) = "new"
         /\ rec # None /\ rec.state # "settled" => StageOf(rec) = "open"
         /\ Stands(rec, "approval-required") => StageOf(rec) = "waiting"
         /\ \A o \in Conclusive : Stands(rec, o) => StageOf(rec) = o
BY DEF StageOf, Settled, Stands, Conclusive

\* Only the holder of a pending record can have taken effect.
LEMMA EffectOfOpen ==
  ASSUME IInv, NEW k \in Keys, NEW t \in Requests, Holds(t, k), req[t].key = k
  PROVE  Effect[k] = IF handler[t] = "committed" THEN {t} ELSE {}
<1>1. ASSUME NEW q \in Effect[k] PROVE q = t
  <2>1. q \in Requests /\ handler[q] = "committed" /\ Key(q) = k  BY DEF Effect, Key
  <2>2. Effective(q)  BY <2>1 DEF IInv, Tied
  <2>3. Holds(q, k)  BY <2>1, <2>2 DEF Effective, Holds, Stands
  <2>. QED  BY <2>3 DEF Holds
<1>2. t \in Effect[k] <=> handler[t] = "committed"  BY DEF Effect
<1>. QED  BY <1>1, <1>2

LEMMA EffectStays ==
  ASSUME \A q \in Requests : handler'[q] = "committed" <=> handler[q] = "committed",
         \A q \in Requests : handler[q] = "committed" => req'[q] = req[q]
  PROVE  Effect' = Effect
BY DEF Effect

\* The record of one invocation advances.
LEMMA StageMoves ==
  ASSUME TypeOK, NEW k \in Keys, NEW new, journal' = [journal EXCEPT ![k] = new]
  PROVE  Stage[k] = StageOf(journal[k]) /\ Stage' = [Stage EXCEPT ![k] = StageOf(new)]
BY DEF Stage, StageOf, Settled, TypeOK

LEMMA ClaimAdmits ==
  ASSUME IInv, NEW r \in Requests, Claim(r)
  PROVE  UNCHANGED <<Stage, Effect>> \/ \E k \in Keys : Promise!Admit(k)
<1>. DEFINE k == Key(r)
<1>1. TypeOK /\ pc[r] = "claim" /\ k \in Keys  BY AskedFacts DEF IInv, Claim
<1>2. Effect' = Effect  BY EffectStays DEF Claim
<1>3. CASE journal[k] = None
  <2>1. journal' = [journal EXCEPT ![k] = Claimed(r)]  BY <1>3 DEF Claim, Claimable
  <2>2. Claimed(r).state = "pending" /\ Claimed(r) # None
    <3>1. Claimed(r) \in JournalRecords
      BY <1>1, AskedFacts DEF IInv, Staged, Claimed, JournalRecords, Questions
    <3>. QED  BY <3>1, NoneIsNoRecord DEF Claimed
  <2>3. StageOf(journal[k]) = "new" /\ StageOf(Claimed(r)) = "open"
    BY <1>3, <2>2, StageFacts
  <2>4. Stage[k] = "new" /\ Stage' = [Stage EXCEPT ![k] = "open"]
    BY <1>1, <2>1, <2>3, StageMoves
  <2>. QED  BY <1>1, <1>2, <2>4 DEF Promise!Admit, Promise!Move
<1>4. CASE journal[k] # None
  <2>1. UNCHANGED journal  BY <1>4 DEF Claim, Claimable
  <2>. QED  BY <1>2, <2>1 DEF Stage
<1>. QED  BY <1>3, <1>4

LEMMA HandlerActs ==
  ASSUME IInv, NEW r \in Requests, NEW how \in {"committed", "stopped"}, HandlerEnds(r, how)
  PROVE  UNCHANGED <<Stage, Effect>> \/ \E k \in Keys : Promise!Act(k, r)
<1>. DEFINE k == Key(r)
<1>1. /\ TypeOK /\ Staged(r) /\ Tied(r) /\ handler[r] = "running"
      /\ handler' = [handler EXCEPT ![r] = how] /\ UNCHANGED <<journal, req>>
  BY DEF IInv, HandlerEnds
<1>2. k \in Keys /\ Holds(r, k)
  BY <1>1, AskedFacts DEF Staged, Tied, Owner
<1>3. Stage' = Stage /\ Stage[k] = "open"
  BY <1>1, <1>2, StageFacts DEF Stage, Holds
<1>4. CASE how = "stopped"
  <2>1. Effect' = Effect  BY <1>1, <1>4, EffectStays DEF TypeOK
  <2>. QED  BY <1>3, <2>1
<1>5. CASE how = "committed"
  <2>1. Effect[k] = {}  BY <1>1, <1>2, EffectOfOpen DEF Key
  <2>2. \A q \in Requests : handler'[q] = IF q = r THEN "committed" ELSE handler[q]
    BY <1>1, <1>5 DEF TypeOK
  <2>3. Effect' = [Effect EXCEPT ![k] = {r}]
    <3>1. \A x \in Keys : Effect'[x] = IF x = k THEN {r} ELSE Effect[x]
      <4>. TAKE x \in Keys
      <4>1. Effect'[x] = {q \in Requests : handler'[q] = "committed" /\ req[q].key = x}
        BY <1>1 DEF Effect
      <4>2. CASE x = k
        <5>1. \A q \in Requests : ~(handler[q] = "committed" /\ req[q].key = k)
          BY <1>2, <2>1 DEF Effect
        <5>2. \A q \in Requests : (handler'[q] = "committed" /\ req[q].key = x) <=> q = r
          BY <2>2, <4>2, <5>1 DEF Key
        <5>. QED  BY <4>1, <4>2, <5>2
      <4>3. CASE x # k  BY <2>2, <4>1, <4>3 DEF Effect, Key
      <4>. QED  BY <4>2, <4>3
    <3>. QED  BY <1>2, <3>1 DEF Effect
  <2>. QED  BY <1>2, <1>3, <2>1, <2>3 DEF Promise!Act
<1>. QED  BY <1>4, <1>5

\* What a record is settled with tells the truth about the effect.
LEMMA SettlingTellsTheTruth ==
  ASSUME IInv, NEW k \in Keys, NEW t \in Requests, Holds(t, k), req[t].key = k,
         NEW o \in Outcomes, o # None, o = "completed" <=> handler[t] = "committed",
         NEW approval \in Requests \cup {None},
         journal' = [journal EXCEPT ![k] = WithOutcome(journal[k], o, approval)],
         UNCHANGED <<handler, req>>
  PROVE  \E final \in {"waiting", "completed", "failed"} : Promise!Settle(k, final)
<1>. DEFINE new == WithOutcome(journal[k], o, approval)
<1>1. TypeOK /\ journal[k] \in JournalRecords /\ journal[k].state = "pending"
  BY DEF IInv, TypeOK, Holds
<1>2. new \in JournalRecords /\ new # None /\ new.state = "settled" /\ new.outcome = o
  <2>1. new \in JournalRecords  BY <1>1 DEF WithOutcome, JournalRecords
  <2>2. new.state = "settled" /\ new.outcome = o  BY <1>1 DEF WithOutcome, JournalRecords
  <2>. QED  BY <2>1, <2>2, NoneIsNoRecord
<1>. HIDE DEF new
<1>3. Stage[k] = "open" /\ Stage' = [Stage EXCEPT ![k] = StageOf(new)]
  BY <1>1, StageMoves, StageFacts DEF new, Holds
<1>4. Effect' = Effect /\ (o = "completed" <=> Effect[k] # {})
  BY EffectStays, EffectOfOpen
<1>5. StageOf(new) = IF o = "approval-required" THEN "waiting" ELSE o
  BY <1>2, StageFacts DEF Stands, Conclusive, Outcomes
<1>6. /\ StageOf(new) \in {"waiting", "completed", "failed"}
      /\ StageOf(new) = "completed" <=> o = "completed"
  BY <1>5 DEF Outcomes
<1>7. Promise!Settle(k, StageOf(new))
  BY <1>3, <1>4, <1>6 DEF Promise!Settle, Promise!Move
<1>. QED  BY <1>6, <1>7

LEMMA SettleSettles ==
  ASSUME IInv, NEW r \in Requests, Settle(r)
  PROVE  \E k \in Keys : \E o \in {"waiting", "completed", "failed"} : Promise!Settle(k, o)
<1>. DEFINE k == Key(r)
<1>1. Staged(r) /\ Tied(r) /\ pc[r] = "settle" /\ k \in Keys /\ UNCHANGED <<handler, req>>
  BY AskedFacts DEF IInv, Settle
<1>2. Holds(r, k)  BY <1>1 DEF Tied, Owner, Live
<1>3. journal' = [journal EXCEPT ![k] = WithOutcome(journal[k], result[r], r)]
  BY <1>2 DEF Settle, Owns, Holds
<1>4. /\ result[r] \in Outcomes /\ result[r] # None
      /\ result[r] = "completed" <=> handler[r] = "committed"
  BY <1>1 DEF IInv, TypeOK, Staged
<1>. QED  BY <1>1, <1>2, <1>3, <1>4, SettlingTellsTheTruth DEF Key

LEMMA OperatorSettlesTruly ==
  ASSUME IInv, NEW k \in Keys, OperatorSettles(k)
  PROVE  \E o \in {"waiting", "completed", "failed"} : Promise!Settle(k, o)
<1>. DEFINE t == journal[k].token
            o == IF handler[t] = "committed" THEN "completed" ELSE "failed"
<1>1. /\ t \in Requests /\ Holds(t, k) /\ req[t].key = k
      /\ journal' = [journal EXCEPT ![k] = WithOutcome(journal[k], o, None)]
      /\ UNCHANGED <<handler, req>>
  BY DEF IInv, TypeOK, Entry, OperatorSettles, requestVars, Holds, JournalRecords
<1>2. o \in Outcomes /\ o # None /\ (o = "completed" <=> handler[t] = "committed")
  BY NoneIsNoRecord DEF Outcomes, Answers
<1>. HIDE DEF t, o
<1>. QED  BY <1>1, <1>2, SettlingTellsTheTruth

LEMMA ClaimResumeContinues ==
  ASSUME IInv, NEW r \in Requests, ClaimResume(r)
  PROVE  UNCHANGED <<Stage, Effect>> \/ \E k \in Keys : Promise!Continue(k)
<1>. DEFINE k == Key(r)
            new == [journal[k] EXCEPT !.state = "pending", !.token = r, !.outcome = None]
<1>1. TypeOK /\ Staged(r) /\ Tied(r) /\ pc[r] = "claimResume" /\ k \in Keys
  BY AskedFacts DEF IInv, ClaimResume
<1>2. journal[k] \in JournalRecords /\ journal[k] # None
  BY <1>1 DEF TypeOK, Tied, Resumer, Staged
<1>3. Effect' = Effect  BY EffectStays DEF ClaimResume
<1>4. CASE Waiting(journal[k], req[r].approval)
  <2>1. journal' = [journal EXCEPT ![k] = new]  BY <1>4 DEF ClaimResume
  <2>2. new \in JournalRecords /\ new # None /\ new.state = "pending"
    BY <1>2, NoneIsNoRecord DEF JournalRecords
  <2>. HIDE DEF new
  <2>3. StageOf(journal[k]) = "waiting" /\ StageOf(new) = "open"
    BY <1>2, <1>4, <2>2, StageFacts DEF Waiting, Settled, Stands
  <2>4. Stage[k] = "waiting" /\ Stage' = [Stage EXCEPT ![k] = "open"]
    BY <1>1, <2>1, <2>3, StageMoves
  <2>. QED  BY <1>1, <1>3, <2>4 DEF Promise!Continue, Promise!Move
<1>5. CASE ~Waiting(journal[k], req[r].approval)
  <2>1. UNCHANGED journal  BY <1>5 DEF ClaimResume
  <2>. QED  BY <1>3, <2>1 DEF Stage
<1>. QED  BY <1>4, <1>5

\* Steps that neither touch the journal nor end a handler stutter.
LEMMA StepStutters ==
  ASSUME IInv, NEW r \in Requests, Step(r), ~Claim(r), ~Settle(r), ~ClaimResume(r),
         \A how \in {"committed", "stopped"} : ~HandlerEnds(r, how)
  PROVE  UNCHANGED <<Stage, Effect>>
<1>1. TypeOK /\ Staged(r)  BY DEF IInv
<1>2. UNCHANGED journal
  BY DEF Step, Refuse, Accept, Read, DecideResume, RuntimeSuspends, RuntimeFails,
         RuntimeCalls, RuntimeAnswers, Unauthorized, Interrupted, Deadline
<1>3. CASE \E q \in MayAsk[r] : Refuse(r, q) \/ Accept(r, q)
  <2>1. handler' = handler /\ handler[r] = "none"
        /\ \A x \in Requests \ {r} : req'[x] = req[x]
    BY <1>1, <1>3 DEF Refuse, Accept, Staged, TypeOK
  <2>. QED  BY <1>2, <2>1, EffectStays DEF Stage
<1>4. CASE RuntimeCalls(r)
  <2>1. /\ req' = req /\ handler[r] = "none" /\ handler'[r] = "running"
        /\ \A x \in Requests \ {r} : handler'[x] = handler[x]
    BY <1>1, <1>4 DEF RuntimeCalls, Staged, TypeOK
  <2>. QED  BY <1>2, <2>1, EffectStays DEF Stage
<1>5. CASE UNCHANGED <<handler, req>>
  BY <1>2, <1>5, EffectStays DEF Stage
<1>. QED  BY <1>3, <1>4, <1>5
     DEF Step, Read, DecideResume, RuntimeSuspends, RuntimeFails, RuntimeAnswers,
         Unauthorized, Interrupted, Deadline

LEMMA NextRefines == IInv /\ [Next]_vars => [Promise!Next]_(Promise!promise)
<1>. SUFFICES ASSUME IInv, [Next]_vars PROVE [Promise!Next]_(Promise!promise)
  OBVIOUS
<1>1. CASE UNCHANGED vars \/ Approver
  <2>1. UNCHANGED <<journal, handler, req>>
    BY <1>1 DEF vars, Approver, requestVars
  <2>. QED  BY <2>1, EffectStays DEF Stage, Promise!promise
<1>2. ASSUME NEW r \in Requests, Step(r) PROVE [Promise!Next]_(Promise!promise)
  <2>1. CASE Claim(r)  BY <2>1, ClaimAdmits DEF Promise!Next, Promise!promise
  <2>2. CASE Settle(r)  BY <2>2, SettleSettles DEF Promise!Next
  <2>3. CASE ClaimResume(r)  BY <2>3, ClaimResumeContinues DEF Promise!Next, Promise!promise
  <2>4. ASSUME NEW how \in {"committed", "stopped"}, HandlerEnds(r, how)
        PROVE  [Promise!Next]_(Promise!promise)
    BY <2>4, HandlerActs DEF Promise!Next, Promise!promise
  <2>5. CASE /\ ~Claim(r) /\ ~Settle(r) /\ ~ClaimResume(r)
             /\ \A how \in {"committed", "stopped"} : ~HandlerEnds(r, how)
    BY <1>2, <2>5, StepStutters DEF Promise!promise
  <2>. QED  BY <2>1, <2>2, <2>3, <2>4, <2>5
<1>3. ASSUME NEW k \in Keys, OperatorSettles(k) PROVE [Promise!Next]_(Promise!promise)
  BY <1>3, OperatorSettlesTruly DEF Promise!Next
<1>. QED  BY <1>1, <1>2, <1>3 DEF Next

LEMMA InitRefines == Init => Promise!Init
<1>. SUFFICES ASSUME Init PROVE Promise!Init  OBVIOUS
<1>1. Stage = [k \in Keys |-> "new"]  BY DEF Init, Stage, StageOf
<1>2. Effect = [k \in Keys |-> {}]  BY DEF Init, Effect
<1>. QED  BY <1>1, <1>2 DEF Promise!Init

\* Whatever requests repeat, race, die or are taken over by an operator, an
\* invocation is admitted once, its effect happens once, and what the journal
\* settles is true and stays.
THEOREM PromiseKept == Spec => KeepsPromise
BY InitRefines, NextRefines, Invariance, PTL DEF Spec, KeepsPromise, Promise!Spec
=============================================================================
