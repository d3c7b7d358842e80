--------------------------- MODULE McpSessionProofs ---------------------------
(***************************************************************************)
(* Theorems about McpSession, for any number of requests, connections,     *)
(* principals and sessions, and for every server that starts.              *)
(*                                                                         *)
(* The inductive invariant IInv follows an identity on its way: what is    *)
(* kept for a session was asked for by the connection that is open (Kept), *)
(* and a request waits for a promise of its own connection (Waits), which  *)
(* answers with the principal of that connection.  A promise is made once, *)
(* by a request that has just arrived, so nobody who waits for it finds    *)
(* another one in its place.  A second invariant on top of it, Thrift,     *)
(* keeps the account of how often createContext is asked.                  *)
(***************************************************************************)
EXTENDS McpSession, FiniteSetTheorems, TLAPS

Kept ==
  /\ \A s \in Sessions : identities[s] # None =>
       /\ open
       /\ promise[identities[s]].state # "none"
       /\ promise[identities[s]].connection = connection
  /\ \A q \in Requests : request[q].phase = "idle" => promise[q].state = "none"

Waits ==
  \A q \in Requests : request[q].phase = "waiting" =>
    /\ request[q].via \in Requests
    /\ promise[request[q].via].state # "none"
    /\ promise[request[q].via].connection = request[q].connection
    /\ request[q].expires = None \/ request[q].at < request[q].expires

Lists ==
  /\ Starts(server)
  /\ \A q \in Requests : request[q].phase = "answered" /\ request[q].question.op = "list" =>
       \E described \in SUBSET server.exposed : request[q].reply = Listed(server, described)

IInv == TypeOK /\ Kept /\ Waits /\ ServedAsItself /\ Lists /\ ForeignIsUnknown

-----------------------------------------------------------------------------
LEMMA InvInit == Init => IInv
<1> SUFFICES ASSUME Init PROVE IInv
  OBVIOUS
<1>1. \A q \in Requests : /\ IsPromise(promise[q]) /\ promise[q].state = "none"
                          /\ IsRequest(q, request[q]) /\ request[q].phase = "idle"
  BY DEF Init, IsPromise, IsRequest, NoPromise, NoRequest, Fields
<1>2. clock \in Times /\ connection \in Nat
  BY ClockIsFinite, SMT DEF Init, Times
<1>3. TypeOK
  BY <1>1, <1>2, Zenon DEF TypeOK, Init
<1>4. Kept /\ Waits /\ ServedAsItself /\ Lists /\ ForeignIsUnknown
  BY <1>1 DEF Init, Kept, Waits, ServedAsItself, ServingOrServed, Lists, ForeignIsUnknown
<1> QED BY <1>3, <1>4 DEF IInv

\* What the answers have in common: a request that is being served is
\* answered, and no more of the connection changes.
Answers(q) ==
  /\ request[q].phase = "serving"
  /\ \E reply : request' = [request EXCEPT ![q].phase = "answered", ![q].reply = reply]
  /\ UNCHANGED <<server, clock, connection, open, identities, promise>>

Answer(q) ==
  \/ \E described \in SUBSET server.exposed : ListTools(q, described)
  \/ CallUnknown(q) \/ CallCompletes(q) \/ CallSuspends(q)
  \/ \E thrown \in Throws : CallThrows(q, thrown)
  \/ ResumeNothing(q) \/ ResumeFails(q) \/ ResumeExecutes(q)

LEMMA AnswersAnswer ==
  ASSUME NEW q \in Requests, Answer(q) PROVE Answers(q)
  BY Zenon DEF Answer, Answers, ListTools, CallUnknown, CallCompletes, CallSuspends, CallThrows,
     ResumeNothing, ResumeFails, ResumeExecutes, Replies, Fails, Calls, Resumes, session

\* Except for what is replied, an answer keeps the invariant.
LEMMA AnswersKeep ==
  ASSUME IInv, NEW q \in Requests, Answers(q),
         approval' \in Approvals \cup {None}
  PROVE TypeOK' /\ Kept' /\ Waits' /\ ServedAsItself'
  BY SMTT(30) DEF IInv, TypeOK, IsPromise, IsRequest, Kept, Waits, ServedAsItself, ServingOrServed, Answers, Fields

\* A list of tools is what describe gave, under the names of the server.
LEMMA AnswersList ==
  ASSUME IInv, NEW q \in Requests, Answer(q) PROVE Lists'
<1>1. Answers(q)
  BY AnswersAnswer
<1>2. server' = server /\ request[q].phase = "serving"
  BY <1>1 DEF Answers
<1>3. ASSUME NEW r \in Requests, request'[r].phase = "answered", request'[r].question.op = "list"
      PROVE \E described \in SUBSET server.exposed : request'[r].reply = Listed(server, described)
  <2>1. CASE r # q
    BY <1>1, <1>3, <2>1, SMT DEF IInv, TypeOK, IsPromise, IsRequest, Lists, Answers
  <2>2. CASE r = q
    <3>1. request[q].question = request'[q].question
      BY <1>1, SMT DEF IInv, TypeOK, IsPromise, IsRequest, Answers, Fields
    <3>2. PICK described \in SUBSET server.exposed : ListTools(q, described)
      BY <1>3, <2>2, <3>1, Zenon DEF Answer, CallUnknown, CallCompletes, CallSuspends,
         CallThrows, ResumeNothing, ResumeFails, ResumeExecutes, Calls, Resumes
    <3>3. request'[q].reply = Listed(server, described)
      BY <3>2, SMT DEF IInv, TypeOK, IsPromise, IsRequest, ListTools, Replies, Fields
    <3> QED BY <2>2, <3>3
  <2> QED BY <2>1, <2>2
<1> QED BY <1>2, <1>3 DEF IInv, Lists

\* What a resumption of somebody else's approval is told.
LEMMA ForeignResume ==
  ASSUME NEW record, NEW actor, record = None \/ record.requester # actor
  PROVE /\ ResumeError(record, actor) # None
        /\ Serialized(ResumeError(record, actor)) = Serialized(ErrorOf("INTERNAL_ERROR"))
<1>1. ResumeError(record, actor) \in {ErrorOf("INTERNAL_ERROR"), ErrorOf("APPROVAL_RESUME_MISMATCH")}
  BY DEF ResumeError
<1>2. ASSUME NEW code \in {"INTERNAL_ERROR", "APPROVAL_RESUME_MISMATCH"}
      PROVE ErrorOf(code) # None /\ Serialized(ErrorOf(code)) = Generic
  BY NoneIsNoError DEF Codes, ErrorOf, Concealed, Serialized
<1> QED BY <1>1, <1>2

\* Approvals stay, and stay their requester's.
LEMMA ApprovalsStay ==
  ASSUME IInv, NEW q \in Requests, Answer(q)
  PROVE /\ approval # None => approval' # None /\ approval'.requester = approval.requester
        /\ approval' \in Approvals \cup {None}
<1>1. CASE CallSuspends(q)
  BY <1>1, SMT DEF IInv, TypeOK, IsPromise, IsRequest, CallSuspends, Approvals, Calls, ServedAsItself, ServingOrServed
<1>2. CASE ResumeExecutes(q)
  <2>1. approval \in Approvals
    BY <1>2, ForeignResume DEF ResumeExecutes, RecordOf, IInv, TypeOK, IsPromise, IsRequest
  <2>2. approval' = [approval EXCEPT !.status = "consumed", !.by = q]
    BY <1>2 DEF ResumeExecutes
  <2>3. approval' \in Approvals /\ approval'.requester = approval.requester
    <3> DEFINE spent == [approval EXCEPT !.status = "consumed"]
    <3>1. spent \in Approvals /\ spent.requester = approval.requester
      BY <2>1, SMT DEF Approvals
    <3>2. approval' = [spent EXCEPT !.by = q]
      BY <2>2
    <3> HIDE DEF spent
    <3> QED BY <3>1, <3>2, SMT DEF Approvals
  <2> QED BY <2>3, NoneIsNoApproval
<1>3. CASE approval' = approval
  BY <1>3 DEF IInv, TypeOK, IsPromise, IsRequest
<1> QED BY <1>1, <1>2, <1>3, Zenon DEF Answer, ListTools, CallUnknown, CallCompletes, CallThrows,
        ResumeNothing, ResumeFails, session

LEMMA AnswersConceal ==
  ASSUME IInv, NEW q \in Requests, Answer(q) PROVE ForeignIsUnknown'
<1> DEFINE Asks(r) == /\ request[r].phase = "answered" /\ request[r].question.op = "call"
                      /\ Target(r) = None /\ request[r].question.id # None
           Owns(r) == /\ approval # None /\ approval.requester = request[r].actor
                      /\ request[r].question.id = "known"
           Unknown(r) == request[r].reply = Serialized(ErrorOf("INTERNAL_ERROR"))
<1>1. Answers(q)
  BY AnswersAnswer
<1>2. /\ approval # None => approval' # None /\ approval'.requester = approval.requester
      /\ server' = server
  BY ApprovalsStay, <1>1 DEF Answers
<1>3. ASSUME NEW r \in Requests, r # q, Asks(r)' PROVE Owns(r)' \/ Unknown(r)'
  <2>1. request'[r] = request[r]
    BY <1>1, <1>3, SMT DEF IInv, TypeOK, IsPromise, IsRequest, Answers
  <2>2. Asks(r) /\ (Owns(r) \/ Unknown(r))
    BY <1>2, <1>3, <2>1 DEF IInv, ForeignIsUnknown, Target
  <2> QED BY <1>2, <2>1, <2>2
<1>4. ASSUME Asks(q)' PROVE Owns(q)' \/ Unknown(q)'
  <2>1. /\ request'[q].question = request[q].question /\ request'[q].actor = request[q].actor
        /\ DOMAIN request[q] = Fields /\ q \in DOMAIN request
    BY <1>1, SMT DEF IInv, TypeOK, IsPromise, IsRequest, Answers, Fields
  <2>2. Resumes(q) /\ request[q].question.id # None
    BY <1>1, <1>2, <1>4, <2>1 DEF Answers, Resumes, Calls, Target
  <2>3. Target(q) \notin server.exposed
    BY <2>2, ServersAreServers DEF Resumes, IInv, TypeOK, IsPromise, IsRequest, IsServer
  <2>4. ResumeFails(q) \/ ResumeExecutes(q)
    BY <2>2, <2>3, Zenon DEF Answer, ListTools, CallUnknown, CallCompletes, CallSuspends,
       CallThrows, ResumeNothing, Calls, Resumes
  <2> DEFINE record == RecordOf(request[q].question.id)
             error == ResumeError(record, request[q].actor)
  <2>5. CASE record # None /\ record.requester = request[q].actor
    BY <2>1, <2>5, <1>2 DEF RecordOf
  <2>6. CASE record = None \/ record.requester # request[q].actor
    <3>1. error # None /\ Serialized(error) = Serialized(ErrorOf("INTERNAL_ERROR"))
      BY <2>6, ForeignResume
    <3>2. ResumeFails(q)
      BY <2>4, <3>1 DEF ResumeExecutes
    <3>3. request' = [request EXCEPT ![q].phase = "answered", ![q].reply = Serialized(error)]
      BY <3>2, Zenon DEF ResumeFails, Fails, Replies
    <3>4. ASSUME NEW reply,
                 request' = [request EXCEPT ![q].phase = "answered", ![q].reply = reply]
          PROVE request'[q].reply = reply
      <4> DEFINE answered == [request EXCEPT ![q].phase = "answered"]
      <4>1. DOMAIN answered[q] = Fields /\ q \in DOMAIN answered
        BY <2>1, SMT DEF Fields
      <4>2. request' = [answered EXCEPT ![q].reply = reply]
        BY <3>4
      <4> HIDE DEF answered
      <4> QED BY <4>1, <4>2, SMT DEF Fields
    <3> QED BY <3>1, <3>3, <3>4
  <2> QED BY <2>5, <2>6
<1> QED BY <1>3, <1>4 DEF ForeignIsUnknown

-----------------------------------------------------------------------------
\* A step that answers nobody leaves the answers as they are.
LEMMA AnswersStay ==
  ASSUME IInv, server' = server,
         approval # None => approval' # None /\ approval'.requester = approval.requester,
         \A q \in Requests : request'[q] = request[q] \/ request'[q].phase # "answered"
  PROVE Lists' /\ ForeignIsUnknown'
BY DEF IInv, Lists, ForeignIsUnknown, Target

Arrives(q, question, expires) ==
  \/ ArriveExpired(q, question, expires)
  \/ AskIdentity(q, question, expires)
  \/ AskInVain(q, question, expires)
  \/ ShareIdentity(q, question, expires)

LEMMA ArriveKeeps ==
  ASSUME IInv, NEW q \in Requests, NEW question \in MayAsk[q], NEW expires \in Lifetimes[q],
         Arrives(q, question, expires)
  PROVE IInv'
<1>1. /\ request[q].phase = "idle" /\ open
      /\ UNCHANGED <<server, clock, connection, open, approval>>
  BY Zenon DEF Arrives, ArriveExpired, AskIdentity, AskInVain, ShareIdentity, session
<1>2. /\ connection \in Connections /\ promise[q].state = "none"
      /\ clock \in Times /\ DOMAIN request = Requests /\ SessionOf[connection] \in Sessions
  <2>1. connection \in Connections /\ clock \in Times /\ DOMAIN request = Requests
    BY <1>1, Zenon DEF IInv, TypeOK, IsPromise, IsRequest
  <2>2. promise[q].state = "none"
    BY <1>1 DEF IInv, Kept
  <2> QED BY <2>1, <2>2 DEF Sessions
<1>3. PICK phase \in {"waiting", "unauthorized"}, via \in Requests \cup {None} :
        /\ request' = [request EXCEPT ![q] = Arrived(question, expires, phase, via)]
        /\ phase = "waiting" => /\ ~Expired(expires) /\ via = identities'[SessionOf[connection]]
                                /\ via # None
  <2>1. CASE ArriveExpired(q, question, expires)
    BY <2>1 DEF ArriveExpired
  <2>2. CASE AskIdentity(q, question, expires)
    BY <1>2, <2>2, NobodyIsNoRequest DEF AskIdentity, IInv, TypeOK, IsPromise, IsRequest
  <2>3. CASE AskInVain(q, question, expires)
    BY <2>3 DEF AskInVain
  <2>4. CASE ShareIdentity(q, question, expires)
    BY <1>2, <2>4 DEF ShareIdentity, IInv, TypeOK, IsPromise, IsRequest
  <2> QED BY <2>1, <2>2, <2>3, <2>4 DEF Arrives
<1>4. /\ \A r \in Requests : promise'[r] = promise[r] \/ r = q
      /\ promise'[q] \in {promise[q], Asked}
      /\ DOMAIN promise' = Requests
      /\ \A s \in Sessions : \/ identities'[s] \in {identities[s], None}
                             \/ identities'[s] = q /\ promise'[q].state = "pending"
      /\ identities' \in [Sessions -> Requests \cup {None}]
  BY <1>1, <1>2, SMT DEF Asked, Arrives, ArriveExpired, AskIdentity, AskInVain, ShareIdentity, IInv, TypeOK, IsPromise, IsRequest
<1>5. Kept'
  BY <1>1, <1>2, <1>3, <1>4, SMT DEF IInv, TypeOK, IsPromise, IsRequest, Kept, Asked, Arrived
<1>6. TypeOK'
  BY <1>1, <1>2, <1>3, <1>4, SMT DEF IInv, TypeOK, IsPromise, IsRequest, Fields, Asked, Arrived
<1>7. Waits'
  BY <1>1, <1>2, <1>3, <1>4, <1>5, <1>6, TokensExpireOnce, ClockIsFinite, SMT
     DEF IInv, TypeOK, IsPromise, IsRequest, Kept, Waits, Expired, Times, Asked, Arrived
<1>8. ServedAsItself'
  BY <1>1, <1>2, <1>3, SMT DEF IInv, ServedAsItself, ServingOrServed, Arrived
<1>9. Lists' /\ ForeignIsUnknown'
  BY <1>1, <1>2, <1>3, AnswersStay, SMT DEF IInv, TypeOK, IsPromise, IsRequest, Arrived
<1> QED BY <1>5, <1>6, <1>7, <1>8, <1>9 DEF IInv

\* A promise that is answered, and what else may happen to the identities.
LEMMA PromisesKeep ==
  ASSUME IInv, NEW q \in Requests, Resolves(q) \/ Rejects(q) PROVE IInv'
<1>1. /\ promise[q].state = "pending" /\ promise[q].connection \in Connections
      /\ UNCHANGED <<server, clock, connection, open, approval, request>>
  BY Zenon DEF Resolves, Rejects, session, IInv, TypeOK, IsPromise, IsRequest
<1>2. PICK state \in {"resolved", "rejected"} : promise' = [promise EXCEPT ![q].state = state]
  BY DEF Resolves, Rejects
<1>3. /\ identities' \in [Sessions -> Requests \cup {None}]
      /\ \A s \in Sessions : identities'[s] \in {identities[s], None}
  BY SMT DEF Resolves, Rejects, IInv, TypeOK, IsPromise, IsRequest
<1>4. TypeOK' /\ Kept' /\ Waits'
  BY <1>1, <1>2, <1>3, SMT DEF IInv, TypeOK, IsPromise, IsRequest, Kept, Waits
<1>5. ServedAsItself' /\ Lists' /\ ForeignIsUnknown'
  BY <1>1, AnswersStay DEF IInv, ServedAsItself, ServingOrServed
<1> QED BY <1>4, <1>5 DEF IInv

\* A request finds the promise it waited for answered.
LEMMA AwaitChanges ==
  ASSUME IInv, NEW q \in Requests, Identified(q) \/ Unidentified(q)
  PROVE /\ request[q].phase = "waiting"
        /\ UNCHANGED <<server, clock, connection, open, approval, identities, promise>>
        /\ \A r \in Requests \ {q} : request'[r] = request[r]
        /\ \A field \in Fields \ {"phase", "via", "actor"} : request'[q][field] = request[q][field]
        /\ DOMAIN request' = Requests /\ DOMAIN request'[q] = Fields
        /\ \/ request'[q].phase = "unauthorized"
           \/ /\ request'[q].phase = "serving"
              /\ request'[q].actor = PrincipalOf[promise[request[q].via].connection]
<1>1. /\ request[q].phase = "waiting"
      /\ UNCHANGED <<server, clock, connection, open, approval, identities, promise>>
  BY Zenon DEF Identified, Unidentified, session
<1> DEFINE ended(phase) == [request EXCEPT ![q].phase = phase]
           left(phase) == [ended(phase) EXCEPT ![q].via = None]
           actor == PrincipalOf[promise[request[q].via].connection]
<1>2. ASSUME NEW phase
      PROVE /\ \A r \in Requests \ {q} : left(phase)[r] = request[r]
            /\ \A field \in Fields \ {"phase", "via"} : left(phase)[q][field] = request[q][field]
            /\ DOMAIN left(phase) = Requests /\ DOMAIN left(phase)[q] = Fields
            /\ left(phase)[q].phase = phase
  <2>1. /\ \A r \in Requests \ {q} : ended(phase)[r] = request[r]
        /\ \A field \in Fields \ {"phase"} : ended(phase)[q][field] = request[q][field]
        /\ DOMAIN ended(phase) = Requests /\ DOMAIN ended(phase)[q] = Fields
        /\ ended(phase)[q].phase = phase
    BY SMT DEF IInv, TypeOK, IsPromise, IsRequest, Fields
  <2> HIDE DEF ended
  <2> QED BY <2>1, SMT DEF Fields
<1>3. CASE Unidentified(q)
  <2>1. request' = left("unauthorized")
    BY <1>3 DEF Unidentified
  <2> HIDE DEF left
  <2> QED BY <1>1, <1>2, <2>1
<1>4. CASE Identified(q)
  <2>1. request' = [left("serving") EXCEPT ![q].actor = actor]
    BY <1>4 DEF Identified
  <2> HIDE DEF left, actor
  <2>2. request'[q].actor = actor /\ request'[q].phase = "serving"
    BY <1>2, <2>1, SMTT(30) DEF Fields
  <2> QED BY <1>1, <1>2, <2>1, <2>2, SMTT(30) DEF Fields, actor
<1> QED BY <1>3, <1>4

LEMMA AwaitKeeps ==
  ASSUME IInv, NEW q \in Requests, Identified(q) \/ Unidentified(q) PROVE IInv'
<1>1. TypeOK' /\ Kept' /\ Waits' /\ ServedAsItself'
  BY AwaitChanges, SMTT(30) DEF IInv, TypeOK, IsPromise, IsRequest, Kept, Waits, Fields, ServedAsItself, ServingOrServed
<1>2. Lists' /\ ForeignIsUnknown'
  BY AwaitChanges, AnswersStay, SMT DEF IInv, TypeOK, IsPromise, IsRequest
<1> QED BY <1>1, <1>2 DEF IInv

LEMMA AnswerKeeps ==
  ASSUME IInv, NEW q \in Requests, Answer(q) PROVE IInv'
  BY AnswersAnswer, AnswersKeep, ApprovalsStay, AnswersList, AnswersConceal DEF IInv

\* The rest of the world.
LEMMA WorldKeeps ==
  ASSUME IInv,
         \/ \E status \in {"approved", "rejected", "expired"} : ApprovalChanges(status)
         \/ Close \/ Connect \/ Tick \/ UNCHANGED vars
  PROVE IInv'
<1>1. server' = server /\ promise' = promise /\ request' = request
  BY Zenon DEF ApprovalChanges, Close, Connect, Tick, vars
<1>2. /\ approval # None => approval' # None /\ approval'.requester = approval.requester
      /\ approval' \in Approvals \cup {None}
  <2>1. CASE approval' = approval
    BY <2>1 DEF IInv, TypeOK, IsPromise, IsRequest
  <2>2. ASSUME NEW status \in {"approved", "rejected", "expired"}, ApprovalChanges(status)
        PROVE approval' \in Approvals /\ approval'.requester = approval.requester
    BY <2>2, SMT DEF ApprovalChanges, Approvals, IInv, TypeOK, IsPromise, IsRequest
  <2> QED BY <2>1, <2>2, NoneIsNoApproval, Zenon DEF Close, Connect, Tick, vars
<1>3. clock' \in Times
  BY ClockIsFinite, SMT DEF IInv, TypeOK, IsPromise, IsRequest, Times, ApprovalChanges, Close, Connect, Tick, vars
<1>4. /\ identities' \in [Sessions -> Requests \cup {None}]
      /\ connection' \in Nat /\ open' \in BOOLEAN
      /\ open' => connection' \in Connections
  <2>1. CASE UNCHANGED <<connection, open, identities>>
    BY <2>1, Zenon DEF IInv, TypeOK
  <2>2. CASE Close
    BY <2>2 DEF Close, IInv, TypeOK
  <2>3. CASE Connect
    BY <2>3, ConnectionsAreNumbered DEF Connect, IInv, TypeOK
  <2> QED BY <2>1, <2>2, <2>3, Zenon DEF ApprovalChanges, Tick, vars
<1>5. TypeOK'
  BY <1>1, <1>2, <1>3, <1>4, Zenon DEF IInv, TypeOK
<1>6. \A s \in Sessions : identities'[s] # None =>
        open /\ open' /\ connection' = connection /\ identities'[s] = identities[s]
  <2>1. CASE UNCHANGED <<connection, open, identities>>
    BY <2>1, Zenon DEF IInv, Kept
  <2>2. CASE Close
    BY <2>2, Zenon DEF Close
  <2>3. CASE Connect
    BY <2>3, Zenon DEF Connect, IInv, Kept
  <2> QED BY <2>1, <2>2, <2>3, Zenon DEF ApprovalChanges, Tick, vars
<1>7. Kept'
  BY <1>1, <1>6, Zenon DEF IInv, Kept
<1>8. Waits' /\ ServedAsItself'
  BY <1>1 DEF IInv, Waits, ServedAsItself, ServingOrServed
<1>9. Lists' /\ ForeignIsUnknown'
  BY <1>1, <1>2, AnswersStay
<1> QED BY <1>5, <1>7, <1>8, <1>9 DEF IInv

LEMMA InvNext == IInv /\ [Next]_vars => IInv'
<1> SUFFICES ASSUME IInv, [Next]_vars PROVE IInv'
  OBVIOUS
<1>1. ASSUME NEW q \in Requests, Arrive(q) PROVE IInv'
  <2>1. PICK question \in MayAsk[q], expires \in Lifetimes[q] : Arrives(q, question, expires)
    BY <1>1 DEF Arrive, Arrives
  <2> QED BY <2>1, ArriveKeeps
<1>2. ASSUME NEW q \in Requests, Serve(q) PROVE IInv'
  <2>1. Identified(q) \/ Unidentified(q) \/ Answer(q)
    BY <1>2 DEF Serve, Answer
  <2> QED BY <2>1, AwaitKeeps, AnswerKeeps
<1>3. ASSUME NEW q \in Requests, Resolves(q) \/ Rejects(q) PROVE IInv'
  BY <1>3, PromisesKeep
<1>4. CASE \/ \E status \in {"approved", "rejected", "expired"} : ApprovalChanges(status)
           \/ Close \/ Connect \/ Tick \/ UNCHANGED vars
  BY <1>4, WorldKeeps
<1> QED BY <1>1, <1>2, <1>3, <1>4, Zenon DEF Next

LEMMA Invariance == Spec => []IInv
  BY InvInit, InvNext, PTL DEF Spec

-----------------------------------------------------------------------------
\* The state of the adapter is what its declarations say (mcp/src/index.ts).
THEOREM Typed == Spec => []TypeOK
<1>1. IInv => TypeOK
  BY DEF IInv
<1> QED BY <1>1, Invariance, PTL

\* Whoever connects, and whenever answers of createContext arrive, a request is
\* served as the principal of its own connection (identityFor, index.ts:132).
THEOREM ServesAsItself == Spec => []ServedAsItself
<1>1. IInv => ServedAsItself
  BY DEF IInv
<1> QED BY <1>1, Invariance, PTL

\* A session cannot tell somebody else's approval from none at all
\* (index.ts:233, expectedActor).
THEOREM ConcealsForeign == Spec => []ForeignIsUnknown
<1>1. IInv => ForeignIsUnknown
  BY DEF IInv
<1> QED BY <1>1, Invariance, PTL

\* For every server that starts, the tools it lists are reached by their names
\* (index.ts:95-122, 246).
THEOREM ReachesListed == Spec => []ListedIsReached
<1>1. ASSUME IInv, NEW q \in Requests,
             request[q].phase = "answered", request[q].question.op = "list",
             NEW tool \in request[q].reply
      PROVE Resolve(server, tool.name) = tool.id
  <2>1. PICK described \in SUBSET server.exposed : request[q].reply = Listed(server, described)
    BY <1>1 DEF IInv, Lists
  <2>2. PICK id \in DOMAIN server.name : tool = [name |-> server.name[id], id |-> id]
    BY <1>1, <2>1, ServersAreServers DEF Listed, IInv, TypeOK, IsPromise, IsRequest, IsServer
  <2>3. /\ server.name[id] \in Range(server.name) /\ server.resume \notin Range(server.name)
        /\ \A other \in DOMAIN server.name : server.name[other] = server.name[id] => other = id
    BY <1>1, <2>2, Zenon DEF IInv, Lists, Starts, IsInjective, Range
  <2>4. /\ server.resume # server.name[id]
        /\ (CHOOSE other \in DOMAIN server.name : server.name[other] = server.name[id]) = id
    BY <2>2, <2>3
  <2> QED BY <2>2, <2>3, <2>4 DEF Resolve
<1>2. IInv => ListedIsReached
  BY <1>1 DEF ListedIsReached
<1> QED BY <1>2, Invariance, PTL

-----------------------------------------------------------------------------
(***************************************************************************)
(* How often createContext is asked.  ResolvedOnce is not inductive: it    *)
(* does not say that a connection whose identity is missing still has a    *)
(* question in hand, because it has not asked yet or because a setback has *)
(* taken the answer away.  Thrift does.                                    *)
(***************************************************************************)
Came == {q \in Requests : request[q].phase # "idle"}

Allowed(s) == Cardinality(Served(s)) + Cardinality(Setbacks(s))

MayStillAsk(s) == open /\ SessionOf[connection] = s /\ identities[s] = None

Thrift ==
  /\ IsFiniteSet(Came)
  /\ \A q \in Requests : promise[q].state # "none" =>
       request[q].expires = None \/ request[q].at < request[q].expires
  /\ \A s \in Sessions :
       /\ Cardinality(Promises(s)) <= Allowed(s)
       /\ MayStillAsk(s) => Cardinality(Promises(s)) < Allowed(s)

\* Whatever is counted is finite, before a step and after it.
LEMMA Countable ==
  ASSUME TypeOK, Kept, IsFiniteSet(Came), NEW s
  PROVE /\ IsFiniteSet(Promises(s)) /\ Cardinality(Promises(s)) \in Nat
        /\ IsFiniteSet(Setbacks(s)) /\ Cardinality(Setbacks(s)) \in Nat
        /\ IsFiniteSet(Served(s)) /\ Cardinality(Served(s)) \in Nat
<1>1. Promises(s) \in SUBSET Came /\ Setbacks(s) \in SUBSET Came
  BY DEF Promises, Setbacks, Came, Kept
<1>2. Served(s) \in SUBSET (1..connection) /\ IsFiniteSet(1..connection)
  BY FS_Interval DEF Served, TypeOK
<1> QED BY <1>1, <1>2, FS_Subset, FS_CardinalityType

LEMMA SetbacksCountable ==
  ASSUME IInv', IsFiniteSet(Came'), NEW s
  PROVE IsFiniteSet(Setbacks(s)') /\ Cardinality(Setbacks(s)') \in Nat
<1>1. \A q \in Requests : promise'[q].state = "rejected" => request'[q].phase # "idle"
  BY Zenon DEF Kept, IInv
<1>2. Setbacks(s)' \in SUBSET Came'
  BY <1>1 DEF Setbacks, Promises, Came
<1> QED BY <1>2, FS_Subset, FS_CardinalityType

\* Steps that ask nothing keep the balance.
LEMMA AsksNothing ==
  ASSUME IInv, Thrift, IInv', IsFiniteSet(Came'), connection' = connection,
         NEW s \in Sessions, Promises(s)' = Promises(s), Setbacks(s) \subseteq Setbacks(s)',
         MayStillAsk(s)' => MayStillAsk(s)
  PROVE /\ Cardinality(Promises(s)') <= Allowed(s)'
        /\ MayStillAsk(s)' => Cardinality(Promises(s)') < Allowed(s)'
<1>1. IsFiniteSet(Came)
  BY DEF Thrift
<1>2. Served(s)' = Served(s)
  BY DEF Served
<1>3. IsFiniteSet(Setbacks(s)') /\ Cardinality(Setbacks(s)') \in Nat
  BY SetbacksCountable
<1>4. Cardinality(Setbacks(s)) <= Cardinality(Setbacks(s)')
  BY <1>3, FS_Subset
<1>5. /\ Cardinality(Promises(s)) \in Nat /\ Cardinality(Setbacks(s)) \in Nat
      /\ Cardinality(Served(s)) \in Nat
  BY <1>1, Countable DEF IInv
<1>6. /\ Cardinality(Promises(s)) <= Allowed(s)
      /\ MayStillAsk(s) => Cardinality(Promises(s)) < Allowed(s)
  BY DEF Thrift
<1>7. Allowed(s)' = Cardinality(Served(s)) + Cardinality(Setbacks(s)')
  BY <1>2 DEF Allowed
<1> QED BY <1>3, <1>4, <1>5, <1>6, <1>7 DEF Allowed

\* A setback makes room for one more question.
LEMMA SetbackAllows ==
  ASSUME IInv, Thrift, IInv', IsFiniteSet(Came'), connection' = connection,
         NEW s \in Sessions, NEW q, q \notin Setbacks(s), q \in Setbacks(s)',
         Promises(s)' = Promises(s), Setbacks(s) \subseteq Setbacks(s)'
  PROVE /\ Cardinality(Promises(s)') <= Allowed(s)'
        /\ MayStillAsk(s)' => Cardinality(Promises(s)') < Allowed(s)'
<1>1. IsFiniteSet(Came)
  BY DEF Thrift
<1>2. Served(s)' = Served(s)
  BY DEF Served
<1>3. IsFiniteSet(Setbacks(s)') /\ Cardinality(Setbacks(s)') \in Nat
  BY SetbacksCountable
<1>4. /\ Cardinality(Promises(s)) \in Nat /\ Cardinality(Setbacks(s)) \in Nat
      /\ Cardinality(Served(s)) \in Nat
  BY <1>1, Countable DEF IInv
<1>5. Cardinality(Setbacks(s)) < Cardinality(Setbacks(s)')
  <2>1. /\ Cardinality(Setbacks(s)) <= Cardinality(Setbacks(s)')
        /\ Cardinality(Setbacks(s)') = Cardinality(Setbacks(s)) => Setbacks(s)' = Setbacks(s)
    BY <1>3, FS_Subset
  <2> QED BY <1>3, <1>4, <2>1
<1>6. Cardinality(Promises(s)) <= Allowed(s)
  BY DEF Thrift
<1>7. Allowed(s)' = Cardinality(Served(s)) + Cardinality(Setbacks(s)')
  BY <1>2 DEF Allowed
<1> QED BY <1>3, <1>4, <1>5, <1>6, <1>7 DEF Allowed

\* A step that makes no promise, cancels no identity and only moves requests on.
LEMMA QuietStep ==
  ASSUME IInv, Thrift, IInv', UNCHANGED <<connection, promise>>,
         \A s \in Sessions : MayStillAsk(s)' => MayStillAsk(s),
         \A q \in Requests :
           \/ request'[q] = request[q]
           \/ /\ request[q].phase \in {"waiting", "serving"} /\ request'[q].phase # "idle"
              /\ \A field \in {"connection", "expires", "at"} :
                   request'[q][field] = request[q][field]
  PROVE Thrift'
<1>1. Came' = Came
  BY DEF Came
<1>2. \A s : Promises(s)' = Promises(s) /\ Setbacks(s) \subseteq Setbacks(s)'
  BY DEF Promises, Setbacks, Session
<1>3. \A q \in Requests : promise'[q].state # "none" =>
        request'[q].expires = None \/ request'[q].at < request'[q].expires
  BY DEF Thrift
<1>4. IsFiniteSet(Came')
  BY <1>1 DEF Thrift
<1> QED BY <1>2, <1>3, <1>4, AsksNothing DEF Thrift

\* A new connection may ask.
LEMMA ConnectStep ==
  ASSUME IInv, Thrift, Connect PROVE Thrift'
<1>1. /\ connection' = connection + 1 /\ connection \in Nat /\ ~open
      /\ UNCHANGED <<promise, request>>
  BY DEF Connect, IInv, TypeOK
<1>2. /\ Came' = Came /\ IsFiniteSet(Came)
      /\ \A s : Promises(s)' = Promises(s) /\ Setbacks(s)' = Setbacks(s)
  BY <1>1 DEF Came, Promises, Setbacks, Session, Thrift
<1>3. ASSUME NEW s \in Sessions
      PROVE /\ Cardinality(Promises(s)) <= Allowed(s)'
            /\ MayStillAsk(s)' => Cardinality(Promises(s)) < Allowed(s)'
  <2>1. /\ Cardinality(Promises(s)) \in Nat /\ Cardinality(Setbacks(s)) \in Nat
        /\ IsFiniteSet(Served(s)) /\ Cardinality(Served(s)) \in Nat
        /\ Cardinality(Promises(s)) <= Allowed(s)
    BY <1>2, Countable DEF IInv, Thrift
  <2>2. CASE SessionOf[connection + 1] = s
    <3>1. Served(s)' = Served(s) \cup {connection + 1} /\ connection + 1 \notin Served(s)
      BY <1>1, <2>2 DEF Served
    <3>2. Cardinality(Served(s)') = Cardinality(Served(s)) + 1
      BY <2>1, <3>1, FS_AddElement
    <3> QED BY <1>2, <2>1, <3>2 DEF Allowed
  <2>3. CASE SessionOf[connection + 1] # s
    <3>1. Served(s)' = Served(s)
      BY <1>1, <2>3 DEF Served
    <3> QED BY <1>1, <1>2, <2>1, <2>3, <3>1 DEF Allowed, MayStillAsk
  <2> QED BY <2>2, <2>3
<1> QED BY <1>1, <1>2, <1>3 DEF Thrift

\* The answers of createContext.
LEMMA ResolvesStep ==
  ASSUME IInv, Thrift, IInv', NEW q \in Requests, Resolves(q) PROVE Thrift'
<1>1. /\ UNCHANGED <<connection, open, identities, request>>
      /\ promise[q].state = "pending"
      /\ \A r \in Requests : /\ promise'[r].connection = promise[r].connection
                             /\ promise'[r].state = IF r = q THEN "resolved" ELSE promise[r].state
  BY SMT DEF Resolves, session, IInv, TypeOK, IsPromise
<1>2. IsFiniteSet(Came') /\ connection' = connection
  BY <1>1 DEF Came, Thrift
<1>3. \A r \in Requests : promise'[r].state # "none" =>
        request'[r].expires = None \/ request'[r].at < request'[r].expires
  BY <1>1 DEF Thrift
<1>4. ASSUME NEW s \in Sessions
      PROVE /\ Cardinality(Promises(s)') <= Allowed(s)'
            /\ MayStillAsk(s)' => Cardinality(Promises(s)') < Allowed(s)'
  <2>1. Promises(s)' = Promises(s)
    BY <1>1 DEF Promises
  <2>2. Setbacks(s) \subseteq Setbacks(s)'
    BY <1>1 DEF Setbacks, Promises, Session
  <2>3. MayStillAsk(s)' => MayStillAsk(s)
    BY <1>1 DEF MayStillAsk
  <2> QED BY <1>2, <2>1, <2>2, <2>3, AsksNothing
<1> QED BY <1>2, <1>3, <1>4 DEF Thrift

\* A rejection cancels an identity, of a later connection even, and is a
\* setback that was not counted before: its request had a good token.
LEMMA RejectsStep ==
  ASSUME IInv, Thrift, IInv', NEW q \in Requests, Rejects(q) PROVE Thrift'
<1> DEFINE own == SessionOf[promise[q].connection]
<1>1. /\ UNCHANGED <<connection, open, request>>
      /\ promise[q].state = "pending"
      /\ \A r \in Requests : /\ promise'[r].connection = promise[r].connection
                             /\ promise'[r].state = IF r = q THEN "rejected" ELSE promise[r].state
      /\ \A s \in Sessions : s # own => identities'[s] = identities[s]
  BY SMT DEF Rejects, session, IInv, TypeOK, IsPromise
<1>2. /\ IsFiniteSet(Came')
      /\ \A s : Promises(s)' = Promises(s) /\ Setbacks(s) \subseteq Setbacks(s)'
  BY <1>1 DEF Came, Promises, Setbacks, Session, Thrift
<1>3. \A r \in Requests : promise'[r].state # "none" =>
        request'[r].expires = None \/ request'[r].at < request'[r].expires
  BY <1>1 DEF Thrift
<1>4. ASSUME NEW s \in Sessions, s # own
      PROVE MayStillAsk(s)' => MayStillAsk(s)
  BY <1>1, <1>4 DEF MayStillAsk
<1>5. q \notin Setbacks(own) /\ q \in Setbacks(own)'
  <2>1. request[q].expires = None \/ request[q].at < request[q].expires
    BY <1>1 DEF Thrift
  <2>2. request[q].phase # "idle" /\ request[q].at \in Nat /\ request[q].expires \in Nat \cup {None}
    <3>1. request[q].phase # "idle" /\ IsRequest(q, request[q])
      BY <1>1 DEF IInv, Kept, TypeOK
    <3>2. request[q].expires \in Lifetimes[q] /\ request[q].at \in Times
      BY <3>1 DEF IsRequest
    <3> QED BY <3>1, <3>2, TokensExpireOnce, ClockIsFinite DEF Times
  <2>3. q \notin {r \in Requests : request[r].phase = "unauthorized" /\ Session(r) = own
                                   /\ request[r].expires # None
                                   /\ request[r].expires <= request[r].at}
    BY <2>1, <2>2
  <2> QED BY <1>1, <2>3 DEF Setbacks, Promises
<1> QED BY <1>1, <1>2, <1>3, <1>4, <1>5, AsksNothing, SetbackAllows DEF Thrift

\* A request arrives: it asks when nothing is kept, or it makes no promise and
\* cancels nothing, or it cancels and is a setback itself.
LEMMA ArriveStep ==
  ASSUME IInv, Thrift, IInv', NEW q \in Requests,
         NEW question \in MayAsk[q], NEW expires \in Lifetimes[q], Arrives(q, question, expires)
  PROVE Thrift'
<1> DEFINE own == SessionOf[connection]
<1>1. /\ request[q].phase = "idle" /\ open /\ UNCHANGED <<connection, open>>
      /\ own \in Sessions /\ connection \in Connections
  BY DEF Arrives, ArriveExpired, AskIdentity, AskInVain, ShareIdentity, session, IInv, TypeOK, Sessions
<1>2. PICK phase \in {"waiting", "unauthorized"}, via \in {q, None, identities[own]} :
        /\ request' = [request EXCEPT ![q] = Arrived(question, expires, phase, via)]
        /\ promise' # promise => ~Expired(expires)
        /\ ArriveExpired(q, question, expires) => phase = "unauthorized"
  BY DEF Arrives, ArriveExpired, AskIdentity, AskInVain, ShareIdentity
<1>3. /\ \A r \in Requests \ {q} : request'[r] = request[r]
      /\ request'[q].phase = phase /\ request'[q].expires = expires
      /\ request'[q].at = clock /\ request'[q].connection = connection
  BY <1>2 DEF IInv, TypeOK, Arrived
<1>4. IsFiniteSet(Came')
  <2>1. Came' = Came \cup {q} /\ IsFiniteSet(Came)
    BY <1>1, <1>3 DEF Came, Thrift
  <2> QED BY <2>1, FS_AddElement
<1>5. /\ promise[q].state = "none"
      /\ \A r \in Requests \ {q} : promise'[r] = promise[r]
      /\ promise' = promise \/ promise'[q] = Asked
      /\ \A s \in Sessions : s # own => identities'[s] = identities[s]
  <2>1. promise[q].state = "none"
    BY <1>1 DEF IInv, Kept
  <2>2. CASE AskIdentity(q, question, expires)
    BY <2>1, <2>2 DEF AskIdentity, IInv, TypeOK
  <2>3. CASE ~AskIdentity(q, question, expires)
    BY <2>1, <2>3 DEF Arrives, ArriveExpired, AskInVain, ShareIdentity, IInv, TypeOK
  <2> QED BY <2>2, <2>3
<1>6. \A r \in Requests : promise'[r].state # "none" =>
        request'[r].expires = None \/ request'[r].at < request'[r].expires
  <2>1. ASSUME promise' # promise
        PROVE request'[q].expires = None \/ request'[q].at < request'[q].expires
    <3>1. ~(expires # None /\ expires <= clock)
      BY <1>2, <2>1 DEF Expired
    <3>2. expires \in Nat \cup {None} /\ clock \in Nat
      BY TokensExpireOnce, ClockIsFinite DEF IInv, TypeOK, Times
    <3> QED BY <1>3, <3>1, <3>2
  <2> QED BY <1>3, <1>5, <2>1 DEF Thrift
<1>7. ASSUME NEW s \in Sessions
      PROVE Setbacks(s) \subseteq Setbacks(s)'
  BY <1>1, <1>3, <1>5 DEF Setbacks, Promises, Session
<1>8. ASSUME NEW s \in Sessions, promise' = promise \/ s # own
      PROVE Promises(s)' = Promises(s)
  BY <1>5, <1>8 DEF Promises, Asked
<1>9. ASSUME NEW s \in Sessions, s # own
      PROVE MayStillAsk(s)' => MayStillAsk(s)
  BY <1>1, <1>9 DEF MayStillAsk
<1>10. ASSUME NEW s \in Sessions
       PROVE /\ Cardinality(Promises(s)') <= Allowed(s)'
             /\ MayStillAsk(s)' => Cardinality(Promises(s)') < Allowed(s)'
  <2>1. CASE s # own
    BY <1>1, <1>4, <1>7, <1>8, <1>9, <2>1, AsksNothing
  <2>2. CASE s = own /\ (AskInVain(q, question, expires) \/ ShareIdentity(q, question, expires))
    <3>1. promise' = promise /\ identities' = identities
      BY <2>2 DEF AskInVain, ShareIdentity
    <3>2. MayStillAsk(s)' => MayStillAsk(s)
      BY <1>1, <3>1 DEF MayStillAsk
    <3> QED BY <1>1, <1>4, <1>7, <1>8, <3>1, <3>2, AsksNothing
  <2>3. CASE s = own /\ ArriveExpired(q, question, expires)
    <3>1. promise' = promise /\ Expired(expires)
      BY <2>3 DEF ArriveExpired
    <3>2. q \in Setbacks(s)' /\ q \notin Setbacks(s)
      BY <1>1, <1>2, <1>3, <1>5, <2>3, <3>1 DEF Setbacks, Promises, Session, Expired
    <3> QED BY <1>1, <1>4, <1>7, <1>8, <3>1, <3>2, SetbackAllows
  <2>4. CASE s = own /\ AskIdentity(q, question, expires)
    <3>1. MayStillAsk(s) /\ identities'[s] = q /\ promise'[q] = Asked
      BY <1>1, <2>4 DEF AskIdentity, MayStillAsk, IInv, TypeOK
    <3>2. Promises(s)' = Promises(s) \cup {q} /\ q \notin Promises(s)
      BY <1>5, <2>4, <3>1 DEF Promises, Asked
    <3>3. IsFiniteSet(Promises(s)) /\ Cardinality(Promises(s)) \in Nat
          /\ IsFiniteSet(Setbacks(s)) /\ Cardinality(Setbacks(s)) \in Nat
          /\ Cardinality(Served(s)) \in Nat
      BY Countable DEF IInv, Thrift
    <3>4. Cardinality(Promises(s)') = Cardinality(Promises(s)) + 1
      BY <3>2, <3>3, FS_AddElement
    <3>5. Cardinality(Setbacks(s)) <= Cardinality(Setbacks(s)')
          /\ Cardinality(Setbacks(s)') \in Nat
      BY <1>4, <1>7, SetbacksCountable, FS_Subset
    <3>6. Allowed(s)' = Cardinality(Served(s)) + Cardinality(Setbacks(s)')
      BY <1>1 DEF Allowed, Served
    <3>7. ~MayStillAsk(s)'
      BY <3>1, NobodyIsNoRequest DEF MayStillAsk
    <3>8. Cardinality(Promises(s)) < Allowed(s)
      BY <3>1 DEF Thrift
    <3> QED BY <3>3, <3>4, <3>5, <3>6, <3>7, <3>8 DEF Allowed
  <2> QED BY <2>1, <2>2, <2>3, <2>4 DEF Arrives
<1> QED BY <1>4, <1>6, <1>10 DEF Thrift

LEMMA ThriftInit == Init => IInv /\ Thrift
<1> SUFFICES ASSUME Init PROVE Thrift
  BY InvInit
<1>1. Came = {}
  BY DEF Init, Came, NoRequest
<1>2. Kept /\ TypeOK
  BY InvInit DEF IInv
<1>3. IsFiniteSet({}) /\ Cardinality({}) = 0
  BY FS_EmptySet
<1>4. ASSUME NEW s \in Sessions
      PROVE Cardinality(Promises(s)) <= Allowed(s) /\ ~MayStillAsk(s)
  <2>1. Cardinality(Served(s)) \in Nat /\ Cardinality(Setbacks(s)) \in Nat
    BY <1>1, <1>2, <1>3, Countable
  <2>2. Promises(s) = {}
    BY DEF Init, Promises, NoPromise
  <2>3. Cardinality(Promises(s)) <= Allowed(s)
    BY <1>3, <2>1, <2>2 DEF Allowed
  <2> QED BY <2>3 DEF Init, MayStillAsk
<1> QED BY <1>1, <1>3, <1>4 DEF Thrift, Init, NoPromise

LEMMA ThriftNext == IInv /\ Thrift /\ [Next]_vars => IInv' /\ Thrift'
<1> SUFFICES ASSUME IInv, Thrift, [Next]_vars, IInv' PROVE Thrift'
  BY InvNext
<1>1. ASSUME NEW q \in Requests, Arrive(q) PROVE Thrift'
  <2>1. PICK question \in MayAsk[q], expires \in Lifetimes[q] : Arrives(q, question, expires)
    BY <1>1 DEF Arrive, Arrives
  <2> QED BY <2>1, ArriveStep
<1>2. ASSUME NEW q \in Requests, Answer(q) PROVE Thrift'
  <2>1. Answers(q)
    BY <1>2, AnswersAnswer
  <2>2. /\ UNCHANGED <<connection, promise>>
        /\ \A s \in Sessions : MayStillAsk(s)' => MayStillAsk(s)
    BY <2>1 DEF Answers, MayStillAsk
  <2>3. /\ request[q].phase = "serving" /\ request'[q].phase # "idle"
        /\ \A r \in Requests \ {q} : request'[r] = request[r]
        /\ \A field \in {"connection", "expires", "at"} : request'[q][field] = request[q][field]
    BY <2>1, SMT DEF Answers, IInv, TypeOK, IsRequest, Fields
  <2> QED BY <2>2, <2>3, QuietStep
<1>3. ASSUME NEW q \in Requests, Identified(q) \/ Unidentified(q) PROVE Thrift'
  <2>1. /\ request[q].phase = "waiting" /\ request'[q].phase # "idle"
        /\ \A r \in Requests \ {q} : request'[r] = request[r]
        /\ \A field \in {"connection", "expires", "at"} : request'[q][field] = request[q][field]
        /\ UNCHANGED <<connection, open, identities, promise>>
    BY <1>3, AwaitChanges DEF Fields
  <2>2. \A s \in Sessions : MayStillAsk(s)' => MayStillAsk(s)
    BY <2>1 DEF MayStillAsk
  <2> QED BY <2>1, <2>2, QuietStep
<1>4. ASSUME NEW q \in Requests, Resolves(q) \/ Rejects(q) PROVE Thrift'
  BY <1>4, ResolvesStep, RejectsStep
<1>5. CASE Connect
  BY <1>5, ConnectStep
<1>6. CASE \/ \E status \in {"approved", "rejected", "expired"} : ApprovalChanges(status)
           \/ Close \/ Tick \/ UNCHANGED vars
  <2>1. /\ UNCHANGED <<connection, promise, request>>
        /\ \A s \in Sessions : MayStillAsk(s)' => MayStillAsk(s)
    BY <1>6 DEF ApprovalChanges, Close, Tick, vars, MayStillAsk
  <2> QED BY <2>1, QuietStep
<1> QED BY <1>1, <1>2, <1>3, <1>4, <1>5, <1>6 DEF Next, Serve, Answer

\* However many requests come at once, however late createContext answers and
\* whichever tokens expire, it is asked once for each connection of a session
\* and once more for each setback (identityFor, index.ts:132-170).
THEOREM AskedOnce == Spec => []ResolvedOnce
<1>1. Thrift => ResolvedOnce
  BY DEF Thrift, ResolvedOnce, Allowed
<1> QED BY <1>1, ThriftInit, ThriftNext, PTL DEF Spec

=============================================================================
