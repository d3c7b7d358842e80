------------------------------ MODULE McpSession ------------------------------
(***************************************************************************)
(* The MCP adapter (mcp/src/index.ts): one server, one connection at a     *)
(* time, the identities of its sessions, and the requests it serves over a *)
(* runtime.                                                                *)
(*                                                                         *)
(* A request first needs an identity: a promise of what the application's  *)
(* createContext makes of the credential the transport verified, kept per  *)
(* session.  createContext takes its time and may fail; tokens expire;     *)
(* connections close with requests in flight.  A connection belongs to one *)
(* principal, which is the transport's part.                               *)
(*                                                                         *)
(* The runtime is what Pipeline says of it, an execution in one step.      *)
(* approval is an approval that one call over MCP may ask for.             *)
(***************************************************************************)
EXTENDS ErrorModel, Naturals, FiniteSets, Functions

CONSTANTS
  Requests,
  Connections,      \* 1..n, one after the other
  PrincipalOf,      \* PrincipalOf[c]: who has connected
  SessionOf,        \* SessionOf[c]: its session id, or "__single_session__"
  Lifetimes,        \* Lifetimes[q]: when the token of request q may expire, by the clock
  MaxClock,
  Servers,          \* what createMCPServer may be called with
  MayAsk,           \* MayAsk[q]: what request q may ask
  Throws            \* what procedures may throw

ASSUME ConnectionsAreNumbered == Connections \subseteq Nat
ASSUME TokensExpireOnce == \A q \in Requests : Lifetimes[q] \subseteq Nat \cup {None}
ASSUME CallsNameTools ==
  \A q \in Requests : \A question \in MayAsk[q] : question.op = "call" => question.name # None
ASSUME NobodyIsNoRequest == None \notin Requests
ASSUME ClockIsFinite == MaxClock \in Nat

Sessions == {SessionOf[c] : c \in Connections}
Times == 0..MaxClock

Approvals ==
  [requester : {PrincipalOf[c] : c \in Connections},
   status : {"pending", "approved", "rejected", "expired", "consumed"},
   by : Requests \cup {None}]

VARIABLES
  server,           \* the names of the tools and what is exposed
  clock,
  connection,       \* the number of the last connection
  open,             \* whether it still is
  identities,       \* identities[s]: the request whose promise is kept, or None
  promise,          \* promise[q]: the promise that request q made
  request,          \* request[q]
  approval          \* the approval record, or None

vars == <<server, clock, connection, open, identities, promise, request, approval>>
session == <<server, clock, connection, open, approval>>

-----------------------------------------------------------------------------
(***************************************************************************)
(* createMCPServer: a server is given the ids of the registry, each with   *)
(* the name the metadata, toolNaming or defaultToolName gives it, those    *)
(* exposed to MCP, and the name of the tool that resumes, if any.          *)
(***************************************************************************)
IsServer(s) ==
  /\ DOMAIN s = {"name", "exposed", "resume"}
  /\ s.exposed \subseteq DOMAIN s.name /\ None \notin DOMAIN s.name

ASSUME NoneIsNoApproval == \A record \in Approvals : record # None
ASSUME ServersAreServers == \A s \in Servers : IsServer(s)

\* Mutated: only the names of capabilities are compared.
StartsUnderAnyResumeName(s) == IsInjective(s.name)

\* Collisions are a startup error.
Starts(s) == IsInjective(s.name) /\ s.resume \notin Range(s.name)

\* Where a call of a tool of this name goes: to the tool that resumes, which is
\* no capability, to the capability of this name, or on to the runtime as it is.
Resolve(s, name) ==
  IF s.resume # None /\ name = s.resume THEN None
  ELSE IF name \in Range(s.name) THEN CHOOSE id \in DOMAIN s.name : s.name[id] = name
  ELSE name

Listed(s, described) == {[name |-> s.name[id], id |-> id] : id \in described}

-----------------------------------------------------------------------------
NoRequest ==
  [phase |-> "idle", connection |-> 0, question |-> None, expires |-> None, at |-> 0,
   via |-> None, actor |-> None, reply |-> None]

NoPromise == [state |-> "none", connection |-> 0]

Asked == [state |-> "pending", connection |-> connection]

Session(q) == SessionOf[request[q].connection]

\* AuthInfo.expiresAt, absent if the transport gave none.
Expired(expires) == expires # None /\ expires <= clock

Arrived(question, expires, phase, via) ==
  [phase |-> phase, connection |-> connection, question |-> question, expires |-> expires,
   at |-> clock, via |-> via, actor |-> None, reply |-> None]

\* identityFor, for a token that has expired: the identity goes as well.
ArriveExpired(q, question, expires) ==
  /\ request[q].phase = "idle" /\ open /\ Expired(expires)
  /\ identities' = [identities EXCEPT ![SessionOf[connection]] = None]
  /\ request' = [request EXCEPT ![q] = Arrived(question, expires, "unauthorized", None)]
  /\ UNCHANGED <<session, promise>>

\* Mutated: the promise is not kept while it is on its way.
AskUnkept(q, question, expires) ==
  /\ request[q].phase = "idle" /\ open /\ ~Expired(expires)
  /\ identities[SessionOf[connection]] = None
  /\ promise' = [promise EXCEPT ![q] = Asked]
  /\ request' = [request EXCEPT ![q] = Arrived(question, expires, "waiting", q)]
  /\ UNCHANGED <<session, identities>>

\* The identity of the session is asked for, once.
AskIdentity(q, question, expires) ==
  /\ request[q].phase = "idle" /\ open /\ ~Expired(expires)
  /\ identities[SessionOf[connection]] = None
  /\ promise' = [promise EXCEPT ![q] = Asked]
  /\ identities' = [identities EXCEPT ![SessionOf[connection]] = q]
  /\ request' = [request EXCEPT ![q] = Arrived(question, expires, "waiting", q)]
  /\ UNCHANGED session

\* createContext throws before there is a promise.
AskInVain(q, question, expires) ==
  /\ request[q].phase = "idle" /\ open /\ ~Expired(expires)
  /\ identities[SessionOf[connection]] = None
  /\ request' = [request EXCEPT ![q] = Arrived(question, expires, "unauthorized", None)]
  /\ UNCHANGED <<session, identities, promise>>

ShareIdentity(q, question, expires) ==
  /\ request[q].phase = "idle" /\ open /\ ~Expired(expires)
  /\ identities[SessionOf[connection]] # None
  /\ request' = [request EXCEPT
       ![q] = Arrived(question, expires, "waiting", identities[SessionOf[connection]])]
  /\ UNCHANGED <<session, identities, promise>>

\* createContext answers: with the actor it was given the credential of.
Resolves(q) ==
  /\ promise[q].state = "pending"
  /\ promise' = [promise EXCEPT ![q].state = "resolved"]
  /\ UNCHANGED <<session, identities, request>>

\* Or with nobody, or it fails: the session's identity is removed, whichever
\* promise that is by now.
Rejects(q) ==
  /\ promise[q].state = "pending"
  /\ promise' = [promise EXCEPT ![q].state = "rejected"]
  /\ identities' = [identities EXCEPT ![SessionOf[promise[q].connection]] = None]
  /\ UNCHANGED <<session, request>>

Identified(q) ==
  /\ request[q].phase = "waiting" /\ promise[request[q].via].state = "resolved"
  /\ request' = [request EXCEPT ![q].phase = "serving", ![q].via = None,
                                ![q].actor = PrincipalOf[promise[request[q].via].connection]]
  /\ UNCHANGED <<session, identities, promise>>

Unidentified(q) ==
  /\ request[q].phase = "waiting" /\ promise[request[q].via].state = "rejected"
  /\ request' = [request EXCEPT ![q].phase = "unauthorized", ![q].via = None]
  /\ UNCHANGED <<session, identities, promise>>

-----------------------------------------------------------------------------
(***************************************************************************)
(* The handlers, once they have an identity.  A reply is data, an approval *)
(* that is required, a list of tools, or what is told of an error.         *)
(***************************************************************************)
Replies(q, reply) ==
  request' = [request EXCEPT ![q].phase = "answered", ![q].reply = reply]

Fails(q, error) == Replies(q, Serialized(error))

Target(q) == Resolve(server, request[q].question.name)

\* runtime.describe leaves out what policies hide; the tool that resumes is
\* always listed.
ListTools(q, described) ==
  /\ request[q].phase = "serving" /\ request[q].question.op = "list"
  /\ described \subseteq server.exposed
  /\ Replies(q, Listed(server, described))
  /\ UNCHANGED <<session, identities, promise>>

Calls(q) == request[q].phase = "serving" /\ request[q].question.op = "call"

\* runtime.invoke, of a name that is unknown or not exposed.
CallUnknown(q) ==
  /\ Calls(q) /\ Target(q) \notin server.exposed \cup {None}
  /\ Fails(q, ErrorOf("CAPABILITY_NOT_FOUND"))
  /\ UNCHANGED <<session, identities, promise>>

\* The procedure throws.
CallThrows(q, thrown) ==
  /\ Calls(q) /\ Target(q) \in server.exposed
  /\ Fails(q, Normalized(thrown))
  /\ UNCHANGED <<session, identities, promise>>

CallCompletes(q) ==
  /\ Calls(q) /\ Target(q) \in server.exposed
  /\ Replies(q, "data")
  /\ UNCHANGED <<session, identities, promise>>

\* An approval is required: the record names the actor of the session.
CallSuspends(q) ==
  /\ Calls(q) /\ Target(q) \in server.exposed /\ approval = None
  /\ approval' = [requester |-> request[q].actor, status |-> "pending", by |-> None]
  /\ Replies(q, "approval-required")
  /\ UNCHANGED <<server, clock, connection, open, identities, promise>>

Resumes(q) == Calls(q) /\ Target(q) = None

\* approvalId must be a non-empty string.
ResumeNothing(q) ==
  /\ Resumes(q) /\ request[q].question.id = None
  /\ Fails(q, [ErrorOf("INPUT_INVALID") EXCEPT !.details = "issues"])
  /\ UNCHANGED <<session, identities, promise>>

StatusError(status) ==
  CASE status = "pending" -> ErrorOf("APPROVAL_PENDING")
    [] status = "rejected" -> ErrorOf("APPROVAL_REJECTED")
    [] status = "consumed" -> ErrorOf("APPROVAL_CONSUMED")
    [] status = "expired" -> ErrorOf("APPROVAL_EXPIRED")
    [] OTHER -> None

\* Mutated: what can be said of the record first, whose it is then.
StatusFirst(record, actor) ==
  IF record = None THEN ErrorOf("INTERNAL_ERROR")
  ELSE IF record.status # "approved" THEN StatusError(record.status)
  ELSE IF record.requester # actor THEN ErrorOf("APPROVAL_RESUME_MISMATCH")
  ELSE None

\* runtime.resume with expectedActor and expectedSurface: whose the record is
\* comes before anything that can be said of it.
ResumeError(record, actor) ==
  IF record = None THEN ErrorOf("INTERNAL_ERROR")
  ELSE IF record.requester # actor THEN ErrorOf("APPROVAL_RESUME_MISMATCH")
  ELSE StatusError(record.status)

RecordOf(id) == IF id = "known" THEN approval ELSE None

ResumeFails(q) ==
  /\ Resumes(q) /\ request[q].question.id # None
  /\ LET error == ResumeError(RecordOf(request[q].question.id), request[q].actor) IN
       error # None /\ Fails(q, error)
  /\ UNCHANGED <<session, identities, promise>>

ResumeExecutes(q) ==
  /\ Resumes(q) /\ request[q].question.id # None
  /\ ResumeError(RecordOf(request[q].question.id), request[q].actor) = None
  /\ approval' = [approval EXCEPT !.status = "consumed", !.by = q]
  /\ Replies(q, "data") \/ \E thrown \in Throws : Fails(q, Normalized(thrown))
  /\ UNCHANGED <<server, clock, connection, open, identities, promise>>

-----------------------------------------------------------------------------
(***************************************************************************)
(* The rest of the world                                                   *)
(***************************************************************************)
\* An approver answers, or the window ends.
ApprovalChanges(status) ==
  /\ approval # None /\ approval.status = "pending"
  /\ approval' = [approval EXCEPT !.status = status]
  /\ UNCHANGED <<server, clock, connection, open, identities, promise, request>>

\* Mutated: the identities outlive the connection.
CloseOnly ==
  /\ open
  /\ open' = FALSE
  /\ UNCHANGED <<server, clock, connection, identities, promise, request, approval>>

\* onclose, of server and transport; requests in flight go on.
Close ==
  /\ open
  /\ open' = FALSE
  /\ identities' = [s \in Sessions |-> None]
  /\ UNCHANGED <<server, clock, connection, promise, request, approval>>

Connect ==
  /\ ~open /\ connection + 1 \in Connections
  /\ open' = TRUE /\ connection' = connection + 1
  /\ UNCHANGED <<server, clock, identities, promise, request, approval>>

Tick ==
  /\ clock < MaxClock
  /\ clock' = clock + 1
  /\ UNCHANGED <<server, connection, open, identities, promise, request, approval>>

-----------------------------------------------------------------------------
Init ==
  /\ server \in {s \in Servers : Starts(s)}
  /\ clock = 0
  /\ connection = 0 /\ open = FALSE
  /\ identities = [s \in Sessions |-> None]
  /\ promise = [q \in Requests |-> NoPromise]
  /\ request = [q \in Requests |-> NoRequest]
  /\ approval = None

Arrive(q) ==
  \E question \in MayAsk[q], expires \in Lifetimes[q] :
    \/ ArriveExpired(q, question, expires)
    \/ AskIdentity(q, question, expires)
    \/ AskInVain(q, question, expires)
    \/ ShareIdentity(q, question, expires)

Serve(q) ==
  \/ Identified(q) \/ Unidentified(q)
  \/ \E described \in SUBSET server.exposed : ListTools(q, described)
  \/ CallUnknown(q) \/ CallCompletes(q) \/ CallSuspends(q)
  \/ \E thrown \in Throws : CallThrows(q, thrown)
  \/ ResumeNothing(q) \/ ResumeFails(q) \/ ResumeExecutes(q)

Next ==
  \/ \E q \in Requests : Arrive(q) \/ Resolves(q) \/ Rejects(q) \/ Serve(q)
  \/ \E status \in {"approved", "rejected", "expired"} : ApprovalChanges(status)
  \/ Close \/ Connect \/ Tick

Spec == Init /\ [][Next]_vars

-----------------------------------------------------------------------------
Fields == {"phase", "connection", "question", "expires", "at", "via", "actor", "reply"}

IsPromise(p) ==
  /\ DOMAIN p = {"state", "connection"}
  /\ p.state \in {"none", "pending", "resolved", "rejected"}
  /\ p.state # "none" => p.connection \in Connections

IsRequest(q, r) ==
  /\ DOMAIN r = Fields
  /\ r.phase \in {"idle", "waiting", "serving", "answered", "unauthorized"}
  /\ r.phase # "idle" =>
       /\ r.question \in MayAsk[q]
       /\ r.expires \in Lifetimes[q]
       /\ r.connection \in Connections
       /\ r.at \in Times

\* One identity is kept per session, of a request that has asked for it.
TypeOK ==
  /\ server \in Servers /\ clock \in Times
  /\ connection \in Nat /\ open \in BOOLEAN
  /\ open => connection \in Connections
  /\ identities \in [Sessions -> Requests \cup {None}]
  /\ DOMAIN promise = Requests /\ DOMAIN request = Requests
  /\ \A q \in Requests : IsPromise(promise[q]) /\ IsRequest(q, request[q])
  /\ approval \in Approvals \cup {None}

ServingOrServed(q) == request[q].phase \in {"serving", "answered"}

\* Every request is served as the principal who has connected, never as the
\* one of an earlier connection whose identity was still kept or on its way,
\* and only with a token that was good when the request arrived.
ServedAsItself ==
  \A q \in Requests : ServingOrServed(q) =>
    /\ request[q].actor = PrincipalOf[request[q].connection]
    /\ request[q].expires = None \/ request[q].at < request[q].expires

Promises(s) ==
  {q \in Requests : promise[q].state # "none" /\ SessionOf[promise[q].connection] = s}

Served(s) == {c \in 1..connection : SessionOf[c] = s}

Setbacks(s) ==
  {q \in Promises(s) : promise[q].state = "rejected"}
    \cup {q \in Requests : request[q].phase = "unauthorized" /\ Session(q) = s
                           /\ request[q].expires # None
                           /\ request[q].expires <= request[q].at}

\* One identity per session (index.ts:132): createContext is asked once for
\* each connection that a session has, and again only after a token of the
\* session has expired or an answer has failed, once for each such setback,
\* however many requests come at once and however late the answers.
ResolvedOnce ==
  \A s \in Sessions : Cardinality(Promises(s)) <= Cardinality(Served(s)) + Cardinality(Setbacks(s))

\* What is somebody else's is as if it were not there: a session that resumes
\* another requester's approval is told, in every state of that approval,
\* what it is told of an id that no approval has, and does not spend it.
ForeignIsUnknown ==
  \A q \in Requests :
    /\ request[q].phase = "answered" /\ request[q].question.op = "call"
    /\ Target(q) = None /\ request[q].question.id # None
    => \/ approval # None /\ approval.requester = request[q].actor
            /\ request[q].question.id = "known"
       \/ request[q].reply = Serialized(ErrorOf("INTERNAL_ERROR"))

\* A listed tool is the one a call of its name reaches.
ListedIsReached ==
  \A q \in Requests : request[q].phase = "answered" /\ request[q].question.op = "list" =>
    \A tool \in request[q].reply : Resolve(server, tool.name) = tool.id
=============================================================================
