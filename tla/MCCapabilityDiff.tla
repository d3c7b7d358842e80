--------------------------- MODULE MCCapabilityDiff ---------------------------
(***************************************************************************)
(* A small application: a gated write exposed to MCP, a second procedure   *)
(* that becomes a capability, and one or two runtime policies.  Each       *)
(* governance is a small edit or two away from others.                     *)
(***************************************************************************)
EXTENDS CapabilityDiff

MCIds == {"refund", "search"}

Own == [name |-> "own", phases |-> {"invocation"}, scope |-> Undefined]

Gate(type, expiry) == [required |-> TRUE, type |-> type, expiresInMs |-> expiry]

Refund ==
  [expose |-> {"mcp"}, sideEffect |-> "write", risk |-> 2, approval |-> Gate("t1", 1),
   idempotent |-> FALSE, retry |-> Undefined, tags |-> {"billing"}, policies |-> <<Own>>,
   redact |-> {"output"}, text |-> "t1"]

Retry(n) == [maxAttempts |-> n, retryOn |-> FALSE, backoffMs |-> Undefined]

\* One edit, or two, of the write.
Refunds ==
  {[Refund EXCEPT !.expose = {"mcp", "direct"}],
   [Refund EXCEPT !.expose = {}],
   [Refund EXCEPT !.expose = {}, !.approval.required = FALSE],
   [Refund EXCEPT !.sideEffect = "read", !.retry = Retry(2)],
   [Refund EXCEPT !.risk = 1, !.approval.type = "t2"],
   [Refund EXCEPT !.idempotent = TRUE],
   [Refund EXCEPT !.idempotent = TRUE, !.retry = Retry(1)],
   [Refund EXCEPT !.idempotent = TRUE, !.retry = Retry(2)],
   [Refund EXCEPT !.retry = Retry(1)],
   [Refund EXCEPT !.tags = {}, !.text = "t2"],
   [Refund EXCEPT !.policies = <<>>, !.redact = {}],
   [Refund EXCEPT !.redact = {"output", "approvalInput"}, !.approval.expiresInMs = 2]}

Search ==
  [expose |-> {"mcp"}, sideEffect |-> "read", risk |-> 0, approval |-> Undefined,
   idempotent |-> TRUE, retry |-> Retry(1), tags |-> {}, policies |-> <<>>,
   redact |-> {}, text |-> "t1"]

Scope(ids, tags, surfaces) ==
  [ids |-> ids, tags |-> tags, sideEffects |-> Undefined, risks |-> Undefined,
   surfaces |-> surfaces]

Guard(scope, phases) == [name |-> "guard", phases |-> phases, scope |-> scope]
Both == {"invocation", "execution"}

Log == [name |-> "log", phases |-> {"discovery"}, scope |-> Undefined]

Tagged == Guard(Scope(Undefined, {"billing"}, Undefined), Both)
Always == Guard(Undefined, Both)
OnMcp == Guard(Scope(Undefined, Undefined, {"mcp"}), Both)

App(refund, search, policies, observed) ==
  [procedures |-> [id \in MCIds |-> IF id = "refund" THEN refund ELSE search],
   policies |-> policies, observed |-> observed]

MCGovernances ==
  {App(refund, Undefined, <<Tagged>>, TRUE) : refund \in Refunds}
    \cup {App(refund, search, policies, TRUE) :
            refund \in {Refund, [Refund EXCEPT !.expose = {}], Undefined},
            search \in {Unmarked, Search},
            policies \in {<<Tagged>>, <<OnMcp>>}}
    \cup {App(Refund, [Search EXCEPT !.expose = {}], <<Tagged>>, TRUE)}
    \cup {App(Refund, Undefined, policies, TRUE) :
            policies \in {<<>>, <<Always>>, <<OnMcp>>, <<Tagged, Log>>, <<Log, Tagged>>,
                          <<Guard(Tagged.scope, {"invocation"})>>,
                          <<Guard(Scope({"refund"}, Undefined, Undefined), Both)>>,
                          <<Guard(Scope({"search"}, Undefined, Undefined), Both)>>}}
    \cup {App(Refund, Undefined, <<Tagged>>, FALSE), App(Refund, Undefined, <<>>, FALSE)}

\* Two policies of one name, each for its own capabilities.
ForSearch == Guard(Scope({"search"}, Undefined, Undefined), Both)

MCTwins ==
  {App(Refund, Search, policies, TRUE) :
     policies \in {<<Tagged, ForSearch>>, <<ForSearch, Tagged>>, <<Tagged>>, <<ForSearch>>,
                   <<OnMcp, ForSearch>>, <<Tagged, ForSearch, Log>>}}
    \cup {App([Refund EXCEPT !.text = "t2"], Search, <<Tagged, ForSearch>>, TRUE)}
=============================================================================
