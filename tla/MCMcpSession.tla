----------------------------- MODULE MCMcpSession -----------------------------
(***************************************************************************)
(* A server that is connected to twice, by two principals and without      *)
(* session ids.                                                            *)
(***************************************************************************)
EXTENDS McpSession

CONSTANTS q1, q2, q3

MCPrincipalOf == <<"alice", "bob">>
MCSessionOf == <<"__single_session__", "__single_session__">>

\* "a.b" and "a_b" have one default name; "a.b" may be named otherwise, even
\* like the tool that resumes; that tool may be there or not.
Server(name, exposed, resume) ==
  [name |-> [id \in {"a.b", "a_b"} |-> IF id = "a.b" THEN name ELSE "a_b"],
   exposed |-> exposed, resume |-> resume]

MCServers ==
  {Server(name, exposed, resume) :
     name \in {"a_b", "other", "approvals_resume"},
     exposed \in {{"a.b"}}, resume \in {"approvals_resume", None}}

List == [op |-> "list", name |-> None, id |-> None]
Call(name) == [op |-> "call", name |-> name, id |-> None]
Resume(id) == [op |-> "call", name |-> "approvals_resume", id |-> id]

MCMayAsk ==
  [q \in Requests |->
     CASE q = q1 -> {Call("other"), List}
       [] q = q2 -> {Resume("known")}
       [] OTHER -> {Resume("known"), Resume("unknown"), Resume(None)}]

MCLifetimes == [q \in Requests |-> IF q = q1 THEN {None} ELSE {1}]

MCThrows ==
  {[class |-> "ORPCError", code |-> "CONFLICT", invalid |-> FALSE, message |-> "declared"]}
=============================================================================
