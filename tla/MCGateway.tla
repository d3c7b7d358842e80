----------------------------- MODULE MCGateway -----------------------------
(***************************************************************************)
(* Small instances of Gateway: one invocation id, a first call with input  *)
(* "x" under contract "c1", and two later requests that repeat it, reuse   *)
(* its id, resume it or look it up, from this deployment or another.       *)
(***************************************************************************)
EXTENDS Gateway

CONSTANTS r1, r2, r3

Question(op, input, digest, approval, contract) ==
  [op |-> op, key |-> "k", input |-> input, digest |-> digest,
   approval |-> approval, contract |-> contract]

First == {Question("invoke", "x", None, None, "c1")}

Repeats ==
  {Question("invoke", i, d, None, c) :
     i \in {"x", "y"}, d \in {None, "c1"}, c \in {"c1", "c2"}}
  \cup {Question("invoke", "x", None, None, None), Question("invoke", None, None, None, "c1")}

Resumes == {Question("resume", None, d, r1, c) : d \in {None, "c1"}, c \in {"c1", "c2"}}

Lookup == {Question("get", None, None, None, None)}

MCMayAsk ==
  [r \in Requests |->
     CASE r = r1 -> First
       [] r = r2 -> Repeats \cup Resumes
       [] OTHER -> Resumes \cup Lookup]
=============================================================================
