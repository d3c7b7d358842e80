-------------------------- MODULE InvocationPromise --------------------------
(***************************************************************************)
(* What the gateway promises a remote host about one invocation id: it is  *)
(* admitted once, its effect happens at most once and only while it is     *)
(* admitted, a settled result tells the truth about the effect, and a      *)
(* settled result stands, except that an approval lets the invocation go   *)
(* on (docs/guides/distributed.md, "Retries, approvals and                 *)
(* reconciliation").                                                       *)
(***************************************************************************)
CONSTANTS
  Keys,    \* invocation ids, each in its scope
  Runs     \* runs of the handler

VARIABLES
  stage,    \* stage[k]: "new", "open", "waiting", "completed" or "failed"
  effect    \* effect[k]: the runs that have taken effect

promise == <<stage, effect>>

Init ==
  /\ stage = [k \in Keys |-> "new"]
  /\ effect = [k \in Keys |-> {}]

Move(k, from, to) == stage[k] = from /\ stage' = [stage EXCEPT ![k] = to]

Admit(k) == Move(k, "new", "open") /\ UNCHANGED effect

Act(k, run) ==
  /\ stage[k] = "open" /\ effect[k] = {}
  /\ effect' = [effect EXCEPT ![k] = {run}]
  /\ UNCHANGED stage

Settle(k, result) ==
  /\ result = "completed" <=> effect[k] # {}
  /\ Move(k, "open", result)
  /\ UNCHANGED effect

Continue(k) == Move(k, "waiting", "open") /\ UNCHANGED effect

Next ==
  \E k \in Keys :
    \/ Admit(k) \/ Continue(k)
    \/ \E run \in Runs : Act(k, run)
    \/ \E result \in {"waiting", "completed", "failed"} : Settle(k, result)

Spec == Init /\ [][Next]_promise
=============================================================================
