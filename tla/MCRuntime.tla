------------------------------ MODULE MCRuntime ------------------------------
(***************************************************************************)
(* Small instances of three parts of one process that share no state: the  *)
(* in-memory coordinator, the audit emitters with their sink, and          *)
(* describe.  A behaviour in which several of them move is an interleaving *)
(* of behaviours of each, and no property speaks of two of them; so each   *)
(* moves here while the others are at rest, and nothing is lost.           *)
(*                                                                         *)
(* One request emits s1 (started) and n1 and drains twice, another one     *)
(* emits n3 through the same sink.  describe is asked for one capability   *)
(* without discovery policies, one with one, one with two and a static     *)
(* approval.                                                               *)
(***************************************************************************)
EXTENDS InMemoryCoordinator, AuditDelivery, MCDiscovery

CONSTANTS s1, n1, n3, d1, d2, m1, m2

MCEmitterOf == [x \in Events \cup Drains |-> IF x = n3 THEN m2 ELSE m1]

RuntimeInit == CoordinatorInit /\ Init /\ DescribeInit

RuntimeNext ==
  \/ Init /\ DescribeInit /\ CoordinatorNext /\ UNCHANGED <<vars, describeVars>>
  \/ CoordinatorInit /\ DescribeInit /\ Next /\ UNCHANGED <<coordinatorVars, describeVars>>
  \/ CoordinatorInit /\ Init /\ DescribeNext /\ UNCHANGED <<coordinatorVars, vars>>

RuntimeSpec ==
  /\ RuntimeInit
  /\ [][RuntimeNext]_<<coordinatorVars, vars, describeVars>>
  /\ AuditFairness /\ DescribeFairness
=============================================================================
