----------------------------- MODULE MCDiscovery -----------------------------
(***************************************************************************)
(* Small instances of Discovery.  In the larger one a capability has no    *)
(* discovery policies, one has one, and one has two and a static approval; *)
(* in the other one a single policy has all the time there is.             *)
(***************************************************************************)
EXTENDS Discovery

MCPoliciesOf == <<1, 0, 2>>

MCOnePolicy == <<1>>
=============================================================================
