----------------------------- MODULE PolicyScopes -----------------------------
(***************************************************************************)
(* Where a policy applies (core/src/policy/scope.ts).  A scope is a record *)
(* of sets, any of which may be missing; the whole scope may be missing.   *)
(* Sets stand for what normalizePolicyScope makes of the arrays: sorted,   *)
(* without repetition.  A capability's meta is any record with the fields  *)
(* expose, tags, sideEffect and risk.                                      *)
(***************************************************************************)
CONSTANT Undefined      \* what JavaScript calls so

Surfaces == {"direct", "aiSdk", "mcp", "workflow", "test"}
SideEffects == {"none", "read", "write", "destructive", "external"}
Risks == {0, 1, 2, 3}           \* low, medium, high, critical, by RISK_RANK
Phases == {"discovery", "invocation", "execution"}

Maybe(S) == S \cup {Undefined}

IsScope(scope) ==
  \/ scope = Undefined
  \/ /\ DOMAIN scope = {"ids", "tags", "sideEffects", "risks", "surfaces"}
     /\ scope.surfaces \in Maybe(SUBSET Surfaces)
     /\ scope.sideEffects \in Maybe(SUBSET SideEffects)
     /\ scope.risks \in Maybe(SUBSET Risks)

\* Fields compose with AND, values inside one field with ANY.
CapabilityMatches(scope, id, meta) ==
  scope # Undefined =>
    /\ scope.ids # Undefined => id \in scope.ids
    /\ scope.tags # Undefined => scope.tags \cap meta.tags # {}
    /\ scope.sideEffects # Undefined => meta.sideEffect \in scope.sideEffects
    /\ scope.risks # Undefined => meta.risk \in scope.risks

ScopedSurfaces(scope) ==
  IF scope = Undefined \/ scope.surfaces = Undefined THEN Surfaces ELSE scope.surfaces

\* The runtime's test, for a request on one surface.
PolicyApplies(policy, phase, id, meta, surface) ==
  /\ phase \in policy.phases
  /\ CapabilityMatches(policy.scope, id, meta)
  /\ surface \in ScopedSurfaces(policy.scope)

\* A candidate is reachable on a surface of the scope; without surfaces in
\* the scope, reachable or not.
IsCandidate(scope, id, meta) ==
  /\ CapabilityMatches(scope, id, meta)
  /\ \/ scope = Undefined
     \/ scope.surfaces = Undefined
     \/ scope.surfaces \cap meta.expose # {}
=============================================================================
