---------------------------- MODULE CapabilityDiff ----------------------------
(***************************************************************************)
(* The drift gate: a governance (core/src/governance.ts, registry.ts) is   *)
(* recorded in a committed snapshot (cli/src/snapshot.ts), and a change of *)
(* the application passes `orpc-agent check` (cli/src/cli.ts) if what      *)
(* diffSnapshots (cli/src/diff.ts) reports lets it pass.                   *)
(*                                                                         *)
(* A change of the application is merged either with the snapshot left     *)
(* alone, when check compares the two, or with the snapshot rewritten in   *)
(* the same change, when check finds nothing and a human looks at what     *)
(* widens.  The question is what accumulates over many changes.            *)
(*                                                                         *)
(* text stands for description, input schema, tool names and time-out,     *)
(* which diffEntry treats alike.                                           *)
(***************************************************************************)
EXTENDS PolicyScopes, Naturals, Sequences, Functions

CONSTANTS
  Ids,            \* paths of procedures
  Unmarked,       \* a procedure without meta.agent
  Governances,    \* what the application may be changed to
  Versions,       \* of the snapshot file at the beginning
  FailOn          \* --fail-on: "any" or "widening"

VARIABLES
  base,           \* the committed file: what it was taken from, its version
  app,            \* the application's governance
  looked          \* the file when a human last looked at a widening

vars == <<base, app, looked>>

-----------------------------------------------------------------------------
(***************************************************************************)
(* Governance: for each path no procedure (Undefined), one without         *)
(* meta.agent (Unmarked) or a capability's meta; the runtime's policies, *)
(* composites flattened; and whether the entry module shows the runtime.   *)
(***************************************************************************)
IsPolicy(p) ==
  /\ DOMAIN p = {"name", "phases", "scope"}
  /\ p.phases \subseteq Phases /\ IsScope(p.scope)

IsMeta(m) ==
  /\ DOMAIN m = {"expose", "sideEffect", "risk", "approval", "idempotent", "retry",
                 "tags", "policies", "redact", "text"}
  /\ m.expose \subseteq Surfaces /\ m.sideEffect \in SideEffects /\ m.risk \in Risks
  /\ m.approval # Undefined => m.approval.required \in BOOLEAN
  /\ m.idempotent \in BOOLEAN
  /\ m.retry # Undefined => m.retry.maxAttempts \in Nat
  /\ m.redact \subseteq {"output", "approvalInput"}
  /\ \A p \in Range(m.policies) : IsPolicy(p)

IsGovernance(g) ==
  /\ DOMAIN g = {"procedures", "policies", "observed"}
  /\ DOMAIN g.procedures = Ids /\ g.observed \in BOOLEAN
  /\ \A id \in Ids : g.procedures[id] \in {Undefined, Unmarked} \/ IsMeta(g.procedures[id])
  /\ DOMAIN g.policies = 1..Len(g.policies)
  /\ \A p \in Range(g.policies) : IsPolicy(p)

ASSUME DiffConstants ==
  /\ \A g \in Governances : IsGovernance(g)
  /\ Versions \subseteq 1..3 /\ FailOn \in {"any", "widening"}
  /\ Unmarked # Undefined

Capabilities(g) == {id \in Ids : g.procedures[id] \notin {Undefined, Unmarked}}

WriteLike(sideEffect) == sideEffect \in {"write", "destructive", "external"}

MaxAttempts(m) == IF m.retry = Undefined THEN 0 ELSE m.retry.maxAttempts

\* What the registry and defineGovernance accept.
Loads(g) ==
  /\ \A id \in Capabilities(g) : LET m == g.procedures[id] IN
       MaxAttempts(m) > 0 /\ WriteLike(m.sideEffect) => m.idempotent
  /\ \A p \in Range(g.policies) :
       p.scope # Undefined /\ p.scope.ids # Undefined => p.scope.ids \subseteq Capabilities(g)

-----------------------------------------------------------------------------
(***************************************************************************)
(* buildSnapshot.  Older files lack what their version did not know.       *)
(***************************************************************************)
NamesOf(policies) == [i \in DOMAIN policies |-> policies[i].name]

\* Hooks are recorded by their presence, which is all that a meta says of
\* them here; policies of a capability's own by name only.
Entry(m) == [m EXCEPT !.policies = NamesOf(@)]

RuntimeEntry(g, p, version) ==
  [name |-> p.name, phases |-> p.phases,
   scope |-> IF version = 3 THEN p.scope ELSE Undefined,
   candidates |-> IF version = 3
     THEN {id \in Capabilities(g) : IsCandidate(p.scope, id, g.procedures[id])}
     ELSE Undefined]

RuntimeOf(g, version) ==
  [i \in DOMAIN g.policies |-> RuntimeEntry(g, g.policies[i], version)]

Snapshot(g, version) ==
  [entries |-> [id \in Capabilities(g) |-> Entry(g.procedures[id])],
   excluded |-> {id \in Ids : g.procedures[id] = Unmarked},
   runtime |-> IF g.observed /\ version > 1 THEN RuntimeOf(g, version) ELSE Undefined]

ASSUME UndefinedIsNoValue ==
  /\ \A candidates \in SUBSET Ids : candidates # Undefined
  /\ \A g \in Governances, version \in {2, 3} : RuntimeOf(g, version) # Undefined

-----------------------------------------------------------------------------
(***************************************************************************)
(* diffSnapshots: the set of the changes it reports.                       *)
(***************************************************************************)
Report(condition, kind, id, field) ==
  IF condition THEN {[kind |-> kind, id |-> id, field |-> field]} ELSE {}

\* Something that may be there before and after.
Lost(was, is, id, field) == Report(was /\ ~is, "widening", id, field)
Gained(was, is, id, field) == Report(~was /\ is, "narrowing", id, field)

Reordered(before, after) ==
  /\ Range(before) = Range(after)
  /\ \E i \in DOMAIN before : i \notin DOMAIN after \/ after[i] # before[i]

Requires(entry) == entry.approval # Undefined /\ entry.approval.required

\* Mutated: a new surface is a feature like any other.
DiffExposeKindly(b, a, id) ==
  Report(a.expose # b.expose, "neutral", id, "expose")

DiffExpose(b, a, id) ==
  Report(a.expose \ b.expose # {}, "widening", id, "expose")
    \cup Report(b.expose \ a.expose # {}, "narrowing", id, "expose")

DiffControls(b, a, id) ==
  Report(b.sideEffect # a.sideEffect, "widening", id, "sideEffect")
    \cup Report(a.risk < b.risk, "widening", id, "risk")
    \cup Report(a.risk > b.risk, "narrowing", id, "risk")
    \cup Lost(Requires(b), Requires(a), id, "approval")
    \cup Gained(Requires(b), Requires(a), id, "approval")
    \cup Report(Requires(b) /\ Requires(a) /\ b.approval.type # a.approval.type,
                "neutral", id, "approval.type")
    \cup Lost(a.idempotent, b.idempotent, id, "idempotent")
    \cup Gained(a.idempotent, b.idempotent, id, "idempotent")

DiffRetry(b, a, id) ==
  LET more == MaxAttempts(a) > MaxAttempts(b) /\ WriteLike(a.sideEffect) IN
  Report(more, "widening", id, "retry")
    \cup Report(MaxAttempts(a) # MaxAttempts(b) /\ ~more, "neutral", id, "retry")

DiffOwnPolicies(b, a, id) ==
  Report(Range(b.policies) \ Range(a.policies) # {}, "widening", id, "policies")
    \cup Report(Range(a.policies) \ Range(b.policies) # {}, "narrowing", id, "policies")
    \cup Report(Reordered(b.policies, a.policies), "neutral", id, "policies")

DiffRest(b, a, id) ==
  Report(b.text # a.text, "neutral", id, "text")
    \cup Report(b.tags # a.tags, "neutral", id, "tags")
    \cup UNION {Lost(hook \in b.redact, hook \in a.redact, id, hook)
                  \cup Gained(hook \in b.redact, hook \in a.redact, id, hook) :
                hook \in {"output", "approvalInput"}}

DiffEntry(b, a, id) ==
  DiffExpose(b, a, id) \cup DiffControls(b, a, id) \cup DiffRetry(b, a, id)
    \cup DiffOwnPolicies(b, a, id) \cup DiffRest(b, a, id)

DiffAdded(added) ==
  UNION {Report(added[id].expose # {}, "widening", id, "capability")
           \cup Report(added[id].expose = {}, "neutral", id, "capability") : id \in DOMAIN added}

DiffKept(b, a) ==
  UNION {DiffEntry(b[id], a[id], id) : id \in DOMAIN b \cap DOMAIN a}

DiffCapabilities(before, after) ==
  LET b == before.entries  a == after.entries IN
  DiffKept(b, a)
    \cup DiffAdded([id \in DOMAIN a \ DOMAIN b |-> a[id]])
    \cup [kind : {"narrowing"}, id : DOMAIN b \ DOMAIN a, field : {"capability"}]

DiffExcluded(before, after) ==
  [kind : {"narrowing"}, id : after.excluded \ before.excluded, field : {"excluded"}]
    \cup [kind : {"neutral"}, field : {"excluded"},
          id : before.excluded \ (after.excluded \cup DOMAIN after.entries)]

-----------------------------------------------------------------------------
\* A Map by name keeps the last of the same name.
Named(runtime, name) ==
  runtime[CHOOSE i \in DOMAIN runtime :
    /\ runtime[i].name = name
    /\ \A j \in DOMAIN runtime : runtime[j].name = name => j <= i]

PolicyNames(runtime) == Range(NamesOf(runtime))

RuntimeReport(condition, kind, field) == Report(condition, kind, "(runtime)", field)

DiffSurfaces(b, a) ==
  LET was == ScopedSurfaces(b.scope)  is == ScopedSurfaces(a.scope) IN
  RuntimeReport(was \ is # {}, "widening", "runtime.policyScope")
    \cup RuntimeReport(is \ was # {}, "narrowing", "runtime.policyScope")

\* Mutated: a policy that no longer matches a capability is tidied up.
DiffCandidatesKindly(b, a, common) ==
  RuntimeReport(common \cap b.candidates # common \cap a.candidates, "neutral",
                "runtime.policyScope")

DiffCandidates(b, a, common) ==
  RuntimeReport(common \cap (b.candidates \ a.candidates) # {}, "widening",
                "runtime.policyScope")
    \cup RuntimeReport(common \cap (a.candidates \ b.candidates) # {}, "narrowing",
                       "runtime.policyScope")

\* A selector rewritten to the same effect today.
DiffSelector(b, a, common) ==
  LET same == DiffSurfaces(b, a) \cup DiffCandidates(b, a, common) = {} /\ b.scope # a.scope
  IN RuntimeReport(same /\ a.scope = Undefined, "widening", "runtime.policyScope")
       \cup RuntimeReport(same /\ b.scope = Undefined, "narrowing", "runtime.policyScope")
       \cup RuntimeReport(same /\ Undefined \notin {a.scope, b.scope}, "neutral",
                          "runtime.policyScope")

DiffScope(b, a, common) ==
  IF b.candidates # Undefined /\ a.candidates # Undefined
    THEN DiffSurfaces(b, a) \cup DiffCandidates(b, a, common) \cup DiffSelector(b, a, common)
    ELSE Lost(b.candidates # Undefined, a.candidates # Undefined, "(runtime)",
              "runtime.policyScope")
           \cup RuntimeReport(a.candidates # Undefined, "neutral", "runtime.policyScope")

DiffPolicy(b, a, common) ==
  RuntimeReport(b.phases \ a.phases # {}, "widening", "runtime.policies")
    \cup RuntimeReport(a.phases \ b.phases # {}, "narrowing", "runtime.policies")
    \cup DiffScope(b, a, common)

DiffPolicies(before, after, common) ==
  LET was == PolicyNames(before)  is == PolicyNames(after) IN
  RuntimeReport(was \ is # {}, "widening", "runtime.policies")
    \cup RuntimeReport(is \ was # {}, "narrowing", "runtime.policies")
    \cup RuntimeReport(Reordered(NamesOf(before), NamesOf(after)), "neutral", "runtime.policies")
    \cup UNION {DiffPolicy(Named(before, name), Named(after, name), common) : name \in was \cap is}

DiffRuntime(before, after) ==
  IF Undefined \notin {before.runtime, after.runtime}
    THEN DiffPolicies(before.runtime, after.runtime,
                      DOMAIN before.entries \cap DOMAIN after.entries)
    ELSE Lost(before.runtime # Undefined, after.runtime # Undefined, "(runtime)", "runtime")
           \cup RuntimeReport(after.runtime # Undefined, "neutral", "runtime")

Diff(before, after) ==
  DiffCapabilities(before, after) \cup DiffRuntime(before, after)
    \cup DiffExcluded(before, after)

Widens(before, after) == \E c \in Diff(before, after) : c.kind = "widening"

-----------------------------------------------------------------------------
FileOf(g) == [governance |-> g, version |-> 3]

Contents(file) == Snapshot(file.governance, file.version)

Init ==
  \E g \in Governances, version \in Versions :
    /\ Loads(g)
    /\ app = g
    /\ base = [governance |-> g, version |-> version]
    /\ looked = base

\* check exits with EXIT_OK.
Passes(g) ==
  CASE FailOn = "any" -> Diff(Contents(base), Snapshot(g, 3)) = {}
    [] FailOn = "widening" -> ~Widens(Contents(base), Snapshot(g, 3))

\* A change merged because check let it pass.
Merge(g) ==
  /\ Loads(g) /\ Passes(g)
  /\ app' = g
  /\ UNCHANGED <<base, looked>>

\* A change merged together with the snapshot of it.
MergeAndRecord(g) ==
  /\ Loads(g)
  /\ app' = g /\ base' = FileOf(g)
  /\ looked' = IF Widens(Contents(base), Snapshot(g, 3)) THEN FileOf(g) ELSE looked

Next == \E g \in Governances : Merge(g) \/ MergeAndRecord(g)

Spec == Init /\ [][Next]_vars

-----------------------------------------------------------------------------
TypeOK ==
  /\ app \in Governances
  /\ {base, looked} \subseteq [governance : Governances, version : Versions \cup {3}]

Expose(g, id) == IF id \in Capabilities(g) THEN g.procedures[id].expose ELSE {}

\* The attempts a failed write may be repeated for.
WriteRetries(m) == IF WriteLike(m.sideEffect) /\ m.idempotent THEN MaxAttempts(m) ELSE 0

AsClosed(g, h) ==
  \A id \in Ids : Expose(h, id) # {} =>
    LET was == g.procedures[id]  is == h.procedures[id] IN
    /\ Expose(h, id) \subseteq Expose(g, id)
    /\ Requires(was) => Requires(is)
    /\ was.redact \subseteq is.redact
    /\ was.sideEffect = is.sideEffect /\ was.risk <= is.risk
    /\ WriteRetries(is) <= WriteRetries(was)
    /\ PolicyNames(was.policies) \subseteq PolicyNames(is.policies)

\* Nothing opens unseen: whatever sequence of changes was merged past the
\* gate, with the snapshot rewritten or not, since a human last looked at a
\* widening no capability has become reachable on another surface, lost its
\* approval gate, a redaction or a policy of its own, been declared less risky
\* or otherwise effective, or had a write repeated more often.
NothingOpens == AsClosed(looked.governance, app)

GuardsOf(g, id, surface, phase) ==
  {p.name : p \in {q \in Range(g.policies) :
     PolicyApplies(q, phase, id, g.procedures[id], surface)}}

\* The runtime's policies keep guarding: once the file a human looked at
\* records where they apply, every policy that was asked about a capability on
\* a surface in a phase is still asked about it, wherever that is reachable.
GuardsStay ==
  looked.version = 3 /\ looked.governance.observed =>
    \A id \in Ids : \A surface \in Expose(app, id), phase \in Phases :
      GuardsOf(looked.governance, id, surface, phase) \subseteq GuardsOf(app, id, surface, phase)
=============================================================================
