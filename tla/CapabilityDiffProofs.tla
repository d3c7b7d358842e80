------------------------- MODULE CapabilityDiffProofs -------------------------
(***************************************************************************)
(* NothingOpens for every set of governances, and GuardsStay for those in  *)
(* which no two runtime policies have one name.                            *)
(***************************************************************************)
EXTENDS CapabilityDiff, TLAPS

Silent(changes) == \A c \in changes : c.kind # "widening"

\* What is not reported as a widening does not hold.
LEMMA SilentReport ==
  ASSUME NEW condition \in BOOLEAN, NEW id, NEW field,
         Silent(Report(condition, "widening", id, field))
  PROVE  ~condition
BY DEF Silent, Report

LEMMA SilentLost ==
  ASSUME NEW was \in BOOLEAN, NEW is \in BOOLEAN, NEW id, NEW field,
         Silent(Lost(was, is, id, field))
  PROVE  was => is
BY DEF Silent, Report, Lost

IsEntry(e) ==
  /\ e.idempotent \in BOOLEAN /\ Requires(e) \in BOOLEAN
  /\ e.risk \in Nat /\ MaxAttempts(e) \in Nat
  /\ e.redact \subseteq {"output", "approvalInput"}

\* One entry does not widen another.
EntryAsClosed(b, a) ==
  /\ a.expose \subseteq b.expose
  /\ a.sideEffect = b.sideEffect /\ b.risk <= a.risk
  /\ Requires(b) => Requires(a)
  /\ a.idempotent => b.idempotent
  /\ WriteLike(a.sideEffect) => MaxAttempts(a) <= MaxAttempts(b)
  /\ Range(b.policies) \subseteq Range(a.policies)
  /\ b.redact \subseteq a.redact

LEMMA SilentEntry ==
  ASSUME NEW b, NEW a, NEW id, IsEntry(b), IsEntry(a), Silent(DiffEntry(b, a, id))
  PROVE  EntryAsClosed(b, a)
<1>1. /\ Silent(DiffExpose(b, a, id)) /\ Silent(DiffControls(b, a, id))
      /\ Silent(DiffRetry(b, a, id)) /\ Silent(DiffOwnPolicies(b, a, id))
      /\ Silent(DiffRest(b, a, id))
  BY DEF DiffEntry, Silent
<1>2. a.expose \subseteq b.expose
  <2>1. Silent(Report(a.expose \ b.expose # {}, "widening", id, "expose"))
    BY <1>1 DEF DiffExpose, Silent
  <2> QED BY <2>1, SilentReport
<1>3. /\ a.sideEffect = b.sideEffect /\ ~(a.risk < b.risk)
      /\ Requires(b) => Requires(a)
      /\ a.idempotent => b.idempotent
  <2>1. /\ Silent(Report(b.sideEffect # a.sideEffect, "widening", id, "sideEffect"))
        /\ Silent(Report(a.risk < b.risk, "widening", id, "risk"))
        /\ Silent(Lost(Requires(b), Requires(a), id, "approval"))
        /\ Silent(Lost(a.idempotent, b.idempotent, id, "idempotent"))
    BY <1>1 DEF DiffControls, Silent
  <2>2. a.sideEffect = b.sideEffect
    BY <2>1, SilentReport
  <2>3. ~(a.risk < b.risk)
    BY <2>1, SilentReport
  <2>4. /\ Requires(b) => Requires(a)
        /\ a.idempotent => b.idempotent
    BY <2>1, SilentLost DEF IsEntry
  <2> QED BY <2>2, <2>3, <2>4
<1>4. WriteLike(a.sideEffect) => ~(MaxAttempts(a) > MaxAttempts(b))
  <2>1. Silent(Report(MaxAttempts(a) > MaxAttempts(b) /\ WriteLike(a.sideEffect),
                      "widening", id, "retry"))
    BY <1>1 DEF DiffRetry, Silent
  <2> QED BY <2>1, SilentReport
<1>5. Range(b.policies) \subseteq Range(a.policies)
  <2>1. Silent(Report(Range(b.policies) \ Range(a.policies) # {}, "widening", id, "policies"))
    BY <1>1 DEF DiffOwnPolicies, Silent
  <2> QED BY <2>1, SilentReport
<1>6. b.redact \subseteq a.redact
  <2>1. ASSUME NEW hook \in {"output", "approvalInput"}
        PROVE  hook \in b.redact => hook \in a.redact
    <3>1. Lost(hook \in b.redact, hook \in a.redact, id, hook) \subseteq DiffRest(b, a, id)
      <4> DEFINE hooks == UNION {Lost(k \in b.redact, k \in a.redact, id, k)
                                   \cup Gained(k \in b.redact, k \in a.redact, id, k) :
                                 k \in {"output", "approvalInput"}}
      <4>1. Lost(hook \in b.redact, hook \in a.redact, id, hook) \subseteq hooks
        OBVIOUS
      <4>2. hooks \subseteq DiffRest(b, a, id)
        BY DEF DiffRest
      <4> QED BY <4>1, <4>2
    <3>2. Silent(Lost(hook \in b.redact, hook \in a.redact, id, hook))
      BY <1>1, <3>1 DEF Silent
    <3> QED BY <3>2 DEF Silent, Lost, Report
  <2> QED BY <2>1 DEF IsEntry
<1> QED BY <1>2, <1>3, <1>4, <1>5, <1>6 DEF EntryAsClosed, IsEntry

-----------------------------------------------------------------------------
(***************************************************************************)
(* NothingOpens.                                                           *)
(***************************************************************************)
LEMMA EntryOfMeta ==
  ASSUME NEW m, IsMeta(m)
  PROVE  /\ IsEntry(Entry(m))
         /\ Entry(m).expose = m.expose /\ Entry(m).sideEffect = m.sideEffect
         /\ Entry(m).risk = m.risk /\ Entry(m).idempotent = m.idempotent
         /\ Entry(m).redact = m.redact /\ Entry(m).policies = NamesOf(m.policies)
         /\ Requires(Entry(m)) = Requires(m)
         /\ MaxAttempts(Entry(m)) = MaxAttempts(m)
  BY DEF IsMeta, Entry, IsEntry, Requires, MaxAttempts, Risks

\* AsClosed without the parts of it that quantify.
MetaAsClosed(was, is) ==
  /\ is.expose \subseteq was.expose
  /\ Requires(was) => Requires(is)
  /\ was.redact \subseteq is.redact
  /\ was.sideEffect = is.sideEffect /\ was.risk <= is.risk
  /\ WriteRetries(is) <= WriteRetries(was)
  /\ PolicyNames(was.policies) \subseteq PolicyNames(is.policies)

LEMMA CapabilityHasMeta ==
  ASSUME NEW g \in Governances, NEW id \in Capabilities(g)
  PROVE  IsMeta(g.procedures[id])
BY DiffConstants DEF IsGovernance, Capabilities

LEMMA MetaClosed ==
  ASSUME NEW m, NEW n, IsMeta(m), IsMeta(n), EntryAsClosed(Entry(m), Entry(n))
  PROVE  MetaAsClosed(m, n)
<1>1. WriteRetries(n) <= WriteRetries(m)
  BY EntryOfMeta DEF EntryAsClosed, WriteRetries, IsEntry
<1> QED BY <1>1, EntryOfMeta DEF EntryAsClosed, MetaAsClosed, PolicyNames

\* A capability on both sides does not widen; a new one is not exposed.
LEMMA SilentCapabilities ==
  ASSUME NEW g \in Governances, NEW h \in Governances, NEW version,
         ~Widens(Snapshot(g, version), Snapshot(h, 3)),
         NEW id \in Capabilities(h), h.procedures[id].expose # {}
  PROVE  id \in Capabilities(g) /\ MetaAsClosed(g.procedures[id], h.procedures[id])
<1> DEFINE b == Snapshot(g, version).entries
           a == Snapshot(h, 3).entries
<1>1. /\ DOMAIN b = Capabilities(g) /\ DOMAIN a = Capabilities(h)
      /\ \A i \in Capabilities(g) : b[i] = Entry(g.procedures[i])
      /\ \A i \in Capabilities(h) : a[i] = Entry(h.procedures[i])
  BY DEF Snapshot
<1>2. Silent(DiffCapabilities(Snapshot(g, version), Snapshot(h, 3)))
  BY DEF Widens, Diff, Silent
<1>3. IsMeta(h.procedures[id])
  BY CapabilityHasMeta
<1>4. id \in Capabilities(g)
  <2> SUFFICES ASSUME id \notin Capabilities(g)
               PROVE  FALSE
    OBVIOUS
  <2> DEFINE added == [i \in DOMAIN a \ DOMAIN b |-> a[i]]
  <2>1. Report(a[id].expose # {}, "widening", id, "capability")
          \subseteq DiffCapabilities(Snapshot(g, version), Snapshot(h, 3))
    <3>1. id \in DOMAIN added /\ added[id] = a[id]
      BY <1>1
    <3> HIDE DEF added
    <3>2. Report(added[id].expose # {}, "widening", id, "capability") \subseteq DiffAdded(added)
      BY <3>1 DEF DiffAdded
    <3>3. DiffAdded(added) \subseteq DiffCapabilities(Snapshot(g, version), Snapshot(h, 3))
      BY DEF DiffCapabilities, added
    <3> QED BY <3>1, <3>2, <3>3
  <2>2. Silent(Report(a[id].expose # {}, "widening", id, "capability"))
    BY <2>1, <1>2 DEF Silent
  <2>3. a[id].expose = {}
    BY <2>2, SilentReport
  <2> QED BY <2>3, <1>1, <1>3, EntryOfMeta
<1>5. Silent(DiffEntry(b[id], a[id], id))
  <2>1. DiffEntry(b[id], a[id], id)
          \subseteq DiffCapabilities(Snapshot(g, version), Snapshot(h, 3))
    BY <1>1, <1>4, Zenon DEF DiffCapabilities, DiffKept
  <2> QED BY <2>1, <1>2 DEF Silent
<1>6. IsMeta(g.procedures[id])
  BY <1>4, CapabilityHasMeta
<1>7. EntryAsClosed(Entry(g.procedures[id]), Entry(h.procedures[id]))
  <2>1. /\ IsEntry(Entry(g.procedures[id])) /\ IsEntry(Entry(h.procedures[id]))
        /\ Silent(DiffEntry(Entry(g.procedures[id]), Entry(h.procedures[id]), id))
    BY <1>1, <1>3, <1>4, <1>5, <1>6, EntryOfMeta
  <2> QED BY <2>1, SilentEntry
<1> QED BY <1>3, <1>4, <1>6, <1>7, MetaClosed

LEMMA SilentDiffIsClosed ==
  ASSUME NEW g \in Governances, NEW h \in Governances, NEW version,
         ~Widens(Snapshot(g, version), Snapshot(h, 3))
  PROVE  AsClosed(g, h)
<1> SUFFICES ASSUME NEW id \in Ids, Expose(h, id) # {}
             PROVE  /\ id \in Capabilities(g) /\ id \in Capabilities(h)
                    /\ MetaAsClosed(g.procedures[id], h.procedures[id])
  BY DEF AsClosed, MetaAsClosed, Expose
<1>1. id \in Capabilities(h) /\ h.procedures[id].expose # {}
  BY DEF Expose
<1> QED BY <1>1, SilentCapabilities

LEMMA AsClosedIsTransitive ==
  ASSUME NEW g \in Governances, NEW h \in Governances, NEW i \in Governances,
         AsClosed(g, h), AsClosed(h, i)
  PROVE  AsClosed(g, i)
<1> SUFFICES ASSUME NEW id \in Ids, Expose(i, id) # {}
             PROVE  LET was == g.procedures[id]  is == i.procedures[id] IN
                    /\ Expose(i, id) \subseteq Expose(g, id)
                    /\ Requires(was) => Requires(is)
                    /\ was.redact \subseteq is.redact
                    /\ was.sideEffect = is.sideEffect /\ was.risk <= is.risk
                    /\ WriteRetries(is) <= WriteRetries(was)
                    /\ PolicyNames(was.policies) \subseteq PolicyNames(is.policies)
  BY DEF AsClosed
<1> DEFINE G == g.procedures[id]
           H == h.procedures[id]
           I == i.procedures[id]
<1>1. /\ Expose(i, id) \subseteq Expose(h, id)
      /\ Requires(H) => Requires(I)
      /\ H.redact \subseteq I.redact
      /\ H.sideEffect = I.sideEffect /\ H.risk <= I.risk
      /\ WriteRetries(I) <= WriteRetries(H)
      /\ PolicyNames(H.policies) \subseteq PolicyNames(I.policies)
  BY DEF AsClosed
<1>2. Expose(h, id) # {}
  BY <1>1
<1>3. /\ Expose(h, id) \subseteq Expose(g, id)
      /\ Requires(G) => Requires(H)
      /\ G.redact \subseteq H.redact
      /\ G.sideEffect = H.sideEffect /\ G.risk <= H.risk
      /\ WriteRetries(H) <= WriteRetries(G)
      /\ PolicyNames(G.policies) \subseteq PolicyNames(H.policies)
  BY <1>2 DEF AsClosed
<1>4. id \in Capabilities(g) /\ id \in Capabilities(h) /\ id \in Capabilities(i)
  BY <1>2, <1>3 DEF Expose
<1>5. IsMeta(G) /\ IsMeta(H) /\ IsMeta(I)
  BY <1>4, CapabilityHasMeta
<1>6. {G.risk, H.risk, I.risk, WriteRetries(G), WriteRetries(H), WriteRetries(I)} \subseteq Nat
  BY <1>5 DEF IsMeta, Risks, WriteRetries, MaxAttempts
<1> HIDE DEF G, H, I
<1>7. G.risk <= I.risk /\ WriteRetries(I) <= WriteRetries(G)
  BY <1>1, <1>3, <1>6
<1> QED BY <1>1, <1>3, <1>7 DEF G, I

LEMMA AsClosedIsReflexive ==
  ASSUME NEW g \in Governances
  PROVE  AsClosed(g, g)
<1>1. \A id \in Ids : Expose(g, id) # {} => IsMeta(g.procedures[id])
  BY CapabilityHasMeta DEF Expose
<1> QED BY <1>1 DEF AsClosed, IsMeta, Risks, WriteRetries, MaxAttempts

-----------------------------------------------------------------------------
(***************************************************************************)
(* GuardsStay.                                                             *)
(***************************************************************************)
DistinctNames ==
  \A g \in Governances : \A i, j \in DOMAIN g.policies :
    g.policies[i].name = g.policies[j].name => i = j

LEMMA NamedIsUnique ==
  ASSUME NEW runtime, DOMAIN runtime \subseteq Nat, NEW i \in DOMAIN runtime,
         \A j \in DOMAIN runtime : runtime[j].name = runtime[i].name => j = i
  PROVE  Named(runtime, runtime[i].name) = runtime[i]
<1> DEFINE Last(k) == /\ runtime[k].name = runtime[i].name
                      /\ \A j \in DOMAIN runtime : runtime[j].name = runtime[i].name => j <= k
<1>1. Last(i)
  OBVIOUS
<1>2. \A k \in DOMAIN runtime : Last(k) => k = i
  OBVIOUS
<1>3. (CHOOSE k \in DOMAIN runtime : Last(k)) = i
  BY <1>1, <1>2
<1> QED BY <1>3 DEF Named

LEMMA RuntimeNames ==
  ASSUME NEW g \in Governances, DistinctNames, NEW i \in DOMAIN g.policies
  PROVE  /\ i \in DOMAIN RuntimeOf(g, 3)
         /\ RuntimeOf(g, 3)[i] = RuntimeEntry(g, g.policies[i], 3)
         /\ Named(RuntimeOf(g, 3), g.policies[i].name) = RuntimeEntry(g, g.policies[i], 3)
         /\ g.policies[i].name \in PolicyNames(RuntimeOf(g, 3))
<1> DEFINE R == RuntimeOf(g, 3)
<1>1. /\ DOMAIN R = DOMAIN g.policies
      /\ \A j \in DOMAIN R : R[j] = RuntimeEntry(g, g.policies[j], 3)
      /\ \A j \in DOMAIN R : R[j].name = g.policies[j].name
  BY DEF RuntimeOf, RuntimeEntry
<1>2. DOMAIN g.policies \subseteq Nat
  BY DiffConstants DEF IsGovernance
<1> HIDE DEF R
<1>3. \A j \in DOMAIN R : R[j].name = R[i].name => j = i
  BY <1>1 DEF DistinctNames
<1>4. Named(R, R[i].name) = R[i]
  BY <1>1, <1>2, <1>3, NamedIsUnique
<1>5. g.policies[i].name \in PolicyNames(R)
  BY <1>1 DEF PolicyNames, NamesOf, Range
<1> QED BY <1>1, <1>4, <1>5 DEF R

\* One runtime policy does not lose a phase, a surface or a capability.
LEMMA SilentPolicy ==
  ASSUME NEW b, NEW a, NEW common, Silent(DiffPolicy(b, a, common)),
         b.candidates # Undefined, a.candidates # Undefined
  PROVE  /\ b.phases \subseteq a.phases
         /\ ScopedSurfaces(b.scope) \subseteq ScopedSurfaces(a.scope)
         /\ common \cap b.candidates \subseteq a.candidates
<1>1. /\ Silent(RuntimeReport(b.phases \ a.phases # {}, "widening", "runtime.policies"))
      /\ Silent(DiffSurfaces(b, a)) /\ Silent(DiffCandidates(b, a, common))
  BY DEF DiffPolicy, DiffScope, Silent
<1>2. b.phases \subseteq a.phases
  BY <1>1, SilentReport DEF RuntimeReport
<1>3. ScopedSurfaces(b.scope) \subseteq ScopedSurfaces(a.scope)
  <2>1. Silent(RuntimeReport(ScopedSurfaces(b.scope) \ ScopedSurfaces(a.scope) # {},
                             "widening", "runtime.policyScope"))
    BY <1>1 DEF DiffSurfaces, Silent
  <2> QED BY <2>1, SilentReport DEF RuntimeReport
<1>4. common \cap b.candidates \subseteq a.candidates
  <2>1. Silent(RuntimeReport(common \cap (b.candidates \ a.candidates) # {},
                             "widening", "runtime.policyScope"))
    BY <1>1 DEF DiffCandidates, Silent
  <2>2. common \cap (b.candidates \ a.candidates) = {}
    BY <2>1, SilentReport DEF RuntimeReport
  <2> QED BY <2>2
<1> QED BY <1>2, <1>3, <1>4

LEMMA SilentRuntime ==
  ASSUME NEW g \in Governances, NEW h \in Governances, g.observed,
         ~Widens(Snapshot(g, 3), Snapshot(h, 3))
  PROVE  /\ h.observed
         /\ Silent(DiffPolicies(RuntimeOf(g, 3), RuntimeOf(h, 3),
                                Capabilities(g) \cap Capabilities(h)))
<1> DEFINE b == Snapshot(g, 3)  a == Snapshot(h, 3)
<1>1. Silent(DiffRuntime(b, a))
  BY DEF Widens, Diff, Silent
<1>2. /\ b.runtime = RuntimeOf(g, 3) /\ b.runtime # Undefined
      /\ DOMAIN b.entries = Capabilities(g) /\ DOMAIN a.entries = Capabilities(h)
      /\ a.runtime = IF h.observed THEN RuntimeOf(h, 3) ELSE Undefined
  BY UndefinedIsNoValue DEF Snapshot
<1> HIDE DEF b, a
<1>3. h.observed
  <2> SUFFICES ASSUME a.runtime = Undefined
               PROVE  FALSE
    BY <1>2
  <2>1. Silent(Lost(b.runtime # Undefined, a.runtime # Undefined, "(runtime)", "runtime"))
    BY <1>1 DEF DiffRuntime, Silent
  <2> QED BY <2>1, <1>2 DEF Silent, Lost, Report
<1>4. a.runtime = RuntimeOf(h, 3) /\ a.runtime # Undefined
  BY <1>2, <1>3, UndefinedIsNoValue
<1> QED BY <1>1, <1>2, <1>3, <1>4 DEF DiffRuntime

GuardsKept(g, h) ==
  \A id \in Ids : \A surface \in Expose(h, id), phase \in Phases :
    GuardsOf(g, id, surface, phase) \subseteq GuardsOf(h, id, surface, phase)

LEMMA SilentDiffKeepsGuards ==
  ASSUME NEW g \in Governances, NEW h \in Governances, DistinctNames, g.observed,
         ~Widens(Snapshot(g, 3), Snapshot(h, 3))
  PROVE  GuardsKept(g, h)
<1> SUFFICES ASSUME NEW id \in Ids, NEW surface \in Expose(h, id), NEW phase \in Phases,
                    NEW i \in DOMAIN g.policies,
                    PolicyApplies(g.policies[i], phase, id, g.procedures[id], surface)
             PROVE  \E j \in DOMAIN h.policies :
                      /\ h.policies[j].name = g.policies[i].name
                      /\ PolicyApplies(h.policies[j], phase, id, h.procedures[id], surface)
  BY DEF GuardsKept, GuardsOf, Range
<1> DEFINE R == RuntimeOf(g, 3)
           Q == RuntimeOf(h, 3)
           common == Capabilities(g) \cap Capabilities(h)
           p == g.policies[i]
<1>1. Silent(DiffPolicies(R, Q, common))
  BY SilentRuntime
<1>2. id \in common /\ surface \in g.procedures[id].expose /\ surface \in h.procedures[id].expose
  <2>1. id \in Capabilities(h) /\ surface \in h.procedures[id].expose
    BY DEF Expose
  <2>2. id \in Capabilities(g) /\ MetaAsClosed(g.procedures[id], h.procedures[id])
    BY <2>1, SilentCapabilities
  <2> QED BY <2>1, <2>2 DEF MetaAsClosed
<1>3. PICK j \in DOMAIN h.policies : h.policies[j].name = p.name
  <2>1. Silent(RuntimeReport(PolicyNames(R) \ PolicyNames(Q) # {}, "widening",
                             "runtime.policies"))
    BY <1>1 DEF DiffPolicies, Silent
  <2>2. PolicyNames(R) \subseteq PolicyNames(Q)
    BY <2>1, SilentReport DEF RuntimeReport
  <2>3. p.name \in PolicyNames(Q)
    BY <2>2, RuntimeNames
  <2> QED BY <2>3 DEF PolicyNames, NamesOf, Range, RuntimeOf, RuntimeEntry
<1> DEFINE q == h.policies[j]
           b == RuntimeEntry(g, p, 3)
           a == RuntimeEntry(h, q, 3)
<1>4. Silent(DiffPolicy(b, a, common))
  <2>1. /\ p.name \in PolicyNames(R) \cap PolicyNames(Q)
        /\ Named(R, p.name) = b /\ Named(Q, p.name) = a
    BY <1>3, RuntimeNames
  <2> HIDE DEF R, Q, common, p, b, a
  <2>2. DiffPolicy(Named(R, p.name), Named(Q, p.name), common)
          \subseteq DiffPolicies(R, Q, common)
    BY <2>1, Zenon DEF DiffPolicies
  <2> QED BY <1>1, <2>1, <2>2 DEF Silent
<1>5. /\ b.phases = p.phases /\ b.scope = p.scope
      /\ b.candidates = {c \in Capabilities(g) : IsCandidate(p.scope, c, g.procedures[c])}
      /\ a.phases = q.phases /\ a.scope = q.scope
      /\ a.candidates = {c \in Capabilities(h) : IsCandidate(q.scope, c, h.procedures[c])}
  BY DEF RuntimeEntry
<1>6. b.candidates # Undefined /\ a.candidates # Undefined
  BY <1>5, UndefinedIsNoValue DEF Capabilities
<1> HIDE DEF b, a, p, q
<1>7. /\ p.phases \subseteq q.phases
      /\ ScopedSurfaces(p.scope) \subseteq ScopedSurfaces(q.scope)
      /\ common \cap b.candidates \subseteq a.candidates
  BY <1>4, <1>5, <1>6, SilentPolicy
<1>8. /\ phase \in p.phases /\ surface \in ScopedSurfaces(p.scope)
      /\ CapabilityMatches(p.scope, id, g.procedures[id])
  BY DEF PolicyApplies, p
<1>9. IsCandidate(p.scope, id, g.procedures[id])
  BY <1>2, <1>8 DEF IsCandidate, ScopedSurfaces
<1>10. id \in a.candidates
  BY <1>2, <1>5, <1>7, <1>9
<1>11. CapabilityMatches(q.scope, id, h.procedures[id])
  BY <1>5, <1>10 DEF IsCandidate
<1>12. PolicyApplies(q, phase, id, h.procedures[id], surface)
  BY <1>7, <1>8, <1>11 DEF PolicyApplies
<1> QED BY <1>3, <1>12 DEF p, q

LEMMA GuardsKeptIsTransitive ==
  ASSUME NEW g, NEW h, NEW i, AsClosed(h, i), GuardsKept(g, h), GuardsKept(h, i)
  PROVE  GuardsKept(g, i)
<1> SUFFICES ASSUME NEW id \in Ids, NEW surface \in Expose(i, id), NEW phase \in Phases
             PROVE  GuardsOf(g, id, surface, phase) \subseteq GuardsOf(i, id, surface, phase)
  BY DEF GuardsKept
<1>1. surface \in Expose(h, id)
  BY DEF AsClosed
<1> QED BY <1>1 DEF GuardsKept

-----------------------------------------------------------------------------
(***************************************************************************)
(* The invariant: what was looked at, what is recorded and what is used    *)
(* follow one another.                                                     *)
(***************************************************************************)
Chain(was, is) ==
  /\ AsClosed(was.governance, is.governance)
  /\ DistinctNames /\ was.version = 3 /\ was.governance.observed =>
       /\ is.version = 3 /\ is.governance.observed
       /\ GuardsKept(was.governance, is.governance)

IInv == TypeOK /\ Chain(looked, base) /\ Chain(base, FileOf(app))

Files == [governance : Governances, version : Versions \cup {3}]

LEMMA ChainIsReflexive ==
  ASSUME NEW g \in Governances, NEW version, NEW other,
         other.governance = g, other.version \in {version, 3}
  PROVE  Chain([governance |-> g, version |-> version], other)
<1>1. GuardsKept(g, g)
  BY DEF GuardsKept
<1> QED BY <1>1, AsClosedIsReflexive DEF Chain

LEMMA ChainIsTransitive ==
  ASSUME NEW f \in Files, NEW g \in Files, NEW h \in Files, Chain(f, g), Chain(g, h)
  PROVE  Chain(f, h)
<1>1. AsClosed(f.governance, h.governance)
  BY AsClosedIsTransitive DEF Chain, Files
<1>2. ASSUME DistinctNames, f.version = 3, f.governance.observed
      PROVE  /\ h.version = 3 /\ h.governance.observed
             /\ GuardsKept(f.governance, h.governance)
  <2>1. /\ g.version = 3 /\ g.governance.observed
        /\ GuardsKept(f.governance, g.governance)
    BY <1>2 DEF Chain
  <2>2. /\ h.version = 3 /\ h.governance.observed
        /\ GuardsKept(g.governance, h.governance) /\ AsClosed(g.governance, h.governance)
    BY <1>2, <2>1 DEF Chain
  <2> QED BY <2>1, <2>2, GuardsKeptIsTransitive
<1> QED BY <1>1, <1>2 DEF Chain

\* The gate: what check lets pass extends the chain.
LEMMA SilentDiffChains ==
  ASSUME NEW file \in Files, NEW g \in Governances,
         ~Widens(Contents(file), Snapshot(g, 3))
  PROVE  Chain(file, FileOf(g))
<1>1. AsClosed(file.governance, g)
  BY SilentDiffIsClosed DEF Contents, Files
<1>2. ASSUME DistinctNames, file.version = 3, file.governance.observed
      PROVE  g.observed /\ GuardsKept(file.governance, g)
  BY <1>2, SilentRuntime, SilentDiffKeepsGuards DEF Contents, Files
<1> QED BY <1>1, <1>2 DEF Chain, FileOf

LEMMA InvInit == Init => IInv
<1> SUFFICES ASSUME NEW g \in Governances, NEW version \in Versions,
                    app = g, base = [governance |-> g, version |-> version], looked = base
             PROVE  IInv
  BY DEF Init
<1>1. TypeOK
  BY DEF TypeOK
<1>2. Chain(looked, base) /\ Chain(base, FileOf(app))
  BY ChainIsReflexive DEF FileOf
<1> QED BY <1>1, <1>2 DEF IInv

LEMMA InvMerge ==
  ASSUME IInv, NEW g \in Governances, Merge(g)
  PROVE  IInv'
<1>1. base \in Files /\ ~Widens(Contents(base), Snapshot(g, 3))
  BY DiffConstants DEF IInv, TypeOK, Files, Merge, Passes, Widens
<1>2. Chain(base, FileOf(g))
  BY <1>1, SilentDiffChains
<1>3. /\ app' = g /\ base' = base /\ looked' = looked
  BY DEF Merge
<1>4. TypeOK'
  BY <1>3 DEF IInv, TypeOK
<1>5. Chain(looked, base)' /\ Chain(base, FileOf(app))'
  BY <1>2, <1>3 DEF IInv
<1> QED BY <1>4, <1>5 DEF IInv

LEMMA InvMergeAndRecord ==
  ASSUME IInv, NEW g \in Governances, MergeAndRecord(g)
  PROVE  IInv'
<1>1. /\ FileOf(g) \in Files /\ base \in Files /\ looked \in Files
  BY DEF FileOf, Files, IInv, TypeOK
<1>2. app' = g /\ base' = FileOf(g)
  BY DEF MergeAndRecord
<1>3. Chain(FileOf(g), FileOf(g))
  BY ChainIsReflexive DEF FileOf
<1>4. looked' \in Files /\ Chain(looked', FileOf(g))
  <2>1. CASE Widens(Contents(base), Snapshot(g, 3))
    BY <2>1, <1>1, <1>3 DEF MergeAndRecord
  <2>2. CASE ~Widens(Contents(base), Snapshot(g, 3))
    <3>1. Chain(base, FileOf(g))
      BY <2>2, <1>1, SilentDiffChains
    <3>2. Chain(looked, FileOf(g))
      BY <3>1, <1>1, ChainIsTransitive DEF IInv
    <3> QED BY <2>2, <3>2, <1>1 DEF MergeAndRecord
  <2> QED BY <2>1, <2>2
<1>5. TypeOK'
  BY <1>1, <1>2, <1>4 DEF TypeOK, Files
<1>6. Chain(looked, base)' /\ Chain(base, FileOf(app))'
  BY <1>2, <1>3, <1>4
<1> QED BY <1>5, <1>6 DEF IInv

LEMMA InvNext == IInv /\ [Next]_vars => IInv'
<1> SUFFICES ASSUME IInv, [Next]_vars
             PROVE  IInv'
  OBVIOUS
<1>1. CASE Next
  BY <1>1, InvMerge, InvMergeAndRecord DEF Next
<1>2. CASE UNCHANGED vars
  BY <1>2 DEF vars, IInv, TypeOK, Chain, FileOf
<1> QED BY <1>1, <1>2

LEMMA InvImplies ==
  ASSUME IInv
  PROVE  NothingOpens /\ (DistinctNames => GuardsStay)
<1>1. FileOf(app) \in Files /\ base \in Files /\ looked \in Files
  BY DEF FileOf, Files, IInv, TypeOK
<1>2. Chain(looked, FileOf(app))
  BY <1>1, ChainIsTransitive DEF IInv
<1> QED BY <1>2 DEF Chain, FileOf, NothingOpens, GuardsStay, GuardsKept

-----------------------------------------------------------------------------
LEMMA Invariance == Spec => []IInv
BY InvInit, InvNext, PTL DEF Spec

\* The gate keeps comparing governances with files of a version it reads.
THEOREM TypeCorrectness == Spec => []TypeOK
<1>1. IInv => TypeOK
  BY DEF IInv
<1> QED BY <1>1, Invariance, PTL

\* Past `orpc-agent check`, in either mode and from a file of any version, no
\* sequence of changes opens a capability that a human did not look at.
THEOREM NothingOpensUnseen == Spec => []NothingOpens
<1>1. IInv => NothingOpens
  BY InvImplies
<1> QED BY <1>1, Invariance, PTL

\* Where runtime policies have distinct names, the same holds of where they
\* are evaluated.
THEOREM GuardsStayUnlessSeen ==
  ASSUME DistinctNames
  PROVE  Spec => []GuardsStay
<1>1. IInv => GuardsStay
  BY InvImplies
<1> QED BY <1>1, Invariance, PTL
=============================================================================
