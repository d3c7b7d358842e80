------------------------------ MODULE CliProofs ------------------------------
(***************************************************************************)
(* What the CLI says of an application, for every application, host and    *)
(* sequence of commands and edits: OwnDiagnosis, VerdictIsEarned and       *)
(* CheckSeesWhatInitSaw.                                                   *)
(***************************************************************************)
EXTENDS CliCommands, FiniteSetTheorems, WellFoundedInduction, TLAPS

-----------------------------------------------------------------------------
(***************************************************************************)
(* The export that is read                                                 *)
(***************************************************************************)
Below == {pair \in Nat \X Nat : pair[1] < pair[2]}

LEMMA LeastNatural ==
  ASSUME NEW T \in SUBSET Nat, T # {}
  PROVE  \E x \in T : \A y \in T : x <= y
<1>1. IsWellFoundedOn(Below, Nat)
  BY NatLessThanWellFounded, Zenon DEF OpToRel, Below
<1>2. PICK x \in T : \A y \in T : <<y, x>> \notin Below
  <2> HIDE DEF Below
  <2> QED BY <1>1, WFMin
<1>3. ASSUME NEW y \in T PROVE x <= y
  <2>1. x \in Nat /\ y \in Nat
    OBVIOUS
  <2>2. <<y, x>> \in Nat \X Nat /\ <<y, x>>[1] = y /\ <<y, x>>[2] = x
    BY <2>1
  <2>3. ~(y < x)
    BY <1>2, <2>2 DEF Below
  <2> QED BY <2>1, <2>3
<1> QED BY <1>3

LEMMA SourcesAreFinite ==
  ASSUME NEW m, IsModule(m)
  PROVE  /\ Sources(m) \subseteq Nat /\ IsFiniteSet(Sources(m))
         /\ \A n \in Sources(m) : m.exports[n] \in Range(m.exports) \ {Undefined}
<1>1. m.exports \in Seq(Range(m.exports))
  BY DEF IsModule
<1>2. Len(m.exports) \in Nat /\ DOMAIN m.exports = 1..Len(m.exports)
  BY <1>1
<1>3. IsFiniteSet(1..Len(m.exports))
  BY <1>2, FS_Interval
<1>4. Sources(m) \in SUBSET (1..Len(m.exports))
  BY <1>2 DEF Sources, Names
<1>5. IsFiniteSet(Sources(m))
  BY <1>3, <1>4, FS_Subset
<1>6. ASSUME NEW n \in Sources(m)
      PROVE  m.exports[n] \in Range(m.exports) \ {Undefined}
  BY DEF Sources, Names, Range
<1> QED BY <1>2, <1>4, <1>5, <1>6

LEMMA RanksOfSources ==
  ASSUME NEW m, IsModule(m), NEW n \in Sources(m)
  PROVE  /\ RankOf(m.exports[n]) \in {0, 1, 2}
         /\ m.exports[n].kind = "governance" <=> RankOf(m.exports[n]) = 2
<1>1. m.exports[n].kind \in Kinds
  BY SourcesAreFinite DEF IsModule
<1> QED BY <1>1 DEF RankOf, Kinds

\* There is a first of those that carry most.
LEMMA RichestCarriesMost ==
  ASSUME NEW m, IsModule(m), Sources(m) # {}
  PROVE  /\ Richest(m) \in Sources(m)
         /\ \A k \in Sources(m) : RankOf(m.exports[k]) <= RankOf(m.exports[Richest(m)])
<1> DEFINE OfRank(r) == {n \in Sources(m) : RankOf(m.exports[n]) = r}
           Best(n) == \A k \in Sources(m) :
                        \/ RankOf(m.exports[k]) < RankOf(m.exports[n])
                        \/ RankOf(m.exports[k]) = RankOf(m.exports[n]) /\ n <= k
<1>1. \A k \in Sources(m) : RankOf(m.exports[k]) \in {0, 1, 2}
  BY RanksOfSources
<1>2. PICK r \in {0, 1, 2} : OfRank(r) # {} /\ \A s \in {0, 1, 2} : s > r => OfRank(s) = {}
  <2>1. OfRank(0) # {} \/ OfRank(1) # {} \/ OfRank(2) # {}
    BY <1>1
  <2> QED BY <2>1
<1>3. OfRank(r) \in SUBSET Nat
  BY SourcesAreFinite
<1>4. PICK n \in OfRank(r) : \A k \in OfRank(r) : n <= k
  BY <1>2, <1>3, LeastNatural
<1>5. Best(n)
  <2> SUFFICES ASSUME NEW k \in Sources(m)
               PROVE  \/ RankOf(m.exports[k]) < RankOf(m.exports[n])
                      \/ RankOf(m.exports[k]) = RankOf(m.exports[n]) /\ n <= k
    OBVIOUS
  <2>1. RankOf(m.exports[k]) \in {0, 1, 2} /\ RankOf(m.exports[n]) = r
    BY <1>1, <1>4
  <2>2. CASE RankOf(m.exports[k]) = r
    BY <2>1, <2>2, <1>4
  <2>3. CASE RankOf(m.exports[k]) # r
    BY <2>1, <2>3, <1>2
  <2> QED BY <2>2, <2>3
<1>6. Richest(m) \in Sources(m) /\ Best(Richest(m))
  <2>1. Richest(m) = CHOOSE x \in Sources(m) : Best(x)
    BY DEF Richest
  <2>2. n \in Sources(m)
    BY <1>4
  <2> HIDE DEF Best
  <2> QED BY <2>1, <2>2, <1>5
<1> QED BY <1>1, <1>6

\* What is read is the export that is named or, unnamed, carries as much as
\* any, when all name one registry.
LEMMA SelectedIsEarned ==
  ASSUME NEW m, IsModule(m), NEW name, Selected(m, name) # Undefined
  PROVE  LET n == Selected(m, name) IN
         /\ n \in Sources(m)
         /\ name \in {n, Undefined}
         /\ name = Undefined =>
              \A k \in Sources(m) :
                /\ m.exports[k].registry = m.exports[n].registry
                /\ m.exports[k].kind = "governance" => m.exports[n].kind = "governance"
<1>1. CASE name # Undefined
  BY <1>1 DEF Selected
<1>2. CASE name = Undefined
  <2> DEFINE of == [n \in Sources(m) |-> m.exports[n].registry]
             named == {m.exports[n].registry : n \in Sources(m)}
  <2>1. Cardinality(named) = 1 /\ Selected(m, name) = Richest(m)
    BY <1>2 DEF Selected
  <2>2. IsFiniteSet(named)
    <3>1. IsFiniteSet(Sources(m))
      BY SourcesAreFinite
    <3>2. of \in Surjection(Sources(m), named)
      BY DEF Surjection
    <3> HIDE DEF of, named
    <3> QED BY <3>1, <3>2, FS_Surjection
  <2>3. PICK r : named = {r}
    <3> HIDE DEF named
    <3> QED BY <2>1, <2>2, FS_Singleton
  <2>4. Sources(m) # {} /\ \A k \in Sources(m) : m.exports[k].registry = r
    BY <2>3
  <2>5. /\ Richest(m) \in Sources(m)
        /\ \A k \in Sources(m) : RankOf(m.exports[k]) <= RankOf(m.exports[Richest(m)])
    BY <2>4, RichestCarriesMost
  <2>6. ASSUME NEW k \in Sources(m), m.exports[k].kind = "governance"
        PROVE  m.exports[Richest(m)].kind = "governance"
    <3>1. RankOf(m.exports[k]) = 2
      BY <2>6, RanksOfSources
    <3>2. RankOf(m.exports[Richest(m)]) \in {0, 1, 2}
      BY <2>5, RanksOfSources
    <3>3. RankOf(m.exports[Richest(m)]) = 2
      BY <3>1, <3>2, <2>5
    <3> QED BY <3>3, <2>5, RanksOfSources
  <2> QED BY <1>2, <2>1, <2>4, <2>5, <2>6
<1> QED BY <1>1, <1>2
-----------------------------------------------------------------------------
(***************************************************************************)
(* No drift                                                                *)
(***************************************************************************)
LEMMA NothingToReport ==
  ASSUME NEW kind, NEW id, NEW field
  PROVE  Gate!Report(FALSE, kind, id, field) = {}
BY DEF Gate!Report

LEMMA NothingLost ==
  ASSUME NEW was \in BOOLEAN, NEW id, NEW field
  PROVE  Gate!Lost(was, was, id, field) = {} /\ Gate!Gained(was, was, id, field) = {}
BY DEF Gate!Lost, Gate!Gained, Gate!Report

LEMMA MetaIsUnchanged ==
  ASSUME NEW m, Gate!IsMeta(m), NEW id
  PROVE  Gate!DiffEntry(Gate!Entry(m), Gate!Entry(m), id) = {}
<1> DEFINE e == Gate!Entry(m)
<1>1. /\ e.risk \in Nat /\ Gate!MaxAttempts(e) \in Nat
      /\ e.idempotent \in BOOLEAN /\ Gate!Requires(e) \in BOOLEAN
  <2>1. /\ e.risk = m.risk /\ e.retry = m.retry /\ e.approval = m.approval
        /\ e.idempotent = m.idempotent
    BY DEF Gate!IsMeta, Gate!Entry
  <2> HIDE DEF e
  <2>2. e.risk \in Nat /\ e.idempotent \in BOOLEAN
    BY <2>1 DEF Gate!IsMeta, Gate!Risks
  <2>3. Gate!MaxAttempts(e) \in Nat
    BY <2>1 DEF Gate!IsMeta, Gate!MaxAttempts
  <2>4. Gate!Requires(e) \in BOOLEAN
    BY <2>1 DEF Gate!IsMeta, Gate!Requires
  <2> QED BY <2>2, <2>3, <2>4
<1> HIDE DEF e
<1>2. Gate!DiffExpose(e, e, id) = {}
  BY DEF Gate!DiffExpose, Gate!Report
<1>3. Gate!DiffControls(e, e, id) = {}
  BY <1>1, NothingLost DEF Gate!DiffControls, Gate!Report
<1>4. Gate!DiffRetry(e, e, id) = {}
  BY <1>1 DEF Gate!DiffRetry, Gate!Report
<1>5. Gate!DiffOwnPolicies(e, e, id) = {}
  BY DEF Gate!DiffOwnPolicies, Gate!Report, Gate!Reordered
<1>6. Gate!DiffRest(e, e, id) = {}
  <2>1. ASSUME NEW hook
        PROVE  /\ Gate!Lost(hook \in e.redact, hook \in e.redact, id, hook) = {}
               /\ Gate!Gained(hook \in e.redact, hook \in e.redact, id, hook) = {}
    BY DEF Gate!Lost, Gate!Gained, Gate!Report
  <2>2. Gate!Report(e.text # e.text, "neutral", id, "text") = {}
        /\ Gate!Report(e.tags # e.tags, "neutral", id, "tags") = {}
    BY DEF Gate!Report
  <2>3. UNION {Gate!Lost(hook \in e.redact, hook \in e.redact, id, hook)
                 \cup Gate!Gained(hook \in e.redact, hook \in e.redact, id, hook) :
               hook \in {"output", "approvalInput"}} = {}
    BY <2>1
  <2> QED BY <2>2, <2>3 DEF Gate!DiffRest
<1> QED BY <1>2, <1>3, <1>4, <1>5, <1>6 DEF Gate!DiffEntry, e

LEMMA PolicyIsUnchanged ==
  ASSUME NEW p, NEW common
  PROVE  Gate!DiffPolicy(p, p, common) = {}
<1>1. Gate!DiffSurfaces(p, p) = {}
  BY DEF Gate!DiffSurfaces, Gate!RuntimeReport, Gate!Report
<1>2. Gate!DiffCandidates(p, p, common) = {}
  BY DEF Gate!DiffCandidates, Gate!RuntimeReport, Gate!Report
<1>3. Gate!DiffSelector(p, p, common) = {}
  BY DEF Gate!DiffSelector, Gate!RuntimeReport, Gate!Report
<1>4. Gate!DiffScope(p, p, common) = {}
  BY <1>1, <1>2, <1>3, NothingLost DEF Gate!DiffScope, Gate!RuntimeReport, Gate!Report
<1> QED BY <1>4 DEF Gate!DiffPolicy, Gate!RuntimeReport, Gate!Report

\* A snapshot does not differ from itself.
LEMMA NoDrift ==
  ASSUME NEW v, Gate!IsGovernance(GovernanceOf(v))
  PROVE  Gate!Diff(SnapshotOf(v), SnapshotOf(v)) = {}
<1> DEFINE g == GovernanceOf(v)
           s == SnapshotOf(v)
<1>1. Gate!DiffCapabilities(s, s) = {}
  <2>1. ASSUME NEW id \in DOMAIN s.entries
        PROVE  Gate!DiffEntry(s.entries[id], s.entries[id], id) = {}
    <3>1. id \in Gate!Capabilities(g) /\ s.entries[id] = Gate!Entry(g.procedures[id])
      BY <2>1 DEF SnapshotOf, Gate!Snapshot
    <3>2. Gate!IsMeta(g.procedures[id])
      <4> HIDE DEF g
      <4> QED BY <3>1 DEF Gate!IsGovernance, Gate!Capabilities, g
    <3> HIDE DEF g, s
    <3> QED BY <3>1, <3>2, MetaIsUnchanged
  <2> HIDE DEF g, s
  <2>2. Gate!DiffKept(s.entries, s.entries) = {}
    BY <2>1 DEF Gate!DiffKept
  <2>3. Gate!DiffAdded([id \in DOMAIN s.entries \ DOMAIN s.entries |-> s.entries[id]]) = {}
    BY DEF Gate!DiffAdded
  <2>4. [kind : {"narrowing"}, id : DOMAIN s.entries \ DOMAIN s.entries,
         field : {"capability"}] = {}
    OBVIOUS
  <2> QED BY <2>2, <2>3, <2>4 DEF Gate!DiffCapabilities
<1> HIDE DEF s
<1>2. Gate!DiffExcluded(s, s) = {}
  BY DEF Gate!DiffExcluded
<1>3. Gate!DiffRuntime(s, s) = {}
  <2>1. ASSUME NEW common
        PROVE  Gate!DiffPolicies(s.runtime, s.runtime, common) = {}
    BY PolicyIsUnchanged DEF Gate!DiffPolicies, Gate!Reordered, Gate!RuntimeReport, Gate!Report
  <2> QED BY <2>1, NothingLost DEF Gate!DiffRuntime, Gate!RuntimeReport, Gate!Report
<1> QED BY <1>1, <1>2, <1>3 DEF Gate!Diff, s

-----------------------------------------------------------------------------
(***************************************************************************)
(* The invariant                                                           *)
(***************************************************************************)
TypeInv ==
  /\ DOMAIN app = Entries /\ \A e \in Entries : app[e] \in Modules[e]
  /\ IsConfig(config) /\ DOMAIN file = Paths
  /\ DOMAIN load = DOMAIN NoLoad /\ DOMAIN child = DOMAIN NoChild
  /\ DOMAIN command = DOMAIN NoCommand /\ command.line \in CommandLines \cup {NoLine}

\* Nothing is loaded but for a command, and nothing edited meanwhile.
Course ==
  /\ command.step \in {"exited", "started", "loading", "review", "baseline"}
  /\ command.step \in {"exited", "started"} => load = NoLoad /\ child = NoChild
  /\ command.step \in {"review", "baseline"} =>
       command.line.name = "init" /\ load.phase = "done" /\ load.answer.ok
  /\ child.phase # "none" => load.phase = "waiting"

\* A second child is started only when the first has failed.
Tried ==
  load.phase = "waiting" =>
    \/ load.outcomes = <<>>
    \/ load.outcomes = <<load.outcomes[1]>> /\ ~load.outcomes[1].ok

\* What the command that runs wants to have read.
Requested ==
  command.step \in {"loading", "review", "baseline"} =>
    /\ load.request.entry \in Entries
    /\ IF command.line.name = "init"
         THEN load.request.export = Undefined
         ELSE /\ load.request.entry = Entry
              /\ load.request.export = Else(command.line.export, config.export)

\* The snapshot is that of the export which would be read now.
Current(entry, name, snapshot) ==
  LET m == app[entry]  n == Selected(m, name) IN
  m # Undefined /\ n # Undefined /\ snapshot = SnapshotOf(m.exports[n])

ReportsAreCurrent ==
  child.phase = "exited" /\ child.file # Undefined /\ child.file.ok =>
    Current(load.request.entry, load.request.export, child.file.snapshot)

AnswersAreCurrent ==
  load.phase = "done" /\ load.answer.ok =>
    Current(load.request.entry, load.request.export, load.answer.snapshot)

\* What the wizard has shown is what it would show again, and is in the file
\* that it has written.
ShownIsCurrent ==
  shown # Undefined =>
    /\ Current(config.entry, Undefined, shown.snapshot)
    /\ shown.path # Undefined => file[shown.path] = shown.snapshot

Confirmed ==
  command.step = "baseline" =>
    /\ config.entry = load.request.entry
    /\ shown = [snapshot |-> load.answer.snapshot, path |-> Undefined]

\* CheckSeesWhatInitSaw, of a check that is over.
NoFalseAlarm ==
  /\ command.line.name = "check" /\ Plain(command.line)
  /\ shown # Undefined /\ config.export = Undefined
  /\ command.step = "exited" /\ shown.path = SnapshotPath
  => command.code # 1

IInv ==
  /\ TypeInv /\ Course /\ Tried /\ Requested
  /\ ReportsAreCurrent /\ AnswersAreCurrent /\ ShownIsCurrent /\ Confirmed
  /\ OwnDiagnosis /\ VerdictIsEarned /\ NoFalseAlarm

LEMMA InvInit == Init => IInv
<1> SUFFICES ASSUME Init PROVE IInv
  OBVIOUS
<1> USE DEF Init, LoaderInit
<1>1. TypeInv
  BY CliConstants DEF TypeInv, NoCommand
<1>2. Course /\ Tried /\ Requested /\ Confirmed
  BY DEF Course, Tried, Requested, Confirmed, NoCommand, NoLoad, NoChild
<1>3. ReportsAreCurrent /\ AnswersAreCurrent /\ ShownIsCurrent
  BY DEF ReportsAreCurrent, AnswersAreCurrent, ShownIsCurrent, NoLoad, NoChild
<1>4. OwnDiagnosis
  BY DEF OwnDiagnosis, NoLoad
<1>5. VerdictIsEarned /\ NoFalseAlarm
  BY DEF VerdictIsEarned, NoFalseAlarm, Ended, NoCommand, NoLine
<1> QED BY <1>1, <1>2, <1>3, <1>4, <1>5 DEF IInv

-----------------------------------------------------------------------------
(***************************************************************************)
(* Steps of a load                                                         *)
(***************************************************************************)
LEMMA LoadIsForCommand ==
  ASSUME IInv, child.phase # "none" \/ load.phase = "waiting"
  PROVE  load.phase = "waiting" /\ command.step = "loading"
BY DEF IInv, Course, NoLoad, NoChild

\* What a step of the loader must see to.
LEMMA LoaderStep ==
  ASSUME IInv, load.phase = "waiting",
         UNCHANGED <<host, app, config, file, command, shown>>,
         DOMAIN load' = DOMAIN load, DOMAIN child' = DOMAIN child,
         load'.request = load.request,
         child'.phase # "none" => load'.phase = "waiting",
         Tried', ReportsAreCurrent', AnswersAreCurrent', OwnDiagnosis'
  PROVE  IInv'
<1>1. command.step = "loading"
  BY LoadIsForCommand
<1>2. TypeInv'
  BY DEF IInv, TypeInv
<1>3. Course'
  BY <1>1 DEF Course
<1>4. Requested'
  BY <1>1 DEF IInv, Requested, Entry
<1>5. ShownIsCurrent'
  BY DEF IInv, ShownIsCurrent, Current
<1>6. Confirmed' /\ VerdictIsEarned' /\ NoFalseAlarm'
  BY <1>1 DEF Confirmed, VerdictIsEarned, NoFalseAlarm, Ended
<1> QED BY <1>2, <1>3, <1>4, <1>5, <1>6 DEF IInv

LEMMA ExitsStep ==
  ASSUME IInv, child.phase = "importing", NEW code, NEW report, Exits(code, report),
         UNCHANGED <<host, app, load, config, file, command, shown>>,
         report # Undefined /\ report.ok =>
           Current(load.request.entry, load.request.export, report.snapshot)
  PROVE  IInv'
<1>1. load.phase = "waiting"
  BY LoadIsForCommand
<1>2. DOMAIN child' = DOMAIN child /\ child'.file = report
  BY DEF IInv, TypeInv, NoChild, Exits
<1>3. Tried' /\ OwnDiagnosis'
  BY DEF IInv, Tried, OwnDiagnosis
<1>4. ReportsAreCurrent'
  BY <1>2 DEF ReportsAreCurrent, Current
<1>5. AnswersAreCurrent'
  BY <1>1 DEF AnswersAreCurrent
<1> QED BY <1>1, <1>2, <1>3, <1>4, <1>5, LoaderStep

LEMMA AnswerStep ==
  ASSUME IInv, NEW outcome, Answer(outcome), UNCHANGED <<config, file, command, shown>>,
         outcome.ok => Current(load.request.entry, load.request.export, outcome.snapshot)
  PROVE  IInv'
<1>1. load.phase = "waiting" /\ UNCHANGED <<host, app>> /\ child' = NoChild
  BY DEF Answer
<1>2. /\ DOMAIN load' = DOMAIN load /\ load'.request = load.request /\ load'.phase = "done"
      /\ load'.answer = Verdict(outcome) /\ load'.outcomes = Append(load.outcomes, outcome)
  BY DEF IInv, TypeInv, NoLoad, Answer, Answered
<1>3. DOMAIN child' = DOMAIN child /\ child'.phase = "none"
  BY <1>1 DEF IInv, TypeInv, NoChild
<1>4. Tried' /\ ReportsAreCurrent'
  BY <1>2, <1>3 DEF Tried, ReportsAreCurrent
<1>5. CASE load.outcomes = <<>>
  <2>1. load'.answer = outcome /\ load'.outcomes = <<outcome>>
    BY <1>2, <1>5 DEF Verdict
  <2>2. AnswersAreCurrent'
    BY <1>1, <1>2, <2>1 DEF AnswersAreCurrent, Current
  <2>3. OwnDiagnosis'
    BY <2>1 DEF OwnDiagnosis
  <2> QED BY <1>1, <1>2, <1>3, <1>4, <2>2, <2>3, LoaderStep
<1>6. CASE load.outcomes # <<>>
  <2> DEFINE first == load.outcomes[1]
  <2>1. load.outcomes = <<first>> /\ ~first.ok
    BY <1>1, <1>6 DEF IInv, Tried
  <2>2. \A i \in DOMAIN load'.outcomes : load'.outcomes[i] \in {first, outcome}
    <3> HIDE DEF first
    <3>1. <<first>> \in Seq({first, outcome}) /\ Len(<<first>>) = 1 /\ <<first>>[1] = first
      OBVIOUS
    <3>2. load'.outcomes = Append(<<first>>, outcome)
      BY <1>2, <2>1
    <3> QED BY <3>1, <3>2
  <2>3. Head(load.outcomes) = first
    <3> HIDE DEF first
    <3> QED BY <2>1
  <2> HIDE DEF first
  <2>4. load'.answer = IF ~outcome.ok /\ ~outcome.diagnosed THEN first ELSE outcome
    BY <1>2, <1>6, <2>3 DEF Verdict
  <2>5. AnswersAreCurrent'
    BY <1>1, <1>2, <2>1, <2>4 DEF AnswersAreCurrent, Current
  <2>6. OwnDiagnosis'
    <3> SUFFICES ASSUME ~load'.answer.ok, NEW i \in DOMAIN load'.outcomes,
                        load'.outcomes[i].diagnosed
                 PROVE  load'.answer.diagnosed
      BY DEF OwnDiagnosis
    <3> QED BY <2>2, <2>4
  <2> QED BY <1>1, <1>2, <1>3, <1>4, <2>5, <2>6, LoaderStep
<1> QED BY <1>5, <1>6

LEMMA LoadingStep ==
  ASSUME IInv, Loading, UNCHANGED <<config, file, command, shown>>
  PROVE  IInv'
<1>1. CASE ImportEnds
  <2> DEFINE result == Result(Target, load.request.export)
  <2>1. /\ child.phase = "importing" /\ Target # Undefined
        /\ Exits(result.code, result.file) /\ UNCHANGED <<host, app, load>>
    BY <1>1 DEF ImportEnds, Importable
  <2>2. result.file.ok => Current(load.request.entry, load.request.export, result.file.snapshot)
    BY <2>1 DEF Result, Told, Target, Current
  <2> HIDE DEF result
  <2> QED BY <2>1, <2>2, ExitsStep
<1>2. CASE ImportFails
  <2>1. ~Told("import").ok
    BY DEF Told
  <2> QED BY <1>2, <2>1, ExitsStep DEF ImportFails
<1>3. ASSUME NEW code \in {-1, 0, 10}, ChildDies(code) PROVE IInv'
  BY <1>3, ExitsStep DEF ChildDies
<1>4. CASE ChildCloses
  <2> DEFINE outcome == OutcomeOf(child.code, child.file)
  <2>1. outcome.ok => Current(load.request.entry, load.request.export, outcome.snapshot)
    BY <1>4 DEF ChildCloses, OutcomeOf, Failure, IInv, ReportsAreCurrent
  <2>2. CASE Answer(outcome)
    <3> HIDE DEF outcome
    <3> QED BY <2>1, <2>2, AnswerStep
  <2>3. CASE /\ Retries(outcome)
             /\ load' = [load EXCEPT !.outcomes = <<outcome>>]
             /\ child' = Spawned(FindLoader)
             /\ UNCHANGED <<host, app>>
    <3>1. load.phase = "waiting"
      BY <1>4, LoadIsForCommand DEF ChildCloses
    <3> HIDE DEF outcome
    <3>2. /\ DOMAIN load' = DOMAIN load /\ load'.request = load.request
          /\ load'.phase = "waiting" /\ load'.outcomes = <<outcome>>
      BY <2>3, <3>1 DEF IInv, TypeInv, NoLoad
    <3>3. DOMAIN child' = DOMAIN child /\ child'.phase = "importing"
      BY <2>3 DEF IInv, TypeInv, NoChild, Spawned
    <3>4. Tried'
      BY <2>3, <3>2 DEF Tried, Retries
    <3>5. ReportsAreCurrent' /\ AnswersAreCurrent' /\ OwnDiagnosis'
      BY <3>2, <3>3 DEF ReportsAreCurrent, AnswersAreCurrent, OwnDiagnosis
    <3> QED BY <2>3, <3>1, <3>2, <3>3, <3>4, <3>5, LoaderStep
  <2> QED BY <1>4, <2>2, <2>3 DEF ChildCloses
<1>5. CASE SpawnFails
  <2>1. ~Failure(-1, FALSE, "no process").ok
    BY DEF Failure
  <2> QED BY <1>5, <2>1, AnswerStep DEF SpawnFails
<1>6. CASE TimesOut
  <2>1. ~Failure(-1, TRUE, "time-out").ok
    BY DEF Failure
  <2> QED BY <1>6, <2>1, AnswerStep DEF TimesOut
<1> QED BY <1>1, <1>2, <1>3, <1>4, <1>5, <1>6 DEF Loading

-----------------------------------------------------------------------------
(***************************************************************************)
(* Steps of a command                                                      *)
(***************************************************************************)
LEMMA LinesAreTyped ==
  ASSUME IInv
  PROVE  /\ command.line.entry \in Entries \cup {Undefined}
         /\ command.line.snapshot \in Paths \cup {Undefined}
BY CliConstants DEF IInv, TypeInv, IsCommandLine, NoLine

LEMMA EntryIsEntry ==
  ASSUME IInv, Entry # Undefined
  PROVE  Entry \in Entries
BY LinesAreTyped DEF IInv, TypeInv, IsConfig, Entry, Else

LEMMA SnapshotPathIsPath ==
  ASSUME IInv
  PROVE  SnapshotPath \in Paths /\ SnapshotPath # Undefined
BY CliConstants, LinesAreTyped DEF IInv, TypeInv, IsConfig, SnapshotPath, Else

\* Files differ between the commands that end, nothing else.
LEMMA ExitStep ==
  ASSUME IInv, NEW code, Exit(code), UNCHANGED <<host, app, config>>,
         DOMAIN file' = DOMAIN file,
         ShownIsCurrent', VerdictIsEarned', NoFalseAlarm'
  PROVE  IInv'
<1>1. /\ DOMAIN command' = DOMAIN command /\ command'.line = command.line
      /\ command'.step = "exited" /\ load' = NoLoad /\ child' = NoChild
  BY DEF IInv, TypeInv, NoCommand, Exit
<1>2. TypeInv'
  BY <1>1 DEF IInv, TypeInv
<1>3. Course' /\ Tried' /\ Requested' /\ Confirmed'
  BY <1>1 DEF Course, Tried, Requested, Confirmed, NoLoad, NoChild
<1>4. ReportsAreCurrent' /\ AnswersAreCurrent' /\ OwnDiagnosis'
  BY <1>1 DEF ReportsAreCurrent, AnswersAreCurrent, OwnDiagnosis, NoLoad, NoChild
<1> QED BY <1>2, <1>3, <1>4 DEF IInv

\* A command that ends without a verdict, and writes nothing.
LEMMA QuietExit ==
  ASSUME IInv, NEW code, Exit(code), UNCHANGED <<disk, shown>>,
         command.line.name = "check" => code = 2
  PROVE  IInv'
<1>1. command'.line = command.line /\ command'.code = code
  BY DEF IInv, TypeInv, NoCommand, Exit
<1>2. ShownIsCurrent'
  BY DEF IInv, ShownIsCurrent, Current, disk
<1>3. VerdictIsEarned' /\ NoFalseAlarm'
  BY <1>1 DEF VerdictIsEarned, NoFalseAlarm, Ended
<1> QED BY <1>2, <1>3, ExitStep DEF disk

LEMMA BeginStep ==
  ASSUME IInv, command.step = "started",
         NEW entry \in Entries, NEW export, NEW preload,
         BeginLoad(Request(entry, export, preload)), AtStep("loading"),
         UNCHANGED <<disk, shown>>,
         IF command.line.name = "init"
           THEN export = Undefined
           ELSE entry = Entry /\ export = Else(command.line.export, config.export)
  PROVE  IInv'
<1> DEFINE request == Request(entry, export, preload)
<1>1. /\ DOMAIN command' = DOMAIN command /\ command'.line = command.line
      /\ command'.step = "loading"
  BY DEF IInv, TypeInv, NoCommand, AtStep
<1>2. request.entry = entry /\ request.export = export
  BY DEF Request
<1> HIDE DEF request
<1>3. /\ DOMAIN load' = DOMAIN NoLoad /\ DOMAIN child' = DOMAIN NoChild
      /\ load'.request = request /\ load'.outcomes = <<>>
      /\ child'.phase # "exited" /\ (child'.phase # "none" => load'.phase = "waiting")
      /\ load'.phase = "done" => ~load'.answer.ok
  <2> DEFINE called == [NoLoad EXCEPT !.phase = "waiting", !.request = request]
  <2>1. /\ DOMAIN called = DOMAIN NoLoad /\ called.phase = "waiting"
        /\ called.request = request /\ called.outcomes = <<>>
    BY DEF NoLoad
  <2>2. "phase" \in DOMAIN NoLoad /\ "answer" \in DOMAIN NoLoad
    BY DEF NoLoad
  <2>3. CASE load' = Answered(called, Failure(-1, TRUE, "no loader")) /\ child' = NoChild
    <3> HIDE DEF called
    <3>1. ~Failure(-1, TRUE, "no loader").ok
      BY DEF Failure
    <3>2. load' = [called EXCEPT !.phase = "done", !.answer = Failure(-1, TRUE, "no loader")]
      BY <2>3 DEF Answered
    <3> HIDE DEF Failure
    <3>3. /\ DOMAIN load' = DOMAIN NoLoad /\ load'.request = request /\ load'.outcomes = <<>>
          /\ load'.answer = Failure(-1, TRUE, "no loader")
      BY <2>1, <2>2, <3>2 DEF NoLoad
    <3> QED BY <2>3, <3>1, <3>3 DEF NoChild
  <2>4. CASE load' = called /\ child' = Spawned(Preload(request))
    <3> HIDE DEF called
    <3> QED BY <2>1, <2>4 DEF Spawned, NoChild
  <2> QED BY <2>3, <2>4 DEF BeginLoad, request
<1>4. TypeInv'
  BY <1>1, <1>3 DEF IInv, TypeInv, disk, NoLoad, NoChild
<1>5. Course' /\ Tried' /\ Confirmed'
  BY <1>1, <1>3 DEF Course, Tried, Confirmed
<1>6. Requested'
  BY <1>1, <1>2, <1>3 DEF Requested, Entry, disk
<1>7. ReportsAreCurrent' /\ AnswersAreCurrent' /\ OwnDiagnosis'
  BY <1>3 DEF ReportsAreCurrent, AnswersAreCurrent, OwnDiagnosis
<1>8. ShownIsCurrent'
  BY DEF IInv, ShownIsCurrent, Current, disk
<1>9. VerdictIsEarned' /\ NoFalseAlarm'
  BY <1>1 DEF VerdictIsEarned, NoFalseAlarm, Ended
<1> QED BY <1>4, <1>5, <1>6, <1>7, <1>8, <1>9 DEF IInv

\* Of what is loaded for inspect, snapshot or check.
LEMMA LoadedIsCurrent ==
  ASSUME IInv, NEW name \in {"inspect", "snapshot", "check"}, Loaded(name)
  PROVE  /\ Entry \in Entries
         /\ Current(Entry, Else(command.line.export, config.export), load.answer.snapshot)
BY DEF Loaded, IInv, Requested, AnswersAreCurrent

\* A check that loads what the wizard has shown finds that.
LEMMA PlainCheckSeesShown ==
  ASSUME IInv, command.line.name = "check", Plain(command.line),
         shown # Undefined, config.export = Undefined,
         load.phase = "done", load.answer.ok
  PROVE  load.answer.snapshot = shown.snapshot
<1>1. command.step = "loading"
  BY DEF IInv, Course, NoLoad
<1>2. command.line.entry = Undefined /\ command.line.export = Undefined
  BY DEF Plain
<1>3. load.request.entry = config.entry /\ load.request.export = Undefined
  BY <1>1, <1>2 DEF IInv, Requested, Entry, Else
<1>4. /\ Current(config.entry, Undefined, load.answer.snapshot)
      /\ Current(config.entry, Undefined, shown.snapshot)
  BY <1>3 DEF IInv, AnswersAreCurrent, ShownIsCurrent
<1> QED BY <1>4 DEF Current

LEMMA CurrentIsSource ==
  ASSUME IInv, NEW entry \in Entries, NEW name, NEW snapshot, Current(entry, name, snapshot)
  PROVE  LET m == app[entry]  n == Selected(m, name) IN
         /\ m # Undefined /\ IsModule(m) /\ n # Undefined
         /\ n \in Sources(m) /\ Gate!IsGovernance(GovernanceOf(m.exports[n]))
         /\ snapshot = SnapshotOf(m.exports[n])
<1> DEFINE m == app[entry]
           n == Selected(m, name)
<1>1. m # Undefined /\ n # Undefined /\ snapshot = SnapshotOf(m.exports[n])
  BY DEF Current
<1>2. IsModule(m)
  BY <1>1, CliConstants DEF IInv, TypeInv
<1> HIDE DEF m
<1>3. n \in Sources(m)
  BY <1>1, <1>2, SelectedIsEarned
<1>4. Gate!IsGovernance(GovernanceOf(m.exports[n]))
  BY <1>2, <1>3, SourcesAreFinite DEF IsModule
<1> QED BY <1>1, <1>2, <1>3, <1>4 DEF m

LEMMA CheckStep ==
  ASSUME IInv, Check
  PROVE  IInv'
<1> DEFINE m == app[Entry]
           named == Else(command.line.export, config.export)
           n == Selected(m, named)
           failing == Failing(Gate!Diff(file[SnapshotPath], load.answer.snapshot),
                              command.line.failOn)
           code == IF failing = {} THEN 0 ELSE 1
<1>1. /\ Loaded("check") /\ Exit(code) /\ UNCHANGED <<disk, shown>>
      /\ file[SnapshotPath] \notin {Undefined, Unreadable}
  BY DEF Check
<1>2. /\ m # Undefined /\ IsModule(m) /\ n # Undefined
      /\ Gate!IsGovernance(GovernanceOf(m.exports[n]))
      /\ load.answer.snapshot = SnapshotOf(m.exports[n])
  BY <1>1, LoadedIsCurrent, CurrentIsSource
<1>3. command'.line = command.line /\ command'.code = code /\ command'.step = "exited"
  BY <1>1 DEF IInv, TypeInv, NoCommand, Exit
<1>4. ShownIsCurrent'
  BY <1>1 DEF IInv, ShownIsCurrent, Current, disk
<1>5. VerdictIsEarned'
  <2> HIDE DEF m, n, named, code, failing
  <2>1. LET k == n IN
        /\ k \in Sources(m) /\ named \in {k, Undefined}
        /\ named = Undefined =>
             \A j \in Sources(m) :
               /\ m.exports[j].registry = m.exports[k].registry
               /\ m.exports[j].kind = "governance" => m.exports[k].kind = "governance"
    BY <1>2, SelectedIsEarned DEF n
  <2>2. /\ failing = Failing(Gate!Diff(file[SnapshotPath], SnapshotOf(m.exports[n])),
                             command.line.failOn)
        /\ code = 0 <=> failing = {}
    BY <1>2 DEF failing, code
  <2>3. Entry' = Entry /\ SnapshotPath' = SnapshotPath /\ UNCHANGED <<app, config, file>>
    BY <1>1, <1>3 DEF Entry, SnapshotPath, disk
  <2>4. m' = m /\ named' = named
    BY <1>3, <2>3 DEF m, named
  <2> QED BY <1>1, <1>2, <1>3, <2>1, <2>2, <2>3, <2>4 DEF VerdictIsEarned, m, named
<1>6. NoFalseAlarm'
  <2> SUFFICES ASSUME command.line.name = "check", Plain(command.line),
                      shown # Undefined, config.export = Undefined,
                      shown.path = SnapshotPath
               PROVE  code = 0
    BY <1>1, <1>3 DEF NoFalseAlarm, SnapshotPath, disk
  <2>1. load.answer.snapshot = shown.snapshot
    BY <1>1, PlainCheckSeesShown DEF Loaded
  <2>2. file[SnapshotPath] = shown.snapshot
    BY SnapshotPathIsPath DEF IInv, ShownIsCurrent
  <2>3. Gate!Diff(file[SnapshotPath], load.answer.snapshot) = {}
    <3> HIDE DEF m, n
    <3> QED BY <1>2, <2>1, <2>2, NoDrift
  <2> QED BY <2>3 DEF Failing
<1> QED BY <1>1, <1>4, <1>5, <1>6, ExitStep DEF disk

LEMMA WriteSnapshotStep ==
  ASSUME IInv, WriteSnapshot
  PROVE  IInv'
<1>1. /\ Loaded("snapshot") /\ Exit(0) /\ UNCHANGED <<host, app, config>>
      /\ DOMAIN file' = DOMAIN file /\ shown' = Undefined
  BY DEF WriteSnapshot
<1>2. command'.line.name = "snapshot"
  BY <1>1 DEF IInv, TypeInv, NoCommand, Exit, Loaded
<1>3. ShownIsCurrent' /\ VerdictIsEarned' /\ NoFalseAlarm'
  BY <1>1, <1>2 DEF ShownIsCurrent, VerdictIsEarned, NoFalseAlarm, Ended
<1> QED BY <1>1, <1>3, ExitStep

LEMMA CommandStepKeeps ==
  ASSUME IInv, CommandStep
  PROVE  IInv'
<1>1. CASE Refuse
  BY <1>1, QuietExit DEF Refuse
<1>2. CASE RefuseInit
  BY <1>2, QuietExit DEF RefuseInit
<1>3. CASE LoadApplication
  <2>1. Entry \in Entries
    BY <1>3, EntryIsEntry DEF LoadApplication
  <2> QED BY <1>3, <2>1, BeginStep DEF LoadApplication
<1>4. CASE CannotLoad
  BY <1>4, QuietExit DEF CannotLoad
<1>5. CASE Inspect
  BY <1>5, QuietExit DEF Inspect, Loaded
<1>6. CASE WriteSnapshot
  BY <1>6, WriteSnapshotStep
<1>7. CASE NoBaseline
  BY <1>7, QuietExit DEF NoBaseline
<1>8. CASE Check
  BY <1>8, CheckStep
<1>9. CASE Review
  <2>1. /\ DOMAIN command' = DOMAIN command /\ command'.line = command.line
        /\ command'.step = "review" /\ UNCHANGED <<disk, loader, shown>>
    BY <1>9 DEF IInv, TypeInv, NoCommand, Review, AtStep
  <2>2. Course'
    BY <1>9, <2>1 DEF IInv, Course, Review, Loaded, loader
  <2>3. Requested'
    BY <1>9, <2>1 DEF IInv, Requested, Review, Loaded, Entry, disk, loader
  <2>4. TypeInv' /\ Tried' /\ Confirmed' /\ OwnDiagnosis' /\ VerdictIsEarned' /\ NoFalseAlarm'
    BY <2>1 DEF IInv, TypeInv, Tried, Confirmed, OwnDiagnosis, VerdictIsEarned, NoFalseAlarm,
                Ended, disk, loader
  <2>5. ReportsAreCurrent' /\ AnswersAreCurrent' /\ ShownIsCurrent'
    BY <2>1 DEF IInv, ReportsAreCurrent, AnswersAreCurrent, ShownIsCurrent, Current, disk, loader
  <2> QED BY <2>2, <2>3, <2>4, <2>5 DEF IInv
<1> QED BY <1>1, <1>2, <1>3, <1>4, <1>5, <1>6, <1>7, <1>8, <1>9 DEF CommandStep

-----------------------------------------------------------------------------
(***************************************************************************)
(* Steps of a person                                                       *)
(***************************************************************************)
LEMMA RunStep ==
  ASSUME IInv, NEW line \in CommandLines, Run(line)
  PROVE  IInv'
<1>1. /\ DOMAIN command' = DOMAIN NoCommand /\ command'.line = line
      /\ command'.step = "started" /\ command.step = "exited"
      /\ UNCHANGED <<disk, loader, shown>>
  BY DEF Run, NoCommand
<1>2. load = NoLoad /\ child = NoChild
  BY <1>1 DEF IInv, Course
<1>3. TypeInv'
  BY <1>1 DEF IInv, TypeInv, disk, loader
<1>4. Course' /\ Tried' /\ Requested' /\ Confirmed'
  BY <1>1, <1>2 DEF Course, Tried, Requested, Confirmed, loader, NoLoad, NoChild
<1>5. ReportsAreCurrent' /\ AnswersAreCurrent' /\ OwnDiagnosis'
  BY <1>1, <1>2 DEF ReportsAreCurrent, AnswersAreCurrent, OwnDiagnosis, loader, NoLoad, NoChild
<1>6. ShownIsCurrent'
  BY <1>1 DEF IInv, ShownIsCurrent, Current, disk
<1>7. VerdictIsEarned' /\ NoFalseAlarm'
  BY <1>1 DEF VerdictIsEarned, NoFalseAlarm, Ended
<1> QED BY <1>3, <1>4, <1>5, <1>6, <1>7 DEF IInv

LEMMA ConfirmConfigStep ==
  ASSUME IInv, ConfirmConfig
  PROVE  IInv'
<1>1. /\ command.step = "review" /\ UNCHANGED <<host, app, file, load, child>>
      /\ shown' = [snapshot |-> load.answer.snapshot, path |-> Undefined]
      /\ config' = Merged(config, load.request.entry)
  BY DEF ConfirmConfig, loader
<1>2. /\ DOMAIN command' = DOMAIN command /\ command'.line = command.line
      /\ command'.step = "baseline"
  BY DEF IInv, TypeInv, NoCommand, ConfirmConfig, AtStep
<1>3. /\ command.line.name = "init" /\ load.phase = "done" /\ load.answer.ok
      /\ load.request.entry \in Entries /\ load.request.export = Undefined
  BY <1>1 DEF IInv, Course, Requested
<1>4. DOMAIN config' = DOMAIN config /\ config'.entry = load.request.entry
      /\ config'.snapshot = config.snapshot
  BY <1>1 DEF IInv, TypeInv, IsConfig, Merged
<1>5. TypeInv'
  BY <1>1, <1>2, <1>3, <1>4 DEF IInv, TypeInv, IsConfig
<1>6. Course' /\ Tried' /\ Requested' /\ Confirmed'
  BY <1>1, <1>2, <1>3, <1>4 DEF IInv, Course, Tried, Requested, Confirmed
<1>7. ReportsAreCurrent' /\ AnswersAreCurrent' /\ OwnDiagnosis'
  BY <1>1 DEF IInv, ReportsAreCurrent, AnswersAreCurrent, OwnDiagnosis, Current
<1>8. ShownIsCurrent'
  <2>1. Current(load.request.entry, Undefined, load.answer.snapshot)
    BY <1>3 DEF IInv, AnswersAreCurrent
  <2>2. shown'.snapshot = load.answer.snapshot /\ shown'.path = Undefined
    BY <1>1
  <2> QED BY <1>1, <1>4, <2>1, <2>2 DEF ShownIsCurrent, Current
<1>9. VerdictIsEarned' /\ NoFalseAlarm'
  BY <1>2 DEF VerdictIsEarned, NoFalseAlarm, Ended
<1> QED BY <1>5, <1>6, <1>7, <1>8, <1>9 DEF IInv

LEMMA ConfirmBaselineStep ==
  ASSUME IInv, ConfirmBaseline
  PROVE  IInv'
<1>1. /\ command.step = "baseline" /\ Exit(0) /\ UNCHANGED <<host, app, config>>
      /\ file' = [file EXCEPT ![SnapshotPath] = load.answer.snapshot]
      /\ shown' = [shown EXCEPT !.path = SnapshotPath]
  BY DEF ConfirmBaseline
<1>2. /\ command.line.name = "init" /\ load.phase = "done" /\ load.answer.ok
      /\ config.entry = load.request.entry /\ load.request.export = Undefined
      /\ shown = [snapshot |-> load.answer.snapshot, path |-> Undefined]
  BY <1>1 DEF IInv, Course, Requested, Confirmed
<1>3. SnapshotPath \in DOMAIN file
  BY SnapshotPathIsPath DEF IInv, TypeInv
<1>4. DOMAIN file' = DOMAIN file /\ file'[SnapshotPath] = load.answer.snapshot
  BY <1>1, <1>3
<1>5. shown'.snapshot = load.answer.snapshot /\ shown'.path = SnapshotPath
  BY <1>1, <1>2
<1>6. Current(config.entry, Undefined, load.answer.snapshot)
  BY <1>2 DEF IInv, AnswersAreCurrent
<1>7. ShownIsCurrent'
  BY <1>1, <1>4, <1>5, <1>6 DEF ShownIsCurrent, Current
<1>8. command'.line = command.line
  BY <1>1 DEF IInv, TypeInv, NoCommand, Exit
<1>9. VerdictIsEarned' /\ NoFalseAlarm'
  BY <1>2, <1>8 DEF VerdictIsEarned, NoFalseAlarm, Ended
<1> QED BY <1>1, <1>4, <1>7, <1>9, ExitStep

LEMMA EditsStep ==
  ASSUME IInv, Edits, UNCHANGED <<host, file>>,
         DOMAIN app' = Entries, \A e \in Entries : app'[e] \in Modules[e], IsConfig(config')
  PROVE  IInv'
<1>1. /\ command.step = "exited" /\ command' = NoCommand /\ shown' = Undefined
      /\ UNCHANGED <<load, child>>
  BY DEF Edits, loader
<1>2. load = NoLoad /\ child = NoChild
  BY <1>1 DEF IInv, Course
<1>3. TypeInv'
  BY <1>1 DEF IInv, TypeInv, NoCommand
<1>4. Course' /\ Tried' /\ Requested' /\ Confirmed'
  BY <1>1, <1>2 DEF Course, Tried, Requested, Confirmed, NoCommand, NoLoad, NoChild
<1>5. ReportsAreCurrent' /\ AnswersAreCurrent' /\ OwnDiagnosis' /\ ShownIsCurrent'
  BY <1>1, <1>2 DEF ReportsAreCurrent, AnswersAreCurrent, OwnDiagnosis, ShownIsCurrent,
                    NoLoad, NoChild
<1>6. VerdictIsEarned' /\ NoFalseAlarm'
  BY <1>1 DEF VerdictIsEarned, NoFalseAlarm, Ended, NoCommand, NoLine
<1> QED BY <1>3, <1>4, <1>5, <1>6 DEF IInv

LEMMA PersonStepKeeps ==
  ASSUME IInv, PersonStep
  PROVE  IInv'
<1>1. ASSUME NEW line \in CommandLines, Run(line) PROVE IInv'
  BY <1>1, RunStep
<1>2. ASSUME NEW e \in Entries, Probe(e) PROVE IInv'
  BY <1>2, BeginStep DEF Probe
<1>3. CASE ConfirmConfig
  BY <1>3, ConfirmConfigStep
<1>4. CASE ConfirmBaseline
  BY <1>4, ConfirmBaselineStep
<1>5. CASE Decline
  <2>1. command.line.name = "init" /\ Exit(0) /\ UNCHANGED <<disk, shown>>
    BY <1>5 DEF Decline, IInv, Course
  <2> QED BY <2>1, QuietExit
<1>6. ASSUME NEW e \in Entries, NEW m \in Modules[e], EditModule(e, m) PROVE IInv'
  <2>1. /\ Edits /\ app' = [app EXCEPT ![e] = m] /\ UNCHANGED <<host, config, file>>
    BY <1>6 DEF EditModule
  <2>2. DOMAIN app' = Entries /\ \A d \in Entries : app'[d] \in Modules[d]
    BY <2>1 DEF IInv, TypeInv
  <2>3. IsConfig(config')
    BY <2>1 DEF IInv, TypeInv
  <2> QED BY <2>1, <2>2, <2>3, EditsStep
<1>7. ASSUME NEW c \in Configs, EditConfig(c) PROVE IInv'
  <2>1. /\ Edits /\ config' = c /\ UNCHANGED <<host, app, file>>
    BY <1>7 DEF EditConfig
  <2>2. DOMAIN app' = Entries /\ \A d \in Entries : app'[d] \in Modules[d]
    BY <2>1 DEF IInv, TypeInv
  <2>3. IsConfig(config')
    BY <2>1, CliConstants
  <2> QED BY <2>1, <2>2, <2>3, EditsStep
<1> QED BY <1>1, <1>2, <1>3, <1>4, <1>5, <1>6, <1>7 DEF PersonStep

LEMMA InvNext == IInv /\ [Next]_vars => IInv'
<1> SUFFICES ASSUME IInv, [Next]_vars PROVE IInv'
  OBVIOUS
<1>1. CASE Loading /\ UNCHANGED <<config, file, command, shown>>
  BY <1>1, LoadingStep
<1>2. CASE CommandStep
  BY <1>2, CommandStepKeeps
<1>3. CASE PersonStep
  BY <1>3, PersonStepKeeps
<1>4. CASE UNCHANGED vars
  <2>1. TypeInv' /\ Course' /\ Tried' /\ Requested' /\ Confirmed'
    BY <1>4 DEF IInv, TypeInv, Course, Tried, Requested, Confirmed, Entry, vars
  <2>2. ReportsAreCurrent' /\ AnswersAreCurrent'
    BY <1>4 DEF IInv, ReportsAreCurrent, AnswersAreCurrent, Current, vars
  <2>3. ShownIsCurrent'
    BY <1>4 DEF IInv, ShownIsCurrent, Current, vars
  <2>4. OwnDiagnosis' /\ NoFalseAlarm'
    BY <1>4 DEF IInv, OwnDiagnosis, NoFalseAlarm, SnapshotPath, vars
  <2>5. VerdictIsEarned'
    BY <1>4, Zenon DEF IInv, VerdictIsEarned, Ended, Entry, SnapshotPath, vars
  <2> QED BY <2>1, <2>2, <2>3, <2>4, <2>5 DEF IInv
<1> QED BY <1>1, <1>2, <1>3, <1>4 DEF Next

LEMMA Invariance == Spec => []IInv
BY InvInit, InvNext, PTL DEF Spec

-----------------------------------------------------------------------------
\* Whatever becomes of the children of a load, a failure that one of them has
\* diagnosed is not replaced by the silent death of the other.
THEOREM DiagnosisIsKept == Spec => []OwnDiagnosis
<1>1. IInv => OwnDiagnosis
  BY DEF IInv
<1> QED BY <1>1, Invariance, PTL

\* Whatever an application exports and however its children end, a check that
\* ends with a verdict has compared a readable baseline with the export that
\* it was to read.
THEOREM VerdictsAreEarned == Spec => []VerdictIsEarned
<1>1. IInv => VerdictIsEarned
  BY DEF IInv
<1> QED BY <1>1, Invariance, PTL

\* Whatever is run in between, an unedited repository in which the wizard has
\* written its config shows the same to check, without drift if the wizard has
\* written the first snapshot where check looks.
THEOREM CheckAgreesWithInit == Spec => []CheckSeesWhatInitSaw
<1>1. IInv => CheckSeesWhatInitSaw
  <2> SUFFICES ASSUME IInv,
                      command.line.name = "check", Plain(command.line),
                      shown # Undefined, config.export = Undefined
               PROVE  /\ load.phase = "done" /\ load.answer.ok =>
                           load.answer.snapshot = shown.snapshot
                      /\ command.step = "exited" /\ shown.path = SnapshotPath =>
                           command.code # 1
    BY DEF CheckSeesWhatInitSaw
  <2>1. load.phase = "done" /\ load.answer.ok => load.answer.snapshot = shown.snapshot
    BY PlainCheckSeesShown
  <2>2. command.step = "exited" /\ shown.path = SnapshotPath => command.code # 1
    BY DEF IInv, NoFalseAlarm
  <2> QED BY <2>1, <2>2
<1> QED BY <1>1, Invariance, PTL
=============================================================================
