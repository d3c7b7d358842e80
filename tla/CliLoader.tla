------------------------------ MODULE CliLoader ------------------------------
(***************************************************************************)
(* How a CLI command reads the application: loadSnapshot (cli/src/load.ts) *)
(* imports the entry module in a child process (cli/src/child.ts), which   *)
(* picks one of its exports, writes a snapshot of it to a file and exits.  *)
(* The child runs the application's own top-level code, so it may throw,   *)
(* exit with any code, be killed or never end; a module that is preloaded  *)
(* may do so before it.  The parent learns of an end by the close event    *)
(* or gives up by a timer, whichever comes first, and may try once more.   *)
(*                                                                         *)
(* A child that is killed is forgotten: what it may still write goes to a  *)
(* file of its own that nobody reads.                                      *)
(***************************************************************************)
EXTENDS Integers, Sequences, FiniteSets, FiniteSetsExt, Functions

CONSTANTS
  Undefined,      \* what JavaScript calls so
  Hosts,          \* installations: does Node strip types, which loaders are there
  Ids, Unmarked,  \* as in CapabilityDiff
  Entries,        \* paths of entry modules
  TypeScript,     \* those of them named .ts, .mts, .cts or .tsx
  Procedures,     \* Procedures[r]: what registry r was built from
  Modules         \* Modules[e]: what the entry module e may be

\* Snapshots and their differences are those of the drift gate.
Gate == INSTANCE CapabilityDiff WITH
          Governances <- {}, Versions <- {3}, FailOn <- "any",
          base <- Undefined, app <- Undefined, looked <- Undefined

VARIABLES
  host,           \* the installation
  app,            \* app[e]: the module at e, if there is one
  load,           \* the call of loadSnapshot
  child           \* the child process it waits for

loader == <<load, child>>

-----------------------------------------------------------------------------
(***************************************************************************)
(* child.ts, once the module is imported.  A module is a sequence of       *)
(* exports, in the order Object.entries gives, which names stand for; an   *)
(* export that is no source (a function, say) is Undefined.                *)
(***************************************************************************)
Registries == DOMAIN Procedures
Kinds == {"governance", "runtime", "old-runtime", "registry"}

\* governanceOf: a runtime of a core that carries no governance yields nothing.
Observes(v) == v.kind \in {"governance", "runtime"}

GovernanceOf(v) ==
  [procedures |-> Procedures[v.registry], policies |-> v.policies, observed |-> Observes(v)]

IsModule(m) ==
  /\ DOMAIN m = {"erasable", "exports"} /\ m.erasable \in BOOLEAN
  /\ m.exports \in Seq(Range(m.exports))
  /\ \A v \in Range(m.exports) \ {Undefined} :
       v.kind \in Kinds /\ v.registry \in Registries /\ Gate!IsGovernance(GovernanceOf(v))

Names(m) == DOMAIN m.exports
Sources(m) == {n \in Names(m) : m.exports[n] # Undefined}

RankOf(v) == CASE v.kind = "governance" -> 2
               [] v.kind \in {"runtime", "old-runtime"} -> 1
               [] v.kind = "registry" -> 0

\* The first of those that carry most.
Richest(m) ==
  CHOOSE n \in Sources(m) : \A k \in Sources(m) :
    \/ RankOf(m.exports[k]) < RankOf(m.exports[n])
    \/ RankOf(m.exports[k]) = RankOf(m.exports[n]) /\ n <= k

\* Mutated: the richest export, whatever the others are.
SelectedAnyway(m, name) ==
  IF name # Undefined
    THEN IF name \in Sources(m) THEN name ELSE Undefined
    ELSE IF Sources(m) # {} THEN Richest(m) ELSE Undefined

\* The export that is read: the one named, or the richest if all name one
\* registry.
Selected(m, name) ==
  IF name # Undefined
    THEN IF name \in Sources(m) THEN name ELSE Undefined
    ELSE IF Cardinality({m.exports[n].registry : n \in Sources(m)}) = 1
           THEN Richest(m)
           ELSE Undefined

\* buildSnapshot takes what observes nothing for a registry, which an old
\* runtime is not: calling its inspect throws.
Builds(v) == Observes(v) \/ v.kind = "registry"

SnapshotOf(v) == Gate!Snapshot(GovernanceOf(v), 3)

\* runtimeAvailableAs
Governed(m, n) ==
  LET over == {k \in Sources(m) : m.exports[k].kind # "registry"
                                  /\ m.exports[k].registry = m.exports[n].registry} IN
  IF m.exports[n].kind = "registry" /\ over # {} THEN Min(over) ELSE Undefined

Told(what) == [ok |-> FALSE, what |-> what]

\* What the child writes, and the code it exits with.
Result(m, name) ==
  LET n == Selected(m, name) IN
  IF n = Undefined THEN [code |-> 11, file |-> Told("selection")]
  ELSE IF ~Builds(m.exports[n]) THEN [code |-> 12, file |-> Told("build")]
  ELSE [code |-> 0,
        file |-> [ok |-> TRUE, snapshot |-> SnapshotOf(m.exports[n]),
                  governed |-> Governed(m, n)]]

-----------------------------------------------------------------------------
(***************************************************************************)
(* The child                                                               *)
(***************************************************************************)
NoChild == [phase |-> "none", preload |-> Undefined, code |-> 0, file |-> Undefined]

Spawned(preload) == [NoChild EXCEPT !.phase = "importing", !.preload = preload]

Exits(code, file) ==
  child' = [child EXCEPT !.phase = "exited", !.code = code, !.file = file]

Target == app[load.request.entry]

\* What needs more than types erased only loads through a loader.
Importable ==
  /\ Target # Undefined
  /\ load.request.entry \in TypeScript =>
       child.preload # Undefined \/ (host.strips /\ Target.erasable)

ImportEnds ==
  /\ child.phase = "importing" /\ Importable
  /\ LET result == Result(Target, load.request.export) IN Exits(result.code, result.file)
  /\ UNCHANGED <<host, app, load>>

\* The module throws, or there is none.
ImportFails ==
  /\ child.phase = "importing"
  /\ Exits(10, Told("import"))
  /\ UNCHANGED <<host, app, load>>

\* The application exits, is killed (code null, taken for -1), or the
\* preloaded module is broken: nothing is written.
ChildDies(code) ==
  /\ child.phase = "importing"
  /\ Exits(code, Undefined)
  /\ UNCHANGED <<host, app, load>>

-----------------------------------------------------------------------------
(***************************************************************************)
(* The parent.  An outcome is how runChild settles; diagnosed is           *)
(* ChildOutcome.reported.  request.preload is --import.                    *)
(***************************************************************************)
NoLoad == [phase |-> "idle", request |-> Undefined, outcomes |-> <<>>, answer |-> Undefined]

Failure(code, diagnosed, what) ==
  [ok |-> FALSE, code |-> code, diagnosed |-> diagnosed, what |-> what]

\* findLoader: a loader that the project has.
FindLoader ==
  IF "tsx" \in host.installed THEN "tsx"
  ELSE IF "jiti/register" \in host.installed THEN "jiti/register"
  ELSE Undefined

Detected(request) ==
  IF request.entry \in TypeScript /\ ~host.strips THEN FindLoader ELSE Undefined

Preload(request) ==
  IF request.preload # Undefined THEN request.preload ELSE Detected(request)

Hopeless(request) ==
  request.entry \in TypeScript /\ ~host.strips /\ Preload(request) = Undefined

Answered(l, outcome) == [l EXCEPT !.phase = "done", !.answer = outcome]

BeginLoad(request) ==
  LET called == [NoLoad EXCEPT !.phase = "waiting", !.request = request] IN
  \/ /\ Hopeless(request)
     /\ load' = Answered(called, Failure(-1, TRUE, "no loader"))
     /\ child' = NoChild
  \/ /\ ~Hopeless(request)
     /\ load' = called
     /\ child' = Spawned(Preload(request))

\* One more try, through a loader that has not been tried.
Retries(outcome) ==
  /\ load.outcomes = <<>> /\ ~outcome.ok /\ outcome.code = 10
  /\ load.request.preload = Undefined
  /\ FindLoader # Undefined /\ FindLoader # Detected(load.request)

\* Mutated: the last word counts.
LastVerdict(outcome) == outcome

\* A second child that died before it reported has nothing to say.
Verdict(outcome) ==
  IF load.outcomes # <<>> /\ ~outcome.ok /\ ~outcome.diagnosed
    THEN Head(load.outcomes)
    ELSE outcome

\* runChild settles, and loadSnapshot answers.
Answer(outcome) ==
  /\ load.phase = "waiting"
  /\ load' = [Answered(load, Verdict(outcome)) EXCEPT !.outcomes = Append(@, outcome)]
  /\ child' = NoChild
  /\ UNCHANGED <<host, app>>

OutcomeOf(code, file) ==
  IF file = Undefined THEN Failure(code, FALSE, "no result")
  ELSE IF file.ok THEN [ok |-> TRUE, snapshot |-> file.snapshot, governed |-> file.governed]
  ELSE Failure(code, TRUE, file.what)

\* The close event.
ChildCloses ==
  /\ child.phase = "exited"
  /\ LET outcome == OutcomeOf(child.code, child.file) IN
       \/ ~Retries(outcome) /\ Answer(outcome)
       \/ /\ Retries(outcome)
          /\ load' = [load EXCEPT !.outcomes = <<outcome>>]
          /\ child' = Spawned(FindLoader)
          /\ UNCHANGED <<host, app>>

\* The error event: the process was never there.
SpawnFails ==
  /\ child.phase = "importing"
  /\ Answer(Failure(-1, FALSE, "no process"))

\* Mutated: the second child has no timer.
FirstTimesOut == load.outcomes = <<>> /\ Answer(Failure(-1, TRUE, "time-out"))

\* The timer, which kills the child; it may have ended meanwhile.
TimesOut == Answer(Failure(-1, TRUE, "time-out"))

Loading ==
  \/ ImportEnds \/ ImportFails
  \/ \E code \in {-1, 0, 10} : ChildDies(code)
  \/ ChildCloses \/ SpawnFails \/ TimesOut

-----------------------------------------------------------------------------
LoaderInit ==
  /\ host \in Hosts
  /\ load = NoLoad
  /\ child = NoChild

\* The application's own word is not lost: if a child has diagnosed a
\* failure of a load that fails, the failure that is reported is one that
\* was diagnosed, not the death of another child that said nothing
\* (load.ts:92, "Keep the original diagnosis").
OwnDiagnosis ==
  /\ load.phase = "done" /\ ~load.answer.ok
  /\ \E i \in DOMAIN load.outcomes : load.outcomes[i].diagnosed
  => load.answer.diagnosed
=============================================================================
