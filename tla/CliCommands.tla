----------------------------- MODULE CliCommands -----------------------------
(***************************************************************************)
(* The commands of the CLI (cli/src/cli.ts, discover.ts, ui/Init.tsx) over *)
(* one repository: the application, its package.json and its snapshot      *)
(* files.  A person edits them and runs one command after the other;       *)
(* nobody edits them while a command runs.                                 *)
(*                                                                         *)
(* init is the wizard: it loads an entry, shows what it has found, and     *)
(* writes the config, then the first snapshot, each when told to.  Its     *)
(* offer of a governed export (Init.tsx:123-162) is left out: it never     *)
(* names an export when it loads, and what is then read is the richest     *)
(* export, for which Governed is Undefined.                                *)
(***************************************************************************)
EXTENDS CliLoader

CONSTANTS
  Paths, DefaultPath,   \* of snapshot files
  Unreadable,           \* the content of one that is no snapshot
  CommandLines,         \* what the person runs
  Conventional,         \* entries init looks for, CANDIDATES in discover.ts
  Configs,              \* what the person writes into package.json
  Baselines             \* Baselines[p]: what may be in file p at the beginning

VARIABLES
  config,     \* package.json's orpcAgent
  file,       \* file[p]: a snapshot, Unreadable, or Undefined
  command,    \* the command that runs, or the last one
  shown       \* what a wizard that wrote its config had shown, until an edit

vars == <<host, app, load, child, config, file, command, shown>>
disk == <<host, app, config, file>>

-----------------------------------------------------------------------------
(***************************************************************************)
(* parseArgs, without what only changes the output.  terminal: whether     *)
(* stdin and stdout are terminals and ink is installed.                    *)
(***************************************************************************)
IsCommandLine(line) ==
  /\ DOMAIN line = {"name", "entry", "export", "snapshot", "preload", "failOn", "terminal"}
  /\ line.name \in {"init", "inspect", "snapshot", "check", "misused"}
  /\ line.entry \in Entries \cup {Undefined} /\ line.snapshot \in Paths \cup {Undefined}
  /\ line.failOn \in {"any", "widening"} /\ line.terminal \in BOOLEAN

IsConfig(c) ==
  /\ DOMAIN c = {"entry", "export", "snapshot"}
  /\ c.entry \in Entries \cup {Undefined} /\ c.snapshot \in Paths \cup {Undefined}

ASSUME CliConstants ==
  /\ TypeScript \cup Conventional \subseteq Entries
  /\ DefaultPath \in Paths /\ Undefined \notin Paths
  /\ \A e \in Entries : \A m \in Modules[e] \ {Undefined} : IsModule(m)
  /\ \A line \in CommandLines : IsCommandLine(line)
  /\ \A c \in Configs : IsConfig(c)

NoLine ==
  [name |-> "none", entry |-> Undefined, export |-> Undefined, snapshot |-> Undefined,
   preload |-> Undefined, failOn |-> "any", terminal |-> FALSE]

NoCommand == [line |-> NoLine, step |-> "exited", code |-> 0]

\* a ?? b
Else(a, b) == IF a = Undefined THEN b ELSE a

Entry == Else(command.line.entry, config.entry)
SnapshotPath == Else(command.line.snapshot, Else(config.snapshot, DefaultPath))

AtStep(step) == command' = [command EXCEPT !.step = step]
\* The process is over, and with it what it has loaded.
Exit(code) ==
  /\ command' = [command EXCEPT !.step = "exited", !.code = code]
  /\ load' = NoLoad /\ child' = NoChild

Request(entry, export, preload) == [entry |-> entry, export |-> export, preload |-> preload]

-----------------------------------------------------------------------------
\* What of main runs before it loads.
Run(line) ==
  /\ command.step = "exited"
  /\ command' = [line |-> line, step |-> "started", code |-> 0]
  /\ UNCHANGED <<disk, loader, shown>>

\* An unknown option or command, or none; no entry to read.
Refuse ==
  /\ command.step = "started"
  /\ \/ command.line.name = "misused"
     \/ command.line.name # "init" /\ Entry = Undefined
  /\ Exit(2)
  /\ UNCHANGED <<disk, shown>>

LoadApplication ==
  /\ command.step = "started"
  /\ command.line.name \in {"inspect", "snapshot", "check"} /\ Entry # Undefined
  /\ BeginLoad(Request(Entry, Else(command.line.export, config.export), command.line.preload))
  /\ AtStep("loading")
  /\ UNCHANGED <<disk, shown>>

\* LoadError: the command could not run.  The wizard says so and ends.
CannotLoad ==
  /\ command.step = "loading"
  /\ load.phase = "done" /\ ~load.answer.ok
  /\ Exit(2)
  /\ UNCHANGED <<disk, shown>>

Loaded(name) ==
  /\ command.step = "loading" /\ command.line.name = name
  /\ load.phase = "done" /\ load.answer.ok

Inspect ==
  /\ Loaded("inspect")
  /\ Exit(0)
  /\ UNCHANGED <<disk, shown>>

WriteSnapshot ==
  /\ Loaded("snapshot")
  /\ file' = [file EXCEPT ![SnapshotPath] = load.answer.snapshot]
  /\ shown' = Undefined
  /\ Exit(0)
  /\ UNCHANGED <<host, app, config>>

\* readSnapshotFile throws.
NoBaseline ==
  /\ Loaded("check")
  /\ file[SnapshotPath] \in {Undefined, Unreadable}
  /\ Exit(2)
  /\ UNCHANGED <<disk, shown>>

Failing(changes, failOn) ==
  IF failOn = "widening" THEN {c \in changes : c.kind = "widening"} ELSE changes

Check ==
  /\ Loaded("check")
  /\ file[SnapshotPath] \notin {Undefined, Unreadable}
  /\ LET changes == Gate!Diff(file[SnapshotPath], load.answer.snapshot) IN
       Exit(IF Failing(changes, command.line.failOn) = {} THEN 0 ELSE 1)
  /\ UNCHANGED <<disk, shown>>

-----------------------------------------------------------------------------
(***************************************************************************)
(* init                                                                    *)
(***************************************************************************)
\* The conventional entry modules that exist.
Candidates ==
  IF Entry # Undefined THEN {Entry} ELSE {e \in Conventional : app[e] # Undefined}

RefuseInit ==
  /\ command.step = "started" /\ command.line.name = "init"
  /\ Candidates = {} \/ ~command.line.terminal
  /\ Exit(2)
  /\ UNCHANGED <<disk, shown>>

\* The only candidate, or the one picked.  --export and --import are not
\* passed on.
Probe(entry) ==
  /\ command.step = "started" /\ command.line.name = "init" /\ command.line.terminal
  /\ entry \in Candidates
  /\ BeginLoad(Request(entry, Undefined, Undefined))
  /\ AtStep("loading")
  /\ UNCHANGED <<disk, shown>>

\* "Write this to package.json?"
Review ==
  /\ Loaded("init")
  /\ AtStep("review")
  /\ UNCHANGED <<disk, loader, shown>>

\* Mutated: merged the other way round.
MergedUnder(c, entry) == [c EXCEPT !.entry = Else(@, entry)]

\* writeAgentConfig: what the wizard does not set stays.
Merged(c, entry) == [c EXCEPT !.entry = entry]

ConfirmConfig ==
  /\ command.step = "review"
  /\ config' = Merged(config, load.request.entry)
  /\ shown' = [snapshot |-> load.answer.snapshot, path |-> Undefined]
  /\ AtStep("baseline")
  /\ UNCHANGED <<host, app, file, loader>>

\* "Write the baseline snapshot to ...?"
ConfirmBaseline ==
  /\ command.step = "baseline"
  /\ file' = [file EXCEPT ![SnapshotPath] = load.answer.snapshot]
  /\ shown' = [shown EXCEPT !.path = SnapshotPath]
  /\ Exit(0)
  /\ UNCHANGED <<host, app, config>>

Decline ==
  /\ command.step \in {"review", "baseline"}
  /\ Exit(0)
  /\ UNCHANGED <<disk, shown>>

-----------------------------------------------------------------------------
\* Edits between commands.
Edits ==
  /\ command.step = "exited"
  /\ command' = NoCommand /\ shown' = Undefined
  /\ UNCHANGED loader

EditModule(e, m) ==
  /\ Edits
  /\ app' = [app EXCEPT ![e] = m]
  /\ UNCHANGED <<host, config, file>>

EditConfig(c) ==
  /\ Edits
  /\ config' = c
  /\ UNCHANGED <<host, app, file>>

-----------------------------------------------------------------------------
Init ==
  /\ LoaderInit
  /\ app \in {a \in [Entries -> UNION {Modules[e] : e \in Entries}] :
               \A e \in Entries : a[e] \in Modules[e]}
  /\ config \in Configs
  /\ file \in {f \in [Paths -> UNION {Baselines[p] : p \in Paths}] :
                \A p \in Paths : f[p] \in Baselines[p]}
  /\ command = NoCommand
  /\ shown = Undefined

\* What a command does by itself.
CommandStep ==
  \/ Refuse \/ RefuseInit \/ LoadApplication \/ CannotLoad
  \/ Inspect \/ WriteSnapshot \/ NoBaseline \/ Check \/ Review

\* What a person does.
PersonStep ==
  \/ \E line \in CommandLines : Run(line)
  \/ \E e \in Entries : Probe(e)
  \/ ConfirmConfig \/ ConfirmBaseline \/ Decline
  \/ \E e \in Entries : \E m \in Modules[e] : EditModule(e, m)
  \/ \E c \in Configs : EditConfig(c)

Next ==
  \/ Loading /\ UNCHANGED <<config, file, command, shown>>
  \/ CommandStep
  \/ PersonStep

Spec == Init /\ [][Next]_vars

\* A command goes on by itself, and its timer fires; the child may do
\* nothing for ever.
FairSpec ==
  /\ Spec
  /\ WF_vars(CommandStep)
  /\ WF_vars(TimesOut /\ UNCHANGED <<config, file, command, shown>>)

-----------------------------------------------------------------------------
Ended(name) == command.step = "exited" /\ command.line.name = name

\* The gate is honest: a check that ends clean or with drift has had a
\* baseline it could read and a module it could load, and its verdict is the
\* difference between that baseline and an export of that module that is the
\* named one or, unnamed, carries as much as any; never one of a child that
\* died, of an ambiguous module or of a missing file (cli.ts:23, "the second
\* one silently passing is how a gate rots").
VerdictIsEarned ==
  Ended("check") /\ command.code # 2 =>
    LET m == app[Entry]
        named == Else(command.line.export, config.export) IN
    /\ m # Undefined
    /\ \E n \in Sources(m) :
         /\ named \in {n, Undefined}
         /\ named = Undefined =>
              \A k \in Sources(m) :
                /\ m.exports[k].registry = m.exports[n].registry
                /\ m.exports[k].kind = "governance" => m.exports[n].kind = "governance"
         /\ file[SnapshotPath] \notin {Undefined, Unreadable}
         /\ command.code = 0 <=>
              Failing(Gate!Diff(file[SnapshotPath], SnapshotOf(m.exports[n])),
                      command.line.failOn) = {}

Plain(line) == {line.entry, line.export, line.snapshot, line.preload} = {Undefined}

\* What the wizard reports is what check will see (Init.tsx:17): until
\* somebody edits something, a check without options that loads the
\* application loads what was shown, and finds no drift if the first snapshot
\* was written where check looks; if no export was configured before, which
\* the wizard ignores and leaves in place.
CheckSeesWhatInitSaw ==
  /\ command.line.name = "check" /\ Plain(command.line)
  /\ shown # Undefined /\ config.export = Undefined
  => /\ load.phase = "done" /\ load.answer.ok => load.answer.snapshot = shown.snapshot
     /\ command.step = "exited" /\ shown.path = SnapshotPath => command.code # 1

\* A command that loads the application ends, whatever the application does
\* when it is imported: it hangs, exits or breaks its loader.
LoadEnds == command.step = "loading" ~> command.step # "loading"
=============================================================================
