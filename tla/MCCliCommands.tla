---------------------------- MODULE MCCliCommands ----------------------------
(***************************************************************************)
(* A repository with one or two entries that export registries r1 and r2,  *)
(* which expose different capabilities, and what governs them.             *)
(***************************************************************************)
EXTENDS CliCommands

Meta ==
  [expose |-> {"mcp"}, sideEffect |-> "write", risk |-> 2, approval |-> Undefined,
   idempotent |-> FALSE, retry |-> Undefined, tags |-> {}, policies |-> <<>>,
   redact |-> {}, text |-> "t1"]

MCIds == {"refund"}

MCProcedures ==
  [r1 |-> [id \in MCIds |-> [Meta EXCEPT !.expose = {}]], r2 |-> [id \in MCIds |-> Meta]]

Policy == [name |-> "guard", phases |-> {"invocation"}, scope |-> Undefined]

Value(kind, registry, policies) ==
  [kind |-> kind, registry |-> registry, policies |-> policies]

Module(erasable, first, second) == [erasable |-> erasable, exports |-> <<first, second>>]

Bare(r) == Value("registry", r, <<>>)

\* a.ts: a governance beside its registry, before and after an edit of
\* either; the governance gone, or over another registry; a runtime that needs
\* a loader; a runtime of an old core.  b.js: a governance.
MCModules ==
  [e \in {"a.ts", "b.js"} |->
     IF e = "b.js"
       THEN {Module(TRUE, Bare("r2"), Value("governance", "r2", <<Policy>>))}
       ELSE {Undefined,
             Module(TRUE, Bare("r1"), Value("governance", "r1", <<Policy>>)),
             Module(TRUE, Bare("r1"), Undefined),
             Module(TRUE, Bare("r2"), Value("governance", "r1", <<Policy>>)),
             Module(FALSE, Value("runtime", "r2", <<>>), Bare("r2")),
             Module(TRUE, Value("old-runtime", "r1", <<>>), Bare("r1"))}]

Line(name) == [NoLine EXCEPT !.name = name]

MCHosts ==
  {[strips |-> TRUE, installed |-> {"jiti/register"}],
   [strips |-> FALSE, installed |-> {"jiti/register", "tsx"}],
   [strips |-> FALSE, installed |-> {}]}

MCCommandLines ==
  {Line("check"), [Line("check") EXCEPT !.snapshot = "older.json", !.failOn = "widening"],
   [Line("check") EXCEPT !.preload = "given"],
   Line("snapshot"), Line("inspect"), Line("misused"), Line("init"),
   [Line("init") EXCEPT !.terminal = TRUE],
   [Line("init") EXCEPT !.terminal = TRUE, !.entry = "b.js"]}

Config(entry, export, snapshot) == [entry |-> entry, export |-> export, snapshot |-> snapshot]

MCConfigs == {Config(Undefined, Undefined, Undefined), Config("a.ts", 1, Undefined)}

Old(version, policies) ==
  Gate!Snapshot([procedures |-> MCProcedures["r1"], policies |-> policies, observed |-> TRUE],
                version)

MCBaselines ==
  [p \in {"default.json", "older.json"} |->
     IF p = "older.json" THEN {Old(1, <<>>)} ELSE {Undefined, Unreadable}]
=============================================================================
