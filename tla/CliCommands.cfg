SPECIFICATION FairSpec
CONSTANTS
  Undefined = Undefined
  Unmarked = Unmarked
  Unreadable = Unreadable
  Hosts <- MCHosts
  Ids <- MCIds
  Entries = {"a.ts", "b.js"}
  TypeScript = {"a.ts"}
  Conventional = {"a.ts"}
  Procedures <- MCProcedures
  Modules <- MCModules
  Paths = {"default.json", "older.json"}
  DefaultPath = "default.json"
  CommandLines <- MCCommandLines
  Configs <- MCConfigs
  Baselines <- MCBaselines
INVARIANTS OwnDiagnosis VerdictIsEarned CheckSeesWhatInitSaw
PROPERTIES LoadEnds
CHECK_DEADLOCK FALSE
