SPECIFICATION Spec
CONSTANTS
  alice = alice
  aliceBot = aliceBot
  bob = bob
  i1 = i1
  i2 = i2
  r1 = r1
  r2 = r2
  Invocations = {i1}
  Resumptions = {r1, r2}
  Executions = {i1, r1, r2}
  Ids = {i1}
  Actors = {alice, bob}
  Identities = {"alice", "bob"}
  IdOf <- MCIdOf
  Values = {"v", "w"}
  Unserializable = {}
  Capabilities <- ApprovalVersions
  MaxAttempts = 1
  Window = 1
  MaxClock = 2
  RejectSelfApproval = TRUE
  InlineHandler = FALSE
  StrictAudit = TRUE
  SeamsMayThrow = FALSE
  NoRecord = NoRecord
  None = None
INVARIANTS TypeOK ResumedEffectOwnsApproval ApprovedInputIsHandedOver AuditPrecedesEffect
PROPERTY KeepsLifecycle
SYMMETRY Symmetry
CHECK_DEADLOCK FALSE
