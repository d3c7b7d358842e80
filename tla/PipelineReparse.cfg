SPECIFICATION Spec
CONSTANTS
  alice = alice
  aliceBot = aliceBot
  bob = bob
  i1 = i1
  i2 = i2
  r1 = r1
  r2 = r2
  Invocations = {i1}
  Resumptions = {r1}
  Executions = {i1, r1}
  Ids = {i1}
  Actors = {alice, bob}
  Identities = {"alice", "bob"}
  IdOf <- MCIdOf
  Values = {"v", "w"}
  Unserializable = {}
  Capabilities <- ReparseVersions
  MaxAttempts = 1
  Window = 1
  MaxClock = 2
  RejectSelfApproval = TRUE
  InlineHandler = FALSE
  StrictAudit = TRUE
  SeamsMayThrow = FALSE
  NoRecord = NoRecord
  None = None
INVARIANT ApprovedValueExecutes
CHECK_DEADLOCK FALSE
