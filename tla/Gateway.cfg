SPECIFICATION FairSpec
CONSTANTS
  r1 = r1
  r2 = r2
  r3 = r3
  Requests = {r1, r2, r3}
  Keys = {"k"}
  Inputs = {"x", "y"}
  Contracts = {"c1", "c2"}
  Approvers = {bob}
  MayAsk <- MCMayAsk
  None = None
INVARIANTS AnswersAgree AnswersFitTheQuestion ApprovedContractExecutes
PROPERTIES KeepsPromise RequestsAreAnswered
CHECK_DEADLOCK FALSE
