SPECIFICATION DescribeSpec
CONSTANTS
  Candidates = 1
  PoliciesOf <- MCOnePolicy
  Gated = {}
  Concurrency = 1
  Budget = 3
  PolicyTimeout = 4
  Millisecond = 2
  MaxBlock = 0
INVARIANT NeverShort
CHECK_DEADLOCK FALSE
