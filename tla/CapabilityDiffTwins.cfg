SPECIFICATION Spec
CONSTANTS
  Undefined = Undefined
  Unmarked = Unmarked
  Ids <- MCIds
  Governances <- MCTwins
  Versions = {3}
  FailOn = "widening"
INVARIANT GuardsStay
