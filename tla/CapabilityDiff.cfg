SPECIFICATION Spec
CONSTANTS
  Undefined = Undefined
  Unmarked = Unmarked
  Ids <- MCIds
  Governances <- MCGovernances
  Versions = {1, 2, 3}
  FailOn = "widening"
INVARIANTS NothingOpens GuardsStay
