SPECIFICATION Spec
CONSTANTS
  None = None
  Coordinators = {c1, c2}
  Options = {o1}
  MaxUpdates = 0
INVARIANT CommandsAreSerialized
