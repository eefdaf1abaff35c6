SPECIFICATION Spec
CONSTANTS
  None = None
  Coordinators = {c1, c2, c3}
  Options = {o1, o2}
  MaxUpdates = 2
SYMMETRY Symmetry
INVARIANTS
  OneListener
  EntitiesAreServed
  OptionsInForce
