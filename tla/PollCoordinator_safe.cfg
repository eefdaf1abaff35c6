SPECIFICATION Spec
CONSTANTS
  None = None
  Event = event
  Coordinators = {c1, c2}
  TimeSlots = {t1}
  Backoffs <- ShortBackoffs
  Requests <- SomeRequests
  MinFast = 1
  MaxFast = 2
  MinMedium = 2
  MaxMedium = 3
  FastCommands = 1
  MediumCommands = 1
SYMMETRY Symmetry
INVARIANTS
  TypeOK
  OnePollAtATime
  WindowMatchesLevel
  MediumKeepsUp
  Cadence
PROPERTIES
  MediumOnTime
