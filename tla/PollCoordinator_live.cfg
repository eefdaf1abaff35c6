SPECIFICATION FairSpec
CONSTANTS
  None = None
  Event = event
  Coordinators = {c1, c2}
  TimeSlots = {t1}
  Backoffs <- TwoBackoffs
  Requests <- OneRequest
  MinFast = 1
  MaxFast = 1
  MinMedium = 1
  MaxMedium = 1
  FastCommands = 2
  MediumCommands = 1
PROPERTY PollsGoOn
