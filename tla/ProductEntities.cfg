SPECIFICATION Spec
CONSTANTS
    Entities <- MCEntities
    Platforms <- MCPlatforms
    Commands <- MCCommands
    PlatformOf <- MCPlatformOf
    PackOf <- MCPackOf
    StaleOn <- MCStaleOn
    CountCommand = Detail
    MaxPacks = 2
    Counts <- MCCounts
    StaleAfter = 1
    None = None
    Runtime = Runtime
    Detail = Detail
    Sensor = Sensor
    Binary = Binary
    Power = Power
    Both = Both
    Valid = Valid
    Pack1 = Pack1
    Pack2 = Pack2
INVARIANTS
    MadeOnce
    EveryPackHasEntities
    ShownIsPresent
PROPERTY
    StaleGoesUnavailable
