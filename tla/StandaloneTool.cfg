SPECIFICATION Spec
CONSTANTS
    Devices <- MCDevices
    TargetLists <- MCTargetLists
    AutoLimit = 1
    Commands <- MCCommands
    Payload <- MCPayload
    Unparsable <- MCUnparsable
    MaxFailures = 2
    MaxLost = 1
    MaxWire = 14
    Garage = Garage
    Cellar = Cellar
INVARIANTS
    TypeOK
    IntactFramesGetThrough
    AnswerIsOwn
    LinksAreReleased
    GivesUp
PROPERTIES
    EveryTargetReported
    QueriesGetShorter
