SPECIFICATION Spec
CONSTANTS
    Controls <- MCControls
    Switches <- MCSwitches
    Buttons <- MCButtons
    Options <- MCOptions
    Frame <- MCFrame
    ReadBack <- MCReadBack
    Reads <- MCReads
    Statuses <- MCStatuses
    Values <- MCValues
    Starts <- MCStarts
    None = None
    Scenes <- MCScenes
    Attempts = 2
    MaxCalls = 2
    MaxChanges = 1
    MaxAir = 2
    Charge = Charge
    Output = Output
    Mode = Mode
    Eps = Eps
    Button = Button
INVARIANTS
    AssumedIsTrue
PROPERTIES
    Converges
    SettledStays
