SPECIFICATION Spec
CONSTANTS
    Venus = Venus
    Jupiter = Jupiter
    Frames <- MCFrames
    MaxFrames = 3
INVARIANTS
    DropIn
    MetadataMatchesValue
    DerivedInputsAgree
    LayoutsAreSound
PROPERTY
    RejectedFramesAreIgnored
CHECK_DEADLOCK FALSE
