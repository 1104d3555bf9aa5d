SPECIFICATION Spec
CONSTANTS
    Preferred <- PreferredDef
    MaxUpdates = 3
    OpQueueSize = 4
    Intervals <- IntervalsDef
    SetInputs <- NoInputs
    MaxEvents = 3
PROPERTY ClosedForBadInterval
