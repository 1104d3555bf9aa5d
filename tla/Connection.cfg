SPECIFICATION HistoryFairSpec
CONSTANTS
    Preferred <- PreferredDef
    MaxUpdates = 3
    OpQueueSize = 4
    Intervals <- IntervalsDef
    SetInputs <- ReportInputs
    MaxEvents = 3
INVARIANTS
    TypeOK
    EventsInOrder
    CaughtUp
    ReportedLegal
PROPERTIES
    ResetNeedsRace
    GivesUpAfterAll
    NegotiationEnds
    StaysReachable
