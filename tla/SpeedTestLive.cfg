SPECIFICATION FairSpec
CONSTANTS
    SIZE = 3
    W = 32
    TxPackets = 2
    Ticks = {1}
    UpLengths = {2}
    Faults = {}
    MaxWrites = 4
    MaxEvents = 3
    Commands <- LiveCommands
INVARIANTS
    WaitingIsWoken
PROPERTIES
    StopServed
    ControlFairSpec
CHECK_DEADLOCK FALSE
