SPECIFICATION FairSpec
CONSTANTS
    SIZE = 3
    W = 32
    TxPackets = 2
    Ticks = {1}
    UpLengths = {2}
    Faults = {"link"}
    MaxWrites = 2
    MaxEvents = 2
    Commands <- ClaimCommands
PROPERTY StopServedWhenConnected
CHECK_DEADLOCK FALSE
