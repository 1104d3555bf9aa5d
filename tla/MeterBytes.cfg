SPECIFICATION MeterSpec
CONSTANTS
    SIZE = 3
    W = 64
    TxPackets = 2
    Ticks = {1}
    UpLengths = {2}
    Faults = {"link"}
    MaxWrites = 3
    MaxEvents = 2
    Commands <- SingleCommands
INVARIANT CountWithinTwoPackets
