SPECIFICATION BenchSpec
CONSTANTS
    SIZE = 2
    W = 8
    TxPackets = 2
    Ticks = {1}
    UpLengths = {2}
    Faults = {"link", "uart"}
    MaxWrites = 3
    MaxEvents = 1
    Commands <- BenchCommands
INVARIANTS
    BenchTypeOK
    RowOfOneTest
    RowsInOrder
    ClosedIsTold
