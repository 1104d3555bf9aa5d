SPECIFICATION FairSpec
CONSTANTS
    SIZE = 3
    W = 8
    TxPackets = 2
    Ticks = {0, 1}
    UpLengths = {2}
    Faults = {"link", "cccd"}
    MaxWrites = 3
    MaxEvents = 2
    Commands <- SafetyCommands
INVARIANTS
    TypeOK
    HandlerInv
    OwedOnlyInDownTest
PROPERTIES
    ClosesPaid
    LateEventsHarmless
    ResumeShrinks
    ResumeAccounts
    ControlSpec
    HandlersRunOut
    SendReturns
