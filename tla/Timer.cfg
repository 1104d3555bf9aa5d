SPECIFICATION Spec
CONSTANTS
    Counter = 12
    Word = 30
    Mul = 3
    Clock = 4
    Delay = 3
    DelayTicks = 4
    SIZE = 2
    W = 8
    Lengths = {0, 3, 4, 7}
    MaxNow = 15
INVARIANTS
    TypeOK
    TimeRight
CHECK_DEADLOCK FALSE
