SPECIFICATION Spec
CONSTANTS
    Counter = 12
    Word = 30
    Mul = 3
    Clock = 4
    Delay = 3
    DelayTicks = 4
    SIZE = 2
    W = 8
    Lengths = {3, 4}
    MaxNow = 12
INVARIANT TimeOfEveryTest
CHECK_DEADLOCK FALSE
