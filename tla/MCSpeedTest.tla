---------------------------- MODULE MCSpeedTest ----------------------------
(* Small instances of SpeedTest: packets of 3 bytes, counters modulo 8.    *)
EXTENDS Claims

Start == [name |-> "start", n |-> 0]
Continue(n) == [name |-> "continue", n |-> n]

Test(c, ws) == [cmd |-> c, words |-> ws]
Report(c) == [cmd |-> c, words |-> <<[name |-> "report", n |-> 0]>>]

SafetyCommands ==
    {Test("tsd", <<Start>>), Test("tsd", <<Continue(4)>>), Test("tsd", <<Continue(7)>>),
     Test("tsd", <<StopWord>>), Test("tsd", <<Start, Continue(7), StopWord>>),
     Test("tsu", <<Start>>), Test("tsu", <<Continue(4), StopWord>>),
     Report("gt"), Report("gp")}

LiveCommands ==
    {Test("tsd", <<Start, Continue(7)>>), Test("tsd", <<Continue(10)>>),
     Test("tsd", <<StopWord>>), Test("tsu", <<Start, StopWord>>), Report("gt")}

\* For the claim: short sequences of commands are enough.
ClaimCommands ==
    {Test("tsd", <<Start, Continue(7)>>), Test("tsd", <<Continue(4)>>),
     Test("tsd", <<StopWord>>), Test("tsu", <<Start>>), Test("tsu", <<StopWord>>),
     Report("gt")}
=============================================================================
