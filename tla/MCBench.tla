------------------------------ MODULE MCBench ------------------------------
(* Small instances of Bench.                                               *)
EXTENDS Bench

Start == [name |-> "start", n |-> 0]
Continue(n) == [name |-> "continue", n |-> n]
Test(c, ws) == [cmd |-> c, words |-> ws]
GetTime == [cmd |-> "gt", words |-> <<[name |-> "report", n |-> 0]>>]

\* Tests of both kinds, an UP test also begun and stopped by two writes, so that
\* dummy data can come between them, and the report, which may find few packets free.
BenchCommands ==
    {Test("tsu", ws) : ws \in {<<Start, StopWord>>, <<Start>>, <<StopWord>>}}
    \cup {Test("tsd", <<Start, Continue(4), StopWord>>), GetTime}
=============================================================================
