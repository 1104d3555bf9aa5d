------------------------------ MODULE MCMeter ------------------------------
(* Small instances of Meter.                                               *)
EXTENDS Meter

Start == [name |-> "start", n |-> 0]
Continue(n) == [name |-> "continue", n |-> n]
Test(ws) == [cmd |-> "tsd", words |-> ws]

\* Tests of one request each, sent again while it may still be running.
SingleCommands == {Test(<<Start, Continue(n)>>) : n \in {3, 7, 8}}
                  \cup {Test(<<StopWord>>)}

\* They are among those the theorem about the count speaks of.
ASSUME InstanceIsSingle == SingleRequests
=============================================================================
