-------------------------------- MODULE Bench --------------------------------
(***************************************************************************)
(* From the device to the table: the notifications of UartBridge as the    *)
(* phone logs them, and benchmark.bat, which reads the log and keeps one   *)
(* row for each test.                                                      *)
(*                                                                         *)
(* Tests are numbered in the order in which they are opened.  A line stands*)
(* for its text and for the tests its value was taken from.                *)
(***************************************************************************)
EXTENDS UartBridge, SequencesExt

VARIABLES
    opened, closed,   \* the last test opened, and the last one closed
    airq,             \* the lines in the packets in flight
    script,           \* benchmark.bat: msg_check, the table and the row
    untold, unclosed, \* tests whose "Start timer", "Stop timer" got lost
    timeOf,           \* the tests m_info_t.timestamp was computed from
    bare              \* the UP tests closed without data of their own

told == <<untold, unclosed>>
timing == <<timeOf, bare>>
log == <<opened, closed, airq, script, told, timing>>
benchVars == <<uartVars, log>>

Fields == {"time", "octet", "debit", "n_packet"}
Timed == {"time", "debit"}
Empty == [f \in Fields |-> {}]

\* Reports in the order of GET_TIME.
Report == <<"time", "octet", "debit", "n_packet">>

\* What the handler puts into the packet it sends: the time carries the name
\* of the last test opened, and the debit divides its bytes by the time.
Line ==
    CASE pc = "run" -> [kind |-> "start", of |-> {opened + 1}]
      [] pc = "delay" -> [kind |-> "stop", of |-> {opened}]
      [] pc = "report" /\ cmd = "gt" ->
           [kind |-> Report[i + 1],
            of |-> IF Report[i + 1] \in Timed THEN {opened} \cup timeOf ELSE {opened}]
      [] OTHER -> [kind |-> "other", of |-> {}]

-----------------------------------------------------------------------------
(* benchmark.bat: what one line of the log does.                           *)

\* "Stop timer", of one test: the row is finished, a new one begins.
TheTest(l) == CHOOSE t \in l.of : TRUE
NewRow(s, l) ==
    [check |-> TRUE, row |-> Empty, table |-> Append(s.table, TheTest(l))]

\* Faulty variant: the script looks for "Stop timer" only.
SkipsNothing(s) == s

\* "Start timer": what follows is not about the test of the row.
Skips(s) == [s EXCEPT !.check = FALSE]

Reads(s, l) ==
    IF l.kind = "stop" THEN NewRow(s, l)
    ELSE IF l.kind = "start" THEN Skips(s)
    ELSE IF l.kind \in Fields /\ s.check THEN [s EXCEPT !.row[l.kind] = l.of]
    ELSE s

ReadsAll(lines) ==
    LET read[n \in 0 .. Len(lines)] ==
            IF n = 0 THEN script ELSE Reads(read[n - 1], lines[n])
    IN read[Len(lines)]

-----------------------------------------------------------------------------
(* The radio carries the lines in order, and drops the last ones with the  *)
(* link.                                                                   *)

Of(kind, lines) == UNION {lines[k].of : k \in {n \in DOMAIN lines : lines[n].kind = kind}}

Carries(k) ==
    /\ script' = ReadsAll(SubSeq(airq, 1, k))
    /\ airq' = IF link' THEN SubSeq(airq, k + 1, Len(airq)) ELSE <<>>
    /\ UNCHANGED opened
    /\ IF link' THEN UNCHANGED told
       ELSE LET lost == SubSeq(airq, k + 1, Len(airq)) IN
            /\ untold' = untold \cup Of("start", lost)
            /\ unclosed' = unclosed \cup Of("stop", lost)

Opens == ~running /\ running'
Closes == pc = "delay" /\ running /\ ~running'
Sends == inFlight' = inFlight + 1

\* m_info_t.timestamp: zero again after a reset; the ticks of the first data of
\* an UP test; at the end of a test the milliseconds since its start, in an UP
\* test made of what timestamp held, of whatever test that was.
KeepsTime ==
    /\ timeOf' = CASE stamp' = "unset" -> {}
                   [] stamp # "ticks" /\ stamp' = "ticks" -> {opened}
                   [] Closes /\ timerName = "tsd" -> {opened}
                   [] Closes /\ timerName = "tsu" -> timeOf \cup {opened}
                   [] OTHER -> timeOf
    /\ bare' = IF Closes /\ timerName = "tsu" /\ timeOf # {opened}
               THEN bare \cup {opened} ELSE bare

Logs ==
    /\ closed' = IF Closes THEN opened ELSE closed
    /\ KeepsTime
    /\ IF inFlight' < inFlight
       THEN \E k \in IF link' THEN {inFlight - inFlight'} ELSE 0 .. inFlight : Carries(k)
       ELSE /\ airq' = IF Sends THEN Append(airq, Line) ELSE airq
            /\ opened' = IF Opens THEN opened + 1 ELSE opened
            /\ untold' = IF Opens /\ ~Sends THEN untold \cup {opened'} ELSE untold
            /\ UNCHANGED <<script, unclosed>>

BenchInit ==
    /\ UartInit
    /\ opened = 0 /\ closed = 0 /\ airq = <<>> /\ untold = {} /\ unclosed = {}
    /\ timeOf = {} /\ bare = {}
    /\ script = [check |-> FALSE, row |-> Empty, table |-> <<>>]

BenchNext == BridgeNext /\ Logs
BenchSpec == BenchInit /\ [][BenchNext]_benchVars

-----------------------------------------------------------------------------
BenchTypeOK == TypeOK /\ LineInArray /\ Len(airq) = inFlight

\* A row has no value of a second test, but for two cases.  The phone was not
\* told that the second one began: communication_run ignores the result of
\* sending "Start timer", and the link may drop it.  Or the row's test is an UP
\* test without data: its time is made of an earlier test's time stamp.
RowOfOneTest ==
    script.table # <<>> =>
        LET t == Last(script.table) IN
        \A f \in Fields : \A v \in script.row[f] :
            v = t \/ v \in untold \/ (f \in Timed /\ t \in bare /\ v < t)

\* A test has one row at most, and the rows are in the order of the tests,
\* although the program sends itself the stop of a DOWN test again and again.
RowsInOrder ==
    \A m, n \in DOMAIN script.table : m < n => script.table[m] < script.table[n]

\* A test that has closed has its row, or its "Stop timer" is on its way or
\* was lost with the link; no shortage of packets and no UART line costs it.
ClosedIsTold ==
    closed # 0 =>
        \/ closed \in Range(script.table)
        \/ closed \in Of("stop", airq) \cup unclosed
=============================================================================
