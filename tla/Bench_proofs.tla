----------------------------- MODULE Bench_proofs -----------------------------
(***************************************************************************)
(* Proofs about UartBridge and Bench, for every packet size, number of     *)
(* transmit packets, set of commands and bound: what the table made of the *)
(* phone's log says of the tests.                                          *)
(***************************************************************************)
EXTENDS Bench, SpeedTest_proofs, WellFoundedInduction

-----------------------------------------------------------------------------
(* The serial line.                                                        *)

\* A reset begins where the device began.
LEMMA ResetTyped == IInv /\ Idle /\ Reset => IInv' /\ LineInArray'
<1> SUFFICES ASSUME IInv, Idle, Reset PROVE IInv' /\ LineInArray'
    OBVIOUS
<1>1. TypeOK'
    <2>1. "tsd" \in TestNames /\ "unset" \in Stamps /\ <<>> \in Seq(Events)
        BY DEF TestNames, Stamps
    <2>2. InfoOK' /\ NusOK' /\ SoftDeviceOK'
        BY <2>1, ZeroTyped DEF Reset, InfoOK, NusOK, SoftDeviceOK
    <2> QED
        BY <2>2, HandlerUnchanged DEF Reset, IInv, TypeOK
<1>2. LineInArray'
    BY SizeAssumption DEF Reset, LineInArray
<1> QED
    BY <1>1, <1>2 DEF Reset, Idle, IInv, HandlerInv, OwedOnlyInDownTest, BytesAccounted,
       handler, Sending

\* The invariant of SpeedTest stays true beside the serial line, and a line fits
\* its array.
LEMMA BridgeStep == IInv /\ LineInArray /\ BridgeNext => IInv' /\ LineInArray'
<1> SUFFICES ASSUME IInv, LineInArray, BridgeNext PROVE IInv' /\ LineInArray'
    OBVIOUS
<1>1. CASE Next /\ UNCHANGED index
    BY <1>1, InvariantStep DEF LineInArray
<1>2. CASE UartError
    BY <1>2, ResetTyped DEF UartError
<1>3. ASSUME NEW newline \in BOOLEAN, UartByte(newline)
      PROVE  IInv' /\ LineInArray'
    <2>1. CASE LineFails
        BY <1>3, <2>1, ResetTyped DEF LineFails, UartByte
    <2>2. ASSUME NEW n \in 0 .. SIZE - 1, Gathers(n) PROVE IInv' /\ LineInArray'
        BY <2>2, InvariantStep DEF Gathers, LineInArray
    <2>3. CASE LineIgnored
        BY <2>2, <2>3, SizeAssumption DEF LineIgnored
    <2>4. CASE LineSent
        <3>1. SoftDeviceOK'
            BY <2>4, TakeTyped DEF LineSent, IInv, TypeOK, SoftDeviceOK, air
        <3>2. TypeOK'
            BY <2>4, <3>1, InfoUnchanged, NusUnchanged, HandlerUnchanged
            DEF LineSent, IInv, TypeOK
        <3>3. (HandlerInv /\ OwedOnlyInDownTest /\ BytesAccounted)'
            BY <2>4, InfoKept DEF LineSent, handler, call
        <3>4. LineInArray'
            BY <2>4, SizeAssumption DEF LineSent, LineInArray
        <3> QED
            BY <3>2, <3>3, <3>4 DEF IInv
    <2>5. CASE ~LineEnds(newline) /\ Gathers(index + 1)
        <3>1. index + 1 \in 0 .. SIZE - 1
            BY <2>5, SizeAssumption DEF LineEnds, LineInArray
        <3> QED
            BY <2>2, <2>5, <3>1
    <2> QED
        BY <1>3, <2>1, <2>3, <2>4, <2>5 DEF UartByte
<1> QED
    BY <1>1, <1>2, <1>3 DEF BridgeNext, Uart

-----------------------------------------------------------------------------
(* What a step does to packets and tests.                                  *)

\* Packets leave together with the link or by being acknowledged, and no test
\* opens or closes then; a step of a handler adds one packet at most.
Leaves ==
    inFlight' < inFlight => UNCHANGED pc /\ (running' => running) /\ (link' \/ inFlight' = 0)

\* A test is opened and closed by the steps that send its lines; it is not closed
\* without the line, but by a reset.
Steps ==
    /\ inFlight' < inFlight \/ inFlight' \in {inFlight, inFlight + 1}
    /\ Opens => pc = "run"
    /\ Sends /\ pc = "run" => Opens
    /\ pc = "delay" => (Sends <=> Closes)
    /\ running /\ ~running' => Closes \/ stamp' = "unset"
    /\ i \in 0 .. 3 \/ pc # "report" => i' \in 0 .. 3 \/ pc' # "report"

\* A send takes one packet, if it succeeds.
LEMMA TakeOne ==
    ASSUME IInv, NEW r, Take(r)
    PROVE  inFlight' \in {inFlight, inFlight + 1} /\ (r = "success" <=> Sends)
BY DEF Take, Sends, IInv, TypeOK, SoftDeviceOK

\* Most steps touch neither.
LEMMA StepsQuiet ==
    ASSUME IInv, UNCHANGED <<inFlight, running>>, pc' # "report"
    PROVE  Leaves /\ Steps
BY DEF Leaves, Steps, Opens, Sends, Closes, IInv, TypeOK, SoftDeviceOK

\* A text or data that is no line of a test.
LEMMA StepsTake ==
    ASSUME IInv, NEW r, Take(r), UNCHANGED running, pc \notin {"run", "delay"},
           i \in 0 .. 3 \/ pc # "report" => i' \in 0 .. 3 \/ pc' # "report"
    PROVE  Leaves /\ Steps
BY DEF Leaves, Steps, Opens, Sends, Closes, IInv, TypeOK, SoftDeviceOK, Take

\* Every step of the device and its environment.
LEMMA BridgeSteps == IInv /\ BridgeNext => Leaves /\ Steps
<1> USE DEF Return, Abandon, NextWord, AtWord, AtTestWord, Idle
<1> SUFFICES ASSUME IInv, BridgeNext PROVE Leaves /\ Steps
    OBVIOUS
<1>0. inFlight \in 0 .. TxPackets /\ running \in BOOLEAN
    BY DEF IInv, TypeOK, SoftDeviceOK, InfoOK
<1>1. CASE PeerConnects \/ LinkLost \/ RadioSends
    <2>1. UNCHANGED <<running, pc, i>> /\ inFlight' \in Nat /\ inFlight' <= inFlight
          /\ (link' \/ inFlight' = 0)
        BY <1>0, <1>1, TxAssumption DEF PeerConnects, LinkLost, RadioSends, info, test,
           handler, call, air
    <2> QED
        BY <1>0, <2>1 DEF Leaves, Steps, Opens, Sends, Closes
<1>2. CASE Idle /\ Reset
    BY <1>0, <1>2 DEF Reset, handler, Leaves, Steps, Opens, Sends, Closes
<1>3. CASE UNCHANGED vars
    BY <1>0, <1>3 DEF vars, info, test, sd, handler, call, Leaves, Steps, Opens, Sends,
       Closes
<1>4. CASE LineSent /\ Idle
    BY <1>4, StepsTake DEF LineSent, info, test, handler
<1>5. ASSUME NEW b \in BOOLEAN, PeerWritesRxCccd(b) \/ PeerWritesUpCccd(b)
      PROVE  Leaves /\ Steps
    BY <1>0, <1>5 DEF PeerWritesRxCccd, PeerWritesUpCccd, info, test, handler, call,
       Leaves, Steps, Opens, Sends, Closes
<1>6. CASE NotifyUpdate
    BY <1>6, StepsTake DEF NotifyUpdate, info, test, handler
<1>7. CASE Inputs /\ ~NotifyUpdate
    BY <1>7, StepsQuiet DEF Inputs, DispatchDummyData, DispatchCommand, Run, info, test,
       sd, handler
<1>8. CASE Dispatch
    BY <1>8, StepsQuiet DEF Dispatch, DispatchLink, DispatchCccd, DispatchTxComplete,
       CallSend, info, test, handler
<1>9. CASE RunStart
    <2>1. ~running /\ running' /\ pc = "run" /\ pc' = "run"
        BY <1>9 DEF RunStart
    <2>2. inFlight' \in {inFlight, inFlight + 1}
        BY <1>9, TakeOne DEF RunStart
    <2> QED
        BY <1>0, <2>1, <2>2 DEF Leaves, Steps, Opens, Sends, Closes
<1>10. CASE RunStopNotify
    <2>1. pc = "delay" /\ running /\ pc' \in {"run", "idle"}
        BY <1>10 DEF RunStopNotify, IInv, HandlerInv
    <2>2. /\ inFlight' \in {inFlight, inFlight + 1}
          /\ StringSend(FALSE) = "success" <=> Sends
        BY <1>10, TakeOne DEF RunStopNotify
    <2>3. Sends => ~running'
        BY <1>10, <2>2 DEF RunStopNotify
    <2>4. ~Sends => running'
        BY <1>10, <2>1, <2>2 DEF RunStopNotify
    <2>5. (Sends <=> Closes) /\ ~Opens
        BY <2>1, <2>3, <2>4 DEF Closes, Opens
    <2>6. Leaves
        BY <1>0, <2>2 DEF Leaves
    <2>7. running /\ ~running' => Closes
        BY <2>1 DEF Closes
    <2> QED
        BY <2>1, <2>2, <2>5, <2>6, <2>7 DEF Steps
<1>11. CASE RunReport
    BY <1>0, <1>11 DEF RunReport, info, test, sd, Leaves, Steps, Opens, Sends, Closes
<1>12. CASE ReportLine
    <2>1. pc = "report" /\ UNCHANGED running /\ Take(StringSend(FALSE))
        BY <1>12 DEF ReportLine, info, test
    <2>2. i \in 0 .. 3 => i' \in 0 .. 3 \/ pc' # "report"
        BY <1>12 DEF ReportLine
    <2> QED
        BY <2>1, <2>2, StepsTake
<1>13. CASE SendExtra \/ SendFull
    <2>1. UNCHANGED running /\ pc \in {"extra", "full"} /\ pc' # "report"
        BY <1>13 DEF SendExtra, SendFull, test
    <2>2. inFlight' \in {inFlight, inFlight + 1}
        BY <1>0, <1>13, TakeOne DEF SendExtra, SendFull
    <2> QED
        BY <1>0, <2>1, <2>2 DEF Leaves, Steps, Opens, Sends, Closes
<1>14. CASE \/ RetryStop \/ RunEnd \/ RunWrongTimer \/ RunStartAgain
            \/ RunStopNotRunning \/ RunStopLater \/ RunStopDelay
            \/ RunContinue \/ RunContinueIgnored
    BY <1>14, StepsQuiet DEF RetryStop, Run, RunEnd, RunWrongTimer, RunStartAgain,
       RunStopNotRunning, RunStopLater, RunStopDelay, RunContinue, CallSend,
       RunContinueIgnored, info, test, sd
<1>15. CASE SendSuspend \/ SendDone
    <2>1. pc' # "report"
        BY <1>15 DEF SendSuspend, SendDone, IInv, TypeOK, HandlerOK
    <2> QED
        BY <1>15, <2>1, StepsQuiet DEF SendSuspend, SendDone, test, sd
<1> QED
    BY <1>1, <1>2, <1>3, <1>4, <1>5, <1>6, <1>7, <1>8, <1>9, <1>10, <1>11, <1>12,
       <1>13, <1>14, <1>15
    DEF BridgeNext, Uart, UartError, UartByte, LineFails, LineIgnored, Gathers, Next,
        Environment, Inputs, HandlerStep

-----------------------------------------------------------------------------
(* Induction on the natural numbers, as a fact about sets.                 *)

\* A set of natural numbers has a least one.
LEMMA LeastOfSet ==
    ASSUME NEW T \in SUBSET Nat, T # {}
    PROVE  \E x \in T : \A y \in T : x <= y
<1>1. IsWellFoundedOn(OpToRel(<, Nat), Nat)
    BY NatLessThanWellFounded
<1>2. \E x \in T : \A y \in T : <<y, x>> \notin OpToRel(<, Nat)
    BY <1>1, WFMin, Zenon
<1>3. \A x, y \in Nat : y < x => <<y, x>> \in OpToRel(<, Nat)
    BY Zenon DEF OpToRel
<1>4. \E x \in T : \A y \in T : ~(y < x)
    BY <1>2, <1>3, Zenon
<1> QED
    BY <1>4

\* What holds of zero and of each next number holds of all.
LEMMA SetInduction ==
    ASSUME NEW T \in SUBSET Nat, 0 \in T, \A n \in T : n + 1 \in T
    PROVE  T = Nat
<1> SUFFICES ASSUME Nat \ T # {} PROVE FALSE
    OBVIOUS
<1>1. PICK x \in Nat \ T : \A y \in Nat \ T : x <= y
    BY LeastOfSet
<1>2. x - 1 \in Nat /\ x - 1 \in T
    BY <1>1
<1> QED
    BY <1>1, <1>2

-----------------------------------------------------------------------------
(* The lines in flight and the table.                                      *)

Kinds == {"start", "stop", "other"} \cup Fields
Lines == [kind : Kinds, of : SUBSET Nat]
Scripts == [check : BOOLEAN, row : [Fields -> SUBSET Nat], table : Seq(Nat)]

\* Behind the end of test t a value of this kind may come from test u: u is not the
\* older one, but for the times behind the end of an UP test without data.
After(kind, t, u) == t <= u \/ (kind \in Timed /\ t \in bare)

\* The lines of a queue: of one test each, but for the reports; no test of the
\* future; those of a kind in the order of the tests; and behind the end of a test
\* the beginning of each later one, unless it got lost.
LinesTyped(q) ==
    /\ q \in Seq(Lines)
    /\ \A j \in 1 .. Len(q) : q[j].kind \in {"start", "stop"} => \E t \in Nat : q[j].of = {t}
    /\ \A j \in 1 .. Len(q) : \A t \in q[j].of :
        t <= opened /\ (q[j].kind = "stop" => t <= closed)

LinesInOrder(q) ==
    \A j, l \in 1 .. Len(q) : j < l => \A t \in q[j].of, u \in q[l].of :
        /\ q[j].kind = "stop" /\ q[l].kind = "stop" => t < u
        /\ q[j].kind = "stop" /\ q[l].kind \in Fields => After(q[l].kind, t, u)
        /\ q[j].kind \in Fields /\ q[l].kind = "start" => t < u

LaterBegin(q) ==
    \A j \in 1 .. Len(q) : q[j].kind = "stop" => \A t \in q[j].of, v \in 1 .. opened :
        t < v => \/ v \in untold
                 \/ \E l \in 1 .. Len(q) : j < l /\ q[l].kind = "start" /\ v \in q[l].of

QueueOK(q) == LinesTyped(q) /\ LinesInOrder(q) /\ LaterBegin(q)

\* What the script s says once n lines of the queue q are read: the rows are in
\* order, also with those that come; while it reads values, each later test begins
\* behind them or got lost; the row is of one test, but for tests that got lost
\* and the times of an UP test without data; the last test is told.
RowsOK(s, q, n) ==
    /\ \A m, k \in 1 .. Len(s.table) : m < k => s.table[m] < s.table[k]
    /\ \A m \in 1 .. Len(s.table) : s.table[m] <= closed
    /\ \A m \in 1 .. Len(s.table), j \in n + 1 .. Len(q) : \A t \in q[j].of :
        /\ q[j].kind = "stop" => s.table[m] < t
        /\ q[j].kind \in Fields => After(q[j].kind, s.table[m], t)

Reading(s, q, n) ==
    s.check =>
        /\ s.table # <<>>
        /\ \A v \in 1 .. opened :
            \/ v \in untold \/ v <= Last(s.table)
            \/ \E j \in n + 1 .. Len(q) : q[j].kind = "start" /\ v \in q[j].of

OneTest(s) ==
    s.table # <<>> => \A f \in Fields : \A v \in s.row[f] :
        \/ v = Last(s.table) \/ v \in untold
        \/ f \in Timed /\ Last(s.table) \in bare /\ v < Last(s.table)

LastTold(s, q, n) ==
    closed # 0 =>
        \/ \E m \in 1 .. Len(s.table) : s.table[m] = closed
        \/ \E j \in n + 1 .. Len(q) : q[j].kind = "stop" /\ closed \in q[j].of
        \/ closed \in unclosed

ScriptOK(s, q, n) ==
    s \in Scripts /\ RowsOK(s, q, n) /\ Reading(s, q, n) /\ OneTest(s) /\ LastTold(s, q, n)

-----------------------------------------------------------------------------
(* The script reads a line.                                                *)

\* What becomes of the state of the script.
LEMMA ReadsFacts ==
    ASSUME NEW s \in Scripts, NEW l \in Lines
    PROVE  /\ l.kind = "stop" /\ l.of # {} =>
               /\ Reads(s, l) = [check |-> TRUE, row |-> Empty,
                                 table |-> Append(s.table, TheTest(l))]
               /\ TheTest(l) \in l.of /\ Empty \in [Fields -> SUBSET Nat]
           /\ l.kind = "start" => Reads(s, l) = [s EXCEPT !.check = FALSE]
           /\ l.kind \in Fields /\ s.check =>
               /\ Reads(s, l).check = s.check /\ Reads(s, l).table = s.table
               /\ Reads(s, l).row = [s.row EXCEPT ![l.kind] = l.of]
               /\ Reads(s, l) \in Scripts
           /\ l.kind = "other" \/ (l.kind \in Fields /\ ~s.check) => Reads(s, l) = s
<1>1. ASSUME l.kind = "stop", l.of # {}
      PROVE  /\ Reads(s, l) = [check |-> TRUE, row |-> Empty,
                               table |-> Append(s.table, TheTest(l))]
             /\ TheTest(l) \in l.of /\ Empty \in [Fields -> SUBSET Nat]
    <2>1. TheTest(l) \in l.of
        BY <1>1, Zenon DEF TheTest
    <2>2. Empty \in [Fields -> SUBSET Nat]
        BY DEF Empty
    <2> QED
        BY <1>1, <2>1, <2>2 DEF Reads, NewRow
<1>2. l.kind = "start" => Reads(s, l) = [s EXCEPT !.check = FALSE]
    BY DEF Reads, Skips
<1>3. ASSUME l.kind \in Fields, s.check
      PROVE  /\ Reads(s, l).check = s.check /\ Reads(s, l).table = s.table
             /\ Reads(s, l).row = [s.row EXCEPT ![l.kind] = l.of]
             /\ Reads(s, l) \in Scripts
    <2>1. Reads(s, l) = [s EXCEPT !.row[l.kind] = l.of]
        BY <1>3 DEF Reads, Fields
    <2> QED
        BY <1>3, <2>1 DEF Scripts, Lines
<1>4. l.kind = "other" \/ (l.kind \in Fields /\ ~s.check) => Reads(s, l) = s
    BY DEF Reads, Fields
<1> QED
    BY <1>1, <1>2, <1>3, <1>4

\* The "Stop timer" of test t.
LEMMA ReadsStop ==
    ASSUME NEW s \in Scripts, NEW l \in Lines, NEW t \in Nat, l.kind = "stop", l.of = {t}
    PROVE  /\ Reads(s, l) = [check |-> TRUE, row |-> Empty, table |-> Append(s.table, t)]
           /\ Empty \in [Fields -> SUBSET Nat]
<1>1. /\ Reads(s, l) = [check |-> TRUE, row |-> Empty, table |-> Append(s.table, TheTest(l))]
      /\ TheTest(l) \in {t} /\ Empty \in [Fields -> SUBSET Nat]
    BY ReadsFacts
<1>2. TheTest(l) = t
    BY <1>1
<1> QED
    BY <1>1, <1>2, Zenon

\* A row is put behind the others.
LEMMA RowAdded ==
    ASSUME NEW rows \in Seq(Nat), NEW t \in Nat
    PROVE  /\ Append(rows, t) \in Seq(Nat) /\ Len(Append(rows, t)) = Len(rows) + 1
           /\ \A m \in 1 .. Len(rows) : Append(rows, t)[m] = rows[m]
           /\ Append(rows, t)[Len(rows) + 1] = t /\ Append(rows, t) # <<>>
<1>1. Append(rows, t) \in Seq(Nat) /\ Len(Append(rows, t)) = Len(rows) + 1
    OBVIOUS
<1>2. \A m \in 1 .. Len(rows) : Append(rows, t)[m] = rows[m]
    OBVIOUS
<1>3. Append(rows, t)[Len(rows) + 1] = t /\ Append(rows, t) # <<>>
    OBVIOUS
<1> QED
    BY <1>1, <1>2, <1>3

\* The state of the script is right after each line.
LEMMA ReadOne ==
    ASSUME opened \in Nat, closed \in Nat, NEW q, QueueOK(q), NEW s,
           NEW n \in 0 .. Len(q) - 1, ScriptOK(s, q, n)
    PROVE  ScriptOK(Reads(s, q[n + 1]), q, n + 1)
<1> DEFINE l == q[n + 1]
           r == Reads(s, l)
<1>0. /\ q \in Seq(Lines) /\ Len(q) \in Nat /\ n + 1 \in 1 .. Len(q) /\ l \in Lines
      /\ s \in Scripts /\ s.table \in Seq(Nat) /\ Len(s.table) \in Nat
      /\ \A m \in 1 .. Len(s.table) : s.table[m] \in Nat
    BY DEF QueueOK, LinesTyped, ScriptOK, Scripts
<1>1. \A j \in n + 2 .. Len(q) : j \in n + 1 .. Len(q) /\ j \in 1 .. Len(q) /\ n + 1 < j
    BY <1>0
<1>2. \A j \in n + 1 .. Len(q) : j = n + 1 \/ j \in n + 2 .. Len(q)
    BY <1>0
<1>3. CASE l.kind = "stop"
    <2>1. PICK t \in Nat : l.of = {t}
        BY <1>0, <1>3 DEF QueueOK, LinesTyped
    <2>2. /\ r.check = TRUE /\ r.row = Empty /\ r.table = Append(s.table, t)
          /\ Empty \in [Fields -> SUBSET Nat]
          /\ r = [check |-> TRUE, row |-> Empty, table |-> Append(s.table, t)]
        <3>1. /\ r = [check |-> TRUE, row |-> Empty, table |-> Append(s.table, t)]
              /\ Empty \in [Fields -> SUBSET Nat]
            BY <1>0, <1>3, <2>1, ReadsStop
        <3> HIDE DEF r, l
        <3> QED
            BY <3>1
    <2> HIDE DEF r
    <2>3. /\ r \in Scripts /\ Len(r.table) = Len(s.table) + 1
          /\ \A m \in 1 .. Len(s.table) : r.table[m] = s.table[m]
          /\ r.table[Len(s.table) + 1] = t /\ r.table # <<>>
        <3> DEFINE rows == s.table
        <3>1. rows \in Seq(Nat) /\ r.table = Append(rows, t)
            BY <1>0, <2>2
        <3>2. r \in Scripts
            <4>1. Append(s.table, t) \in Seq(Nat)
                BY <3>1, RowAdded
            <4> QED
                BY <2>2, <4>1 DEF Scripts
        <3> HIDE DEF rows
        <3>3. /\ Len(r.table) = Len(rows) + 1
              /\ \A m \in 1 .. Len(rows) : r.table[m] = rows[m]
              /\ r.table[Len(rows) + 1] = t /\ r.table # <<>>
            <4>1. /\ Len(Append(rows, t)) = Len(rows) + 1
                  /\ \A m \in 1 .. Len(rows) : Append(rows, t)[m] = rows[m]
                  /\ Append(rows, t)[Len(rows) + 1] = t /\ Append(rows, t) # <<>>
                BY <3>1, RowAdded
            <4> QED
                BY <3>1, <4>1, Zenon
        <3> QED
            BY <3>2, <3>3 DEF rows
    <2>4. Last(r.table) = t
        BY <1>0, <2>3 DEF Last
    <2>5. \A m \in 1 .. Len(r.table) : m \in 1 .. Len(s.table) \/ m = Len(s.table) + 1
        BY <1>0, <2>3
    <2>6. t <= closed /\ \A m \in 1 .. Len(s.table) : s.table[m] < t
        <3>1. t <= closed
            BY <1>0, <1>3, <2>1 DEF QueueOK, LinesTyped
        <3>2. n + 1 \in n + 1 .. Len(q) /\ t \in q[n + 1].of /\ q[n + 1].kind = "stop"
            BY <1>0, <1>3, <2>1
        <3> QED
            BY <3>1, <3>2 DEF ScriptOK, RowsOK
    <2>7. \A j \in n + 2 .. Len(q) : \A u \in q[j].of :
            /\ q[j].kind = "stop" => t < u
            /\ q[j].kind \in Fields => After(q[j].kind, t, u)
        BY <1>0, <1>1, <1>3, <2>1 DEF QueueOK, LinesInOrder
    <2>8. RowsOK(r, q, n + 1)
        <3>1. ASSUME NEW m \in 1 .. Len(r.table), NEW k \in 1 .. Len(r.table), m < k
              PROVE  r.table[m] < r.table[k]
            <4>1. m \in 1 .. Len(s.table) /\ r.table[m] = s.table[m]
                BY <1>0, <2>3, <2>5, <3>1
            <4>2. CASE k \in 1 .. Len(s.table)
                BY <2>3, <3>1, <4>1, <4>2 DEF ScriptOK, RowsOK
            <4>3. CASE k = Len(s.table) + 1
                BY <2>3, <2>6, <4>1, <4>3
            <4> QED
                BY <2>5, <4>2, <4>3
        <3>2. \A m \in 1 .. Len(r.table) : r.table[m] <= closed
            BY <2>3, <2>5, <2>6 DEF ScriptOK, RowsOK
        <3>3. \A m \in 1 .. Len(r.table), j \in n + 2 .. Len(q) : \A u \in q[j].of :
                /\ q[j].kind = "stop" => r.table[m] < u
                /\ q[j].kind \in Fields => After(q[j].kind, r.table[m], u)
            BY <1>1, <2>3, <2>5, <2>7 DEF ScriptOK, RowsOK
        <3> QED
            BY <3>1, <3>2, <3>3, (n + 1) + 1 = n + 2 DEF RowsOK
    <2>9. Reading(r, q, n + 1)
        <3>1. ASSUME NEW v \in 1 .. opened
              PROVE  \/ v \in untold \/ v <= t
                     \/ \E j \in n + 2 .. Len(q) : q[j].kind = "start" /\ v \in q[j].of
            <4>1. CASE t < v
                <5>1. \/ v \in untold
                      \/ \E j \in 1 .. Len(q) : n + 1 < j /\ q[j].kind = "start" /\ v \in q[j].of
                    BY <1>0, <1>3, <2>1, <4>1 DEF QueueOK, LaterBegin
                <5> QED
                    BY <1>0, <5>1
            <4> QED
                BY <2>1, <3>1, <4>1
        <3> QED
            BY <2>3, <2>4, <3>1, (n + 1) + 1 = n + 2 DEF Reading
    <2>10. OneTest(r)
        BY <2>2 DEF OneTest, Empty
    <2>11. LastTold(r, q, n + 1)
        <3>1. CASE \E m \in 1 .. Len(s.table) : s.table[m] = closed
            <4>1. PICK m \in 1 .. Len(s.table) : s.table[m] = closed
                BY <3>1
            <4>2. m \in 1 .. Len(r.table)
                <5>1. Len(r.table) = Len(s.table) + 1 /\ Len(s.table) \in Nat
                    BY <1>0, <2>3
                <5> HIDE DEF l
                <5> QED
                    BY <4>1, <5>1
            <4>3. r.table[m] = closed
                BY <2>3, <4>1
            <4> QED
                BY <4>2, <4>3 DEF LastTold
        <3>2. CASE closed = t
            <4>1. Len(r.table) \in 1 .. Len(r.table) /\ r.table[Len(r.table)] = closed
                BY <1>0, <2>3, <3>2
            <4> QED
                BY <4>1 DEF LastTold
        <3>3. CASE \E j \in n + 2 .. Len(q) : q[j].kind = "stop" /\ closed \in q[j].of
            BY <3>3, (n + 1) + 1 = n + 2 DEF LastTold
        <3> QED
            BY <1>2, <2>1, <3>1, <3>2, <3>3 DEF ScriptOK, LastTold
    <2> QED
        BY <2>3, <2>8, <2>9, <2>10, <2>11 DEF ScriptOK, r
<1>4. CASE l.kind # "stop"
    <2>1. /\ r \in Scripts /\ r.table = s.table
          /\ r.check => s.check /\ l.kind # "start"
          /\ r.row = s.row \/ (s.check /\ l.kind \in Fields
                               /\ r.row = [s.row EXCEPT ![l.kind] = l.of])
        <3>1. CASE l.kind = "start"
            <4>1. r = [s EXCEPT !.check = FALSE]
                BY <1>0, <3>1, ReadsFacts
            <4> QED
                BY <1>0, <4>1 DEF Scripts
        <3>2. CASE l.kind = "other" \/ (l.kind \in Fields /\ ~s.check)
            <4>1. r = s /\ l.kind # "start"
                BY <1>0, <3>2, ReadsFacts DEF Fields
            <4> QED
                BY <1>0, <4>1
        <3>3. CASE l.kind \in Fields /\ s.check
            <4>1. /\ r \in Scripts /\ r.table = s.table /\ r.check = s.check
                  /\ r.row = [s.row EXCEPT ![l.kind] = l.of]
                BY <1>0, <3>3, ReadsFacts
            <4> QED
                BY <3>3, <4>1 DEF Fields
        <3>4. l.kind \in Kinds
            BY <1>0 DEF Lines
        <3> QED
            BY <1>4, <3>1, <3>2, <3>3, <3>4 DEF Kinds
    <2> HIDE DEF r
    <2>2. RowsOK(r, q, n + 1)
        BY <1>1, <2>1, (n + 1) + 1 = n + 2 DEF ScriptOK, RowsOK
    <2>3. Reading(r, q, n + 1)
        BY <1>2, <2>1, (n + 1) + 1 = n + 2 DEF ScriptOK, Reading
    <2>4. LastTold(r, q, n + 1)
        BY <1>2, <1>4, <2>1, (n + 1) + 1 = n + 2 DEF ScriptOK, LastTold
    <2>5. OneTest(r)
        <3>1. CASE r.row = s.row
            BY <2>1, <3>1 DEF ScriptOK, OneTest
        <3>2. CASE s.check /\ l.kind \in Fields /\ r.row = [s.row EXCEPT ![l.kind] = l.of]
            <4>1. ASSUME NEW v \in l.of
                  PROVE  \/ v = Last(s.table) \/ v \in untold
                         \/ l.kind \in Timed /\ Last(s.table) \in bare /\ v < Last(s.table)
                <5>1. v \in Nat /\ v <= opened /\ s.table # <<>>
                    BY <1>0, <3>2 DEF QueueOK, LinesTyped, Lines, ScriptOK, Reading
                <5>2. Len(s.table) \in 1 .. Len(s.table) /\ Last(s.table) = s.table[Len(s.table)]
                    BY <1>0, <5>1 DEF Last
                <5>3. Last(s.table) \in Nat /\ After(l.kind, Last(s.table), v)
                    BY <1>0, <3>2, <5>2 DEF ScriptOK, RowsOK
                <5>4. CASE v # 0 /\ v \notin untold
                    <6>1. v \in 1 .. opened
                        BY <5>1, <5>4
                    <6>2. ~\E j \in n + 1 .. Len(q) : q[j].kind = "start" /\ v \in q[j].of
                        <7>1. l.kind # "start"
                            BY <3>2 DEF Fields
                        <7>2. ASSUME NEW j \in n + 2 .. Len(q), q[j].kind = "start", v \in q[j].of
                              PROVE  v < v
                            BY <1>0, <1>1, <3>2, <7>2 DEF QueueOK, LinesInOrder
                        <7> QED
                            BY <1>2, <5>1, <7>1, <7>2
                    <6>3. v <= Last(s.table)
                        BY <3>2, <5>4, <6>1, <6>2 DEF ScriptOK, Reading
                    <6> QED
                        BY <5>1, <5>3, <6>3 DEF After
                <5> QED
                    BY <5>1, <5>3, <5>4 DEF After
            <4>2. s.row \in [Fields -> SUBSET Nat]
                BY <1>0 DEF Scripts
            <4> QED
                BY <2>1, <3>2, <4>1, <4>2 DEF ScriptOK, OneTest
        <3> QED
            BY <2>1, <3>1, <3>2
    <2> QED
        BY <2>1, <2>2, <2>3, <2>4, <2>5 DEF ScriptOK, r
<1> QED
    BY <1>3, <1>4

\* The script reads one line after the other: the recursive function of ReadsAll
\* exists and obeys its equations.
LEMMA ReadsAllUnrolled ==
    ASSUME NEW lines, Len(lines) \in Nat
    PROVE  \E g : /\ ReadsAll(lines) = g[Len(lines)]
                 /\ g[0] = script
                 /\ \A n \in 1 .. Len(lines) : g[n] = Reads(g[n - 1], lines[n])
<1> DEFINE Body(g, n) == IF n = 0 THEN script ELSE Reads(g[n - 1], lines[n])
           Graph(g, k) == g = [n \in 0 .. k |-> Body(g, n)]
           T == {k \in Nat : \E g : Graph(g, k)}
<1>1. 0 \in T
    <2>1. Graph([n \in 0 .. 0 |-> script], 0)
        OBVIOUS
    <2> QED
        BY <2>1
<1>2. ASSUME NEW k \in T PROVE k + 1 \in T
    <2>1. PICK g : Graph(g, k)
        OBVIOUS
    <2> DEFINE h == [n \in 0 .. k + 1 |-> IF n = k + 1 THEN Reads(g[k], lines[k + 1]) ELSE g[n]]
    <2>2. ASSUME NEW n \in 0 .. k + 1 PROVE h[n] = Body(h, n)
        <3>1. CASE n = k + 1
            <4>1. n # 0 /\ n - 1 = k /\ k \in 0 .. k + 1 /\ k # k + 1
                BY <3>1
            <4>2. h[n - 1] = g[k] /\ h[n] = Reads(g[k], lines[k + 1])
                BY <3>1, <4>1
            <4> QED
                BY <3>1, <4>1, <4>2
        <3>2. CASE n # k + 1
            <4>1. n \in 0 .. k /\ h[n] = g[n]
                BY <3>2
            <4>2. g[n] = Body(g, n)
                BY <2>1, <4>1
            <4>3. n # 0 => h[n - 1] = g[n - 1]
                BY <4>1
            <4> QED
                BY <4>1, <4>2, <4>3
        <3> QED
            BY <3>1, <3>2
    <2>3. Graph(h, k + 1)
        <3>1. h = [n \in 0 .. k + 1 |-> h[n]]
            OBVIOUS
        <3> HIDE DEF h
        <3> QED
            BY <2>2, <3>1
    <2> HIDE DEF h
    <2>4. \E f : Graph(f, k + 1)
        BY <2>3
    <2> QED
        BY <2>4, k + 1 \in Nat
<1>3. Len(lines) \in T
    <2> HIDE DEF T
    <2>1. T \in SUBSET Nat
        BY DEF T
    <2> QED
        BY <1>1, <1>2, <2>1, SetInduction
<1> DEFINE r == CHOOSE g : Graph(g, Len(lines))
<1>4. Graph(r, Len(lines))
    BY <1>3
<1>5. ReadsAll(lines) = r[Len(lines)]
    BY Zenon DEF ReadsAll
<1> HIDE DEF r
<1>6. r[0] = script /\ \A n \in 1 .. Len(lines) : r[n] = Reads(r[n - 1], lines[n])
    <2>1. \A n \in 0 .. Len(lines) : r[n] = Body(r, n)
        BY <1>4
    <2> QED
        BY <2>1
<1> QED
    BY <1>5, <1>6

\* The state of the script is right after the lines of a connection event.
LEMMA ReadsAllOK ==
    ASSUME opened \in Nat, closed \in Nat, QueueOK(airq), ScriptOK(script, airq, 0),
           NEW k \in 0 .. Len(airq)
    PROVE  ScriptOK(ReadsAll(SubSeq(airq, 1, k)), airq, k)
<1> DEFINE lines == SubSeq(airq, 1, k)
<1>0. airq \in Seq(Lines) /\ Len(airq) \in Nat /\ k \in Nat
    BY DEF QueueOK, LinesTyped
<1>1. Len(lines) = k /\ \A n \in 1 .. k : lines[n] = airq[n]
    BY <1>0
<1> HIDE DEF lines
<1>2. PICK g : /\ ReadsAll(lines) = g[k] /\ g[0] = script
               /\ \A n \in 1 .. k : g[n] = Reads(g[n - 1], airq[n])
    BY <1>0, <1>1, ReadsAllUnrolled
<1> DEFINE T == {n \in Nat : n <= k => ScriptOK(g[n], airq, n)}
<1>3. 0 \in T
    BY <1>2
<1>4. ASSUME NEW n \in T PROVE n + 1 \in T
    <2> SUFFICES ASSUME n + 1 <= k PROVE ScriptOK(g[n + 1], airq, n + 1)
        OBVIOUS
    <2>1. n \in 0 .. Len(airq) - 1 /\ ScriptOK(g[n], airq, n)
        BY <1>0
    <2>2. n + 1 \in 1 .. k /\ (n + 1) - 1 = n
        BY <1>0
    <2>3. g[n + 1] = Reads(g[n], airq[n + 1])
        BY <1>2, <2>2
    <2> QED
        BY <2>1, <2>3, ReadOne
<1>5. k \in T
    <2> HIDE DEF T
    <2>1. T \in SUBSET Nat
        BY DEF T
    <2> QED
        BY <1>0, <1>3, <1>4, <2>1, SetInduction
<1> QED
    BY <1>2, <1>5 DEF lines

-----------------------------------------------------------------------------
(* The lines in flight change.                                             *)

\* The tests that the lines of a kind are about.
LEMMA InOf ==
    ASSUME NEW kind, NEW q, Len(q) \in Nat, q \in Seq(Lines), NEW v
    PROVE  v \in Of(kind, q) <=> \E j \in 1 .. Len(q) : q[j].kind = kind /\ v \in q[j].of
<1>1. DOMAIN q = 1 .. Len(q)
    OBVIOUS
<1> QED
    BY <1>1, Zenon DEF Of

\* A connection event: the phone gets the first k lines.
LEMMA Arrive ==
    ASSUME opened \in Nat, closed \in Nat, QueueOK(airq), ScriptOK(script, airq, 0),
           NEW k \in 0 .. Len(airq), script' = ReadsAll(SubSeq(airq, 1, k)),
           airq' = SubSeq(airq, k + 1, Len(airq)), UNCHANGED <<opened, closed, told, bare>>
    PROVE  QueueOK(airq)' /\ ScriptOK(script, airq, 0)'
<1> DEFINE q == airq'
<1>0. ScriptOK(script', airq, k) /\ UNCHANGED <<untold, unclosed>>
    BY ReadsAllOK DEF told
<1>1. /\ airq \in Seq(Lines) /\ Len(airq) \in Nat /\ k \in Nat
      /\ q \in Seq(Lines) /\ Len(q) = Len(airq) - k /\ Len(q) \in Nat
      /\ \A j \in 1 .. Len(q) : j + k \in k + 1 .. Len(airq) /\ q[j] = airq[j + k]
    BY DEF QueueOK, LinesTyped
<1> HIDE DEF q
<1>2. /\ \A j \in 1 .. Len(q) : j + k \in 1 .. Len(airq)
      /\ \A j \in k + 1 .. Len(airq) : j - k \in 1 .. Len(q) /\ q[j - k] = airq[j]
    BY <1>1
<1>3. LinesTyped(airq)'
    <2>1. ASSUME NEW j \in 1 .. Len(q)
          PROVE  /\ q[j].kind \in {"start", "stop"} => \E t \in Nat : q[j].of = {t}
                 /\ \A t \in q[j].of : t <= opened /\ (q[j].kind = "stop" => t <= closed)
        <3>1. j + k \in 1 .. Len(airq) /\ q[j] = airq[j + k]
            BY <1>1, <1>2
        <3> QED
            BY <3>1 DEF QueueOK, LinesTyped
    <2> QED
        BY <1>1, <2>1 DEF LinesTyped, q
<1>4. LinesInOrder(airq)'
    <2>1. ASSUME NEW j \in 1 .. Len(q), NEW l \in 1 .. Len(q), j < l,
                 NEW t \in q[j].of, NEW u \in q[l].of
          PROVE  /\ q[j].kind = "stop" /\ q[l].kind = "stop" => t < u
                 /\ q[j].kind = "stop" /\ q[l].kind \in Fields => After(q[l].kind, t, u)
                 /\ q[j].kind \in Fields /\ q[l].kind = "start" => t < u
        <3>1. j + k \in 1 .. Len(airq) /\ l + k \in 1 .. Len(airq) /\ j + k < l + k
            BY <1>1, <1>2, <2>1
        <3>2. q[j] = airq[j + k] /\ q[l] = airq[l + k]
            BY <1>1
        <3> QED
            BY <2>1, <3>1, <3>2 DEF QueueOK, LinesInOrder
    <2> QED
        BY <2>1 DEF LinesInOrder, After, q
<1>5. LaterBegin(airq)'
    <2>1. ASSUME NEW j \in 1 .. Len(q), q[j].kind = "stop", NEW t \in q[j].of,
                 NEW v \in 1 .. opened, t < v, v \notin untold
          PROVE  \E l \in 1 .. Len(q) : j < l /\ q[l].kind = "start" /\ v \in q[l].of
        <3>1. PICK l \in 1 .. Len(airq) :
                j + k < l /\ airq[l].kind = "start" /\ v \in airq[l].of
            BY <1>1, <1>2, <2>1 DEF QueueOK, LaterBegin
        <3>2. l \in k + 1 .. Len(airq) /\ j < l - k
            BY <1>1, <3>1
        <3>3. l - k \in 1 .. Len(q) /\ q[l - k] = airq[l]
            BY <1>2, <3>2
        <3> QED
            BY <3>1, <3>2, <3>3
    <2>2. opened' = opened /\ untold' = untold
        BY <1>0
    <2> QED
        BY <2>1, <2>2 DEF LaterBegin, q
<1>6. RowsOK(script, airq, 0)'
    BY <1>0, <1>1 DEF ScriptOK, RowsOK, After, q
<1>7. Reading(script, airq, 0)'
    <2>1. ASSUME NEW v, \E j \in k + 1 .. Len(airq) : airq[j].kind = "start" /\ v \in airq[j].of
          PROVE  \E j \in 0 + 1 .. Len(q) : q[j].kind = "start" /\ v \in q[j].of
        <3>1. PICK j \in k + 1 .. Len(airq) : airq[j].kind = "start" /\ v \in airq[j].of
            BY <2>1
        <3>2. j - k \in 0 + 1 .. Len(q) /\ q[j - k] = airq[j]
            BY <1>2
        <3> QED
            BY <3>1, <3>2
    <2> QED
        BY <1>0, <2>1 DEF ScriptOK, Reading, q
<1>8. LastTold(script, airq, 0)'
    <2>1. ASSUME NEW v, \E j \in k + 1 .. Len(airq) : airq[j].kind = "stop" /\ v \in airq[j].of
          PROVE  \E j \in 0 + 1 .. Len(q) : q[j].kind = "stop" /\ v \in q[j].of
        <3>1. PICK j \in k + 1 .. Len(airq) : airq[j].kind = "stop" /\ v \in airq[j].of
            BY <2>1
        <3>2. j - k \in 0 + 1 .. Len(q) /\ q[j - k] = airq[j]
            BY <1>2
        <3> QED
            BY <3>1, <3>2
    <2> QED
        BY <1>0, <2>1 DEF ScriptOK, LastTold, q
<1> QED
    BY <1>0, <1>3, <1>4, <1>5, <1>6, <1>7, <1>8 DEF QueueOK, ScriptOK, OneTest

\* The link goes: the phone gets the first k lines, the others are lost.
LEMMA Lose ==
    ASSUME opened \in Nat, closed \in Nat, QueueOK(airq), ScriptOK(script, airq, 0),
           NEW k \in 0 .. Len(airq), script' = ReadsAll(SubSeq(airq, 1, k)),
           airq' = <<>>, UNCHANGED <<opened, closed, bare>>,
           untold' = untold \cup Of("start", SubSeq(airq, k + 1, Len(airq))),
           unclosed' = unclosed \cup Of("stop", SubSeq(airq, k + 1, Len(airq)))
    PROVE  QueueOK(airq)' /\ ScriptOK(script, airq, 0)'
<1> DEFINE lost == SubSeq(airq, k + 1, Len(airq))
<1>0. ScriptOK(script', airq, k)
    BY ReadsAllOK
<1>1. /\ Len(airq) \in Nat /\ lost \in Seq(Lines) /\ Len(lost) \in Nat
      /\ \A j \in k + 1 .. Len(airq) : j - k \in 1 .. Len(lost) /\ lost[j - k] = airq[j]
    <2>1. airq \in Seq(Lines) /\ Len(airq) \in Nat
        BY DEF QueueOK, LinesTyped
    <2>2. lost \in Seq(Lines) /\ Len(lost) = Len(airq) - k
          /\ \A j \in 1 .. Len(lost) : lost[j] = airq[j + k]
        BY <2>1
    <2> HIDE DEF lost
    <2> QED
        BY <2>1, <2>2
<1> HIDE DEF lost
<1>2. ASSUME NEW kind, NEW v,
             \E j \in k + 1 .. Len(airq) : airq[j].kind = kind /\ v \in airq[j].of
      PROVE  v \in Of(kind, lost)
    BY <1>1, <1>2, InOf
<1>3. QueueOK(airq)'
    <2>1. airq' \in Seq(Lines) /\ Len(airq') = 0 /\ 1 .. Len(airq') = {}
        OBVIOUS
    <2> QED
        BY <2>1 DEF QueueOK, LinesTyped, LinesInOrder, LaterBegin
<1>4. Len(airq') = 0 /\ 0 + 1 .. Len(airq') = {}
    OBVIOUS
<1>5. RowsOK(script, airq, 0)'
    BY <1>0, <1>4 DEF ScriptOK, RowsOK
<1>6. Reading(script, airq, 0)'
    BY <1>0, <1>2 DEF ScriptOK, Reading, lost
<1>7. LastTold(script, airq, 0)'
    BY <1>0, <1>2 DEF ScriptOK, LastTold, lost
<1>8. OneTest(script)'
    BY <1>0 DEF ScriptOK, OneTest
<1> QED
    BY <1>0, <1>3, <1>5, <1>6, <1>7, <1>8 DEF ScriptOK

\* A line is about tests.
LEMMA OfTests ==
    ASSUME NEW q \in Seq(Lines), NEW j \in 1 .. Len(q)
    PROVE  q[j] \in Lines /\ q[j].of \subseteq Nat
<1>1. q[j] \in Lines
    OBVIOUS
<1> QED
    BY <1>1 DEF Lines

\* A test begins whose line got lost, or nothing happens.
LEMMA Unsaid ==
    ASSUME opened \in Nat, opened' \in Nat, opened <= opened',
           QueueOK(airq), ScriptOK(script, airq, 0),
           UNCHANGED <<airq, script, closed, unclosed, bare>>, untold \subseteq untold',
           \A v \in 1 .. opened' : v <= opened \/ v \in untold'
    PROVE  QueueOK(airq)' /\ ScriptOK(script, airq, 0)'
<1>1. LinesTyped(airq)'
    <2>1. \A j \in 1 .. Len(airq) : \A t \in airq[j].of : t \in Nat
        BY OfTests DEF QueueOK, LinesTyped
    <2>2. \A j \in 1 .. Len(airq) : \A t \in airq[j].of : t <= opened'
        BY <2>1 DEF QueueOK, LinesTyped
    <2> QED
        BY <2>2 DEF QueueOK, LinesTyped
<1>2. \A v \in 1 .. opened' : v \in 1 .. opened \/ v \in untold'
    OBVIOUS
<1>3. LinesInOrder(airq)' /\ LaterBegin(airq)'
    BY <1>2 DEF QueueOK, LinesInOrder, LaterBegin, After
<1>4. RowsOK(script, airq, 0)' /\ LastTold(script, airq, 0)' /\ OneTest(script)'
    BY DEF ScriptOK, RowsOK, LastTold, OneTest, After
<1>5. Reading(script, airq, 0)'
    BY <1>2 DEF ScriptOK, Reading
<1> QED
    BY <1>1, <1>3, <1>4, <1>5 DEF QueueOK, ScriptOK

\* A line is sent: of what the lines before it and the table leave to it.
LEMMA Said ==
    ASSUME opened \in Nat, closed \in Nat, opened' \in Nat, closed' \in Nat,
           opened <= opened', closed <= closed',
           QueueOK(airq), ScriptOK(script, airq, 0), UNCHANGED <<script, unclosed>>,
           NEW l \in Lines, airq' = Append(airq, l), untold' = untold, bare \subseteq bare',
           l.kind \in {"start", "stop"} => \E t \in Nat : l.of = {t},
           \A t \in l.of : /\ t <= opened'
                           /\ l.kind = "stop" => t <= closed' /\ closed < t
                           /\ l.kind \in Fields => \A r \in 0 .. closed : After(l.kind, r, t)
                           /\ l.kind = "start" => opened < t,
           l.kind = "stop" => \A t \in l.of, v \in 1 .. opened' : v <= t,
           \A v \in 1 .. opened' : v <= opened \/ (l.kind = "start" /\ v \in l.of),
           closed' = closed \/ (l.kind = "stop" /\ closed' \in l.of)
    PROVE  QueueOK(airq)' /\ ScriptOK(script, airq, 0)'
<1> DEFINE q == airq'
           n == Len(airq)
<1>0. /\ airq \in Seq(Lines) /\ n \in Nat
      /\ q \in Seq(Lines) /\ Len(q) = n + 1 /\ q[n + 1] = l
      /\ \A j \in 1 .. n : q[j] = airq[j]
    BY DEF QueueOK, LinesTyped
<1>1. /\ \A j \in 1 .. n : j \in 1 .. Len(q)
      /\ \A j \in 1 .. Len(q) : j \in 1 .. n \/ j = n + 1
      /\ n + 1 \in 1 .. Len(q) /\ 0 + 1 = 1
    BY <1>0
<1>2. \A j \in 1 .. n : \A t \in airq[j].of :
        /\ airq[j] \in Lines /\ t \in Nat /\ t <= opened
        /\ airq[j].kind = "stop" => t <= closed
    BY <1>0, OfTests DEF QueueOK, LinesTyped
<1>3. \A t \in l.of : t \in Nat
    BY DEF Lines
<1> HIDE DEF q, n
<1>4. LinesTyped(airq)'
    <2>1. ASSUME NEW j \in 1 .. Len(q)
          PROVE  /\ q[j].kind \in {"start", "stop"} => \E t \in Nat : q[j].of = {t}
                 /\ \A t \in q[j].of : t <= opened' /\ (q[j].kind = "stop" => t <= closed')
        <3>1. CASE j \in 1 .. n
            <4>1. q[j] = airq[j] /\ j \in 1 .. Len(airq)
                BY <1>0, <3>1 DEF n
            <4>2. \A t \in q[j].of : t \in Nat /\ t <= opened /\ (q[j].kind = "stop" => t <= closed)
                BY <1>2, <3>1, <4>1
            <4>3. q[j].kind \in {"start", "stop"} => \E t \in Nat : q[j].of = {t}
                BY <4>1 DEF QueueOK, LinesTyped
            <4> QED
                BY <4>2, <4>3
        <3>2. CASE j = n + 1
            BY <1>0, <3>2
        <3> QED
            BY <1>1, <3>1, <3>2
    <2> QED
        BY <1>0, <2>1 DEF LinesTyped, q
<1>5. LinesInOrder(airq)'
    <2>1. ASSUME NEW j \in 1 .. Len(q), NEW m \in 1 .. Len(q), j < m,
                 NEW t \in q[j].of, NEW u \in q[m].of
          PROVE  /\ q[j].kind = "stop" /\ q[m].kind = "stop" => t < u
                 /\ q[j].kind = "stop" /\ q[m].kind \in Fields => After(q[m].kind, t, u)
                 /\ q[j].kind \in Fields /\ q[m].kind = "start" => t < u
        <3>1. j \in 1 .. n /\ q[j] = airq[j]
            BY <1>0, <1>1, <2>1
        <3>2. CASE m \in 1 .. n
            <4>1. j \in 1 .. Len(airq) /\ m \in 1 .. Len(airq) /\ q[m] = airq[m]
                BY <1>0, <3>1, <3>2 DEF n
            <4> QED
                BY <2>1, <3>1, <4>1 DEF QueueOK, LinesInOrder
        <3>3. CASE m = n + 1
            <4>1. q[m] = l /\ u \in l.of /\ u \in Nat
                BY <1>0, <1>3, <3>3
            <4>2. t \in Nat /\ t <= opened /\ (q[j].kind = "stop" => t \in 0 .. closed)
                BY <1>2, <3>1
            <4> QED
                BY <4>1, <4>2 DEF Fields
        <3> QED
            BY <1>1, <3>2, <3>3
    <2> QED
        BY <2>1 DEF LinesInOrder, After, q
<1>6. LaterBegin(airq)'
    <2>1. ASSUME NEW j \in 1 .. Len(q), q[j].kind = "stop", NEW t \in q[j].of,
                 NEW v \in 1 .. opened', t < v, v \notin untold
          PROVE  \E m \in 1 .. Len(q) : j < m /\ q[m].kind = "start" /\ v \in q[m].of
        <3>1. CASE j \in 1 .. n /\ v <= opened
            <4>1. /\ j \in 1 .. Len(airq) /\ airq[j].kind = "stop" /\ t \in airq[j].of
                  /\ v \in 1 .. opened
                BY <1>0, <2>1, <3>1 DEF n
            <4>2. PICK m \in 1 .. n : j < m /\ airq[m].kind = "start" /\ v \in airq[m].of
                BY <2>1, <4>1 DEF QueueOK, LaterBegin, n
            <4> QED
                BY <1>0, <1>1, <4>2
        <3>2. CASE j \in 1 .. n /\ ~(v <= opened)
            <4>1. j < n + 1 /\ q[n + 1].kind = "start" /\ v \in q[n + 1].of
                BY <1>0, <3>2
            <4> QED
                BY <1>1, <4>1
        <3>3. CASE j = n + 1
            BY <1>0, <1>3, <2>1, <3>3
        <3> QED
            BY <1>1, <3>1, <3>2, <3>3
    <2> QED
        BY <2>1 DEF LaterBegin, q
<1>7. /\ script.table \in Seq(Nat) /\ Len(script.table) \in Nat
      /\ \A m \in 1 .. Len(script.table) : script.table[m] \in Nat /\ script.table[m] <= closed
    BY DEF ScriptOK, Scripts, RowsOK
<1>8. RowsOK(script, airq, 0)'
    <2>1. ASSUME NEW m \in 1 .. Len(script.table), NEW j \in 1 .. Len(q), NEW t \in q[j].of
          PROVE  /\ q[j].kind = "stop" => script.table[m] < t
                 /\ q[j].kind \in Fields => After(q[j].kind, script.table[m], t)
        <3>1. CASE j \in 1 .. n
            BY <1>0, <1>1, <3>1 DEF ScriptOK, RowsOK, n
        <3>2. CASE j = n + 1
            <4>1. q[j] = l /\ t \in l.of /\ t \in Nat
                BY <1>0, <1>3, <3>2
            <4>2. script.table[m] \in 0 .. closed
                BY <1>7
            <4>3. /\ l.kind = "stop" => closed < t
                  /\ l.kind \in Fields => After(l.kind, script.table[m], t)
                BY <4>1, <4>2
            <4> QED
                BY <4>1, <4>2, <4>3
        <3> QED
            BY <1>1, <3>1, <3>2
    <2>2. \A m \in 1 .. Len(script.table) : script.table[m] <= closed'
        BY <1>7
    <2> QED
        BY <1>1, <2>1, <2>2 DEF ScriptOK, RowsOK, After, q
<1>9. Reading(script, airq, 0)'
    <2>1. ASSUME script.check, NEW v \in 1 .. opened', v \notin untold,
                 ~(v <= Last(script.table))
          PROVE  \E j \in 1 .. Len(q) : q[j].kind = "start" /\ v \in q[j].of
        <3>1. CASE v <= opened
            <4>1. PICK j \in 1 .. n : airq[j].kind = "start" /\ v \in airq[j].of
                BY <1>1, <2>1, <3>1 DEF ScriptOK, Reading, n
            <4> QED
                BY <1>0, <1>1, <4>1
        <3>2. CASE ~(v <= opened)
            BY <1>0, <1>1, <3>2
        <3> QED
            BY <3>1, <3>2
    <2> QED
        BY <1>1, <2>1 DEF ScriptOK, Reading, q
<1>10. LastTold(script, airq, 0)'
    <2>1. CASE l.kind = "stop" /\ closed' \in l.of
        BY <1>0, <1>1, <2>1 DEF LastTold, q
    <2>2. CASE closed' = closed
        <3>1. ASSUME \E j \in 1 .. n : airq[j].kind = "stop" /\ closed \in airq[j].of
              PROVE  \E j \in 1 .. Len(q) : q[j].kind = "stop" /\ closed \in q[j].of
            BY <1>0, <1>1, <3>1
        <3> QED
            BY <1>1, <2>2, <3>1 DEF ScriptOK, LastTold, q, n
    <2> QED
        BY <2>1, <2>2
<1>11. OneTest(script)'
    BY DEF ScriptOK, OneTest
<1> QED
    BY <1>4, <1>5, <1>6, <1>8, <1>9, <1>10, <1>11 DEF QueueOK, ScriptOK

-----------------------------------------------------------------------------
(* The invariant of the whole line from the device to the table.           *)

Numbers ==
    /\ opened \in Nat /\ closed \in Nat /\ closed <= opened
    /\ running => closed < opened
    /\ i \in 0 .. 3 \/ pc # "report"
    /\ Len(airq) = inFlight

Tables == QueueOK(airq) /\ ScriptOK(script, airq, 0)

\* The time stamp of a test outlives only the closing of UP tests without data.
TimeInv ==
    /\ timeOf \in SUBSET Nat
    /\ \A u \in timeOf : u <= opened
    /\ \A u \in timeOf, t \in 1 .. opened :
        u < t /\ (t < opened \/ ~running) => t \in bare

BenchInv == IInv /\ LineInArray /\ Numbers /\ Tables /\ TimeInv

\* Nothing is in flight and the table is empty.
LEMMA BenchInitInv == BenchInit => BenchInv
<1> SUFFICES ASSUME BenchInit PROVE BenchInv
    OBVIOUS
<1>1. IInv /\ LineInArray
    BY InitInv, SizeAssumption DEF BenchInit, UartInit, LineInArray
<1>2. Numbers
    BY DEF BenchInit, UartInit, Init, Numbers
<1>3. airq = <<>> /\ Len(airq) = 0 /\ 1 .. Len(airq) = {} /\ airq \in Seq(Lines)
    BY DEF BenchInit
<1>4. QueueOK(airq)
    BY <1>3 DEF QueueOK, LinesTyped, LinesInOrder, LaterBegin
<1>5. /\ script.check = FALSE /\ script.table = <<>> /\ script.table \in Seq(Nat)
      /\ 1 .. Len(script.table) = {} /\ closed = 0 /\ script \in Scripts
    BY DEF BenchInit, Scripts, Empty
<1>6. ScriptOK(script, airq, 0)
    BY <1>5 DEF ScriptOK, RowsOK, Reading, OneTest, LastTold
<1>7. TimeInv
    BY DEF BenchInit, TimeInv
<1> QED
    BY <1>1, <1>2, <1>4, <1>6, <1>7 DEF BenchInv, Tables

\* The time stamp keeps its tests.
LEMMA TimeStep ==
    ASSUME opened \in Nat, opened' = IF Opens THEN opened + 1 ELSE opened,
           timerName \in TestNames, running \in BOOLEAN, running' \in BOOLEAN,
           running /\ ~running' => Closes \/ stamp' = "unset", TimeInv, KeepsTime
    PROVE  TimeInv' /\ bare \subseteq bare' /\ (~Closes => bare' = bare)
<1>1. bare \subseteq bare' /\ (~Closes => bare' = bare)
    BY DEF KeepsTime
<1>2. Closes => ~Opens
    BY DEF Closes, Opens
<1>3. opened' \in Nat /\ opened <= opened' /\ (opened' = opened \/ opened' = opened + 1)
    OBVIOUS
<1>4. opened' = opened + 1 => running' /\ ~running
    BY DEF Opens
<1>5. CASE timeOf' = {}
    BY <1>1, <1>5 DEF TimeInv
<1>6. CASE timeOf' = {opened}
    BY <1>1, <1>3, <1>4, <1>6 DEF TimeInv
<1>7. CASE timeOf' = timeOf /\ (running /\ ~running' => FALSE)
    <2>1. ASSUME NEW u \in timeOf, NEW t \in 1 .. opened', u < t, t < opened' \/ ~running'
          PROVE  t \in bare
        <3>1. t \in 1 .. opened
            BY <1>3, <1>4, <2>1
        <3>2. t < opened \/ ~running
            BY <1>3, <1>4, <1>7, <2>1
        <3> QED
            BY <2>1, <3>1, <3>2 DEF TimeInv
    <2> QED
        BY <1>1, <1>3, <1>7, <2>1 DEF TimeInv
<1>8. CASE Closes /\ timeOf' = timeOf \cup {opened} /\ timerName = "tsu" /\ opened' = opened
    <2>1. bare' = IF timeOf # {opened} THEN bare \cup {opened} ELSE bare
        BY <1>8 DEF KeepsTime
    <2>2. ASSUME NEW u \in timeOf \cup {opened}, NEW t \in 1 .. opened, u < t PROVE t \in bare'
        <3>1. u \in timeOf
            BY <2>2
        <3>2. CASE t < opened
            BY <1>1, <2>2, <3>1, <3>2 DEF TimeInv
        <3>3. CASE t = opened
            BY <2>1, <2>2, <3>1, <3>3
        <3> QED
            BY <2>2, <3>2, <3>3
    <2>3. timeOf' \in SUBSET Nat /\ \A u \in timeOf' : u <= opened'
        BY <1>8 DEF TimeInv
    <2> QED
        BY <1>1, <1>8, <2>2, <2>3 DEF TimeInv
<1>9. \/ timeOf' = {} \/ timeOf' = {opened}
      \/ timeOf' = timeOf /\ ~Closes /\ stamp' # "unset"
      \/ Closes /\ timeOf' = timeOf \cup {opened} /\ timerName = "tsu"
    BY DEF KeepsTime, TestNames
<1> QED
    BY <1>1, <1>2, <1>5, <1>6, <1>7, <1>8, <1>9

\* What a handler sends.
LEMMA LineFacts ==
    ASSUME Numbers, TimeInv
    PROVE  /\ Line \in Lines
           /\ pc = "run" => Line.kind = "start" /\ Line.of = {opened + 1}
           /\ pc = "delay" => Line.kind = "stop" /\ Line.of = {opened}
           /\ pc \notin {"run", "delay"} =>
                /\ Line.kind \in Fields \cup {"other"} /\ Line.of \subseteq {opened} \cup timeOf
                /\ Line.kind \notin Timed => Line.of \subseteq {opened}
<1>1. opened \in Nat /\ {opened} \cup timeOf \subseteq Nat
    BY DEF Numbers, TimeInv
<1>2. CASE pc = "run"
    <2>1. Line = [kind |-> "start", of |-> {opened + 1}]
        BY <1>2, Zenon DEF Line
    <2> QED
        BY <1>1, <1>2, <2>1 DEF Lines, Kinds
<1>3. CASE pc = "delay"
    <2>1. Line = [kind |-> "stop", of |-> {opened}]
        BY <1>3 DEF Line
    <2> QED
        BY <1>1, <1>3, <2>1 DEF Lines, Kinds
<1>4. CASE pc = "report" /\ cmd = "gt"
    <2> DEFINE kind == Report[i + 1]
               of == IF kind \in Timed THEN {opened} \cup timeOf ELSE {opened}
    <2>1. Line = [kind |-> kind, of |-> of]
        BY <1>4 DEF Line
    <2>2. i + 1 \in 1 .. 4
        BY <1>4 DEF Numbers
    <2>3. kind \in Fields
        BY <2>2 DEF Report, Fields
    <2>4. of \subseteq {opened} \cup timeOf /\ (kind \notin Timed => of \subseteq {opened})
        OBVIOUS
    <2> HIDE DEF kind, of
    <2> QED
        BY <1>1, <1>4, <2>1, <2>3, <2>4 DEF Lines, Kinds
<1>5. CASE pc \notin {"run", "delay"} /\ ~(pc = "report" /\ cmd = "gt")
    <2>1. Line = [kind |-> "other", of |-> {}]
        BY <1>5 DEF Line
    <2> QED
        BY <1>5, <2>1 DEF Lines, Kinds
<1> QED
    BY <1>2, <1>3, <1>4, <1>5

\* What is left of a number when its difference to a smaller one is taken away.
LEMMA Differ ==
    ASSUME NEW a \in Nat, NEW b \in Nat, b < a
    PROVE  a - b \in 0 .. a /\ a - (a - b) = b
OBVIOUS

\* The lines, the tests and the table, step by step.
LEMMA BenchStep == BenchInv /\ BenchNext => Numbers' /\ Tables' /\ TimeInv'
<1> SUFFICES ASSUME BenchInv, BenchNext PROVE Numbers' /\ Tables' /\ TimeInv'
    OBVIOUS
<1>1. /\ IInv /\ IInv' /\ Leaves /\ Steps
      /\ QueueOK(airq) /\ ScriptOK(script, airq, 0) /\ Numbers /\ TimeInv
    BY BridgeStep, BridgeSteps DEF BenchInv, Tables, BenchNext
<1>2. /\ inFlight \in Nat /\ inFlight' \in Nat /\ opened \in Nat /\ closed \in Nat
      /\ closed <= opened /\ Len(airq) = inFlight /\ airq \in Seq(Lines)
    BY <1>1, TxAssumption DEF IInv, TypeOK, SoftDeviceOK, Numbers, QueueOK, LinesTyped
<1>3. i' \in 0 .. 3 \/ pc' # "report"
    BY <1>1 DEF Numbers, Steps
<1> DEFINE Counts == opened' = IF Opens THEN opened + 1 ELSE opened
<1>6. ASSUME Counts PROVE TimeInv' /\ bare \subseteq bare' /\ (~Closes => bare' = bare)
    <2>1. timerName \in TestNames /\ running \in BOOLEAN /\ running' \in BOOLEAN
        BY <1>1 DEF IInv, TypeOK, InfoOK
    <2>2. KeepsTime /\ (running /\ ~running' => Closes \/ stamp' = "unset")
        BY <1>1 DEF BenchNext, Logs, Steps
    <2> QED
        BY <1>1, <1>2, <1>6, <2>1, <2>2, TimeStep
<1>4. CASE inFlight' < inFlight
    <2>1. ~Closes
        BY <1>1, <1>2, <1>4 DEF Steps, Closes, Sends
    <2>2. PICK k \in 0 .. Len(airq) :
            Carries(k) /\ (link' => k = inFlight - inFlight')
        <3>1. \E k \in IF link' THEN {inFlight - inFlight'} ELSE 0 .. inFlight : Carries(k)
            BY <1>4 DEF BenchNext, Logs
        <3>2. inFlight - inFlight' \in 0 .. Len(airq) /\ 0 .. inFlight = 0 .. Len(airq)
            BY <1>2, <1>4, Differ, Zenon
        <3> QED
            BY <3>1, <3>2, Zenon
    <2>3. closed' = closed /\ opened' = opened /\ (running' => running)
        BY <1>1, <1>4, <2>1, <2>2 DEF BenchNext, Logs, Leaves, Carries
    <2>6. TimeInv' /\ bare' = bare
        BY <1>6, <2>1, <2>3 DEF Opens
    <2>4. CASE link'
        <3>1. /\ script' = ReadsAll(SubSeq(airq, 1, k)) /\ UNCHANGED told
              /\ airq' = SubSeq(airq, k + 1, Len(airq)) /\ k = inFlight - inFlight'
            BY <2>2, <2>4 DEF Carries
        <3>2. Len(airq') = inFlight'
            <4>1. Len(SubSeq(airq, k + 1, Len(airq))) = Len(airq) - k
                BY <1>2
            <4>2. Len(airq) = inFlight /\ inFlight - (inFlight - inFlight') = inFlight'
                BY <1>2, <1>4, Differ, Zenon
            <4> QED
                BY <3>1, <4>1, <4>2, Zenon
        <3>3. Tables'
            BY <1>1, <1>2, <2>3, <2>6, <3>1, Arrive DEF Tables
        <3> QED
            BY <1>1, <1>2, <1>3, <2>3, <2>6, <3>2, <3>3 DEF Numbers
    <2>5. CASE ~link'
        <3>1. /\ script' = ReadsAll(SubSeq(airq, 1, k)) /\ airq' = <<>>
              /\ untold' = untold \cup Of("start", SubSeq(airq, k + 1, Len(airq)))
              /\ unclosed' = unclosed \cup Of("stop", SubSeq(airq, k + 1, Len(airq)))
            BY <2>2, <2>5 DEF Carries
        <3>2. Len(airq') = inFlight'
            BY <1>1, <1>4, <2>5, <3>1 DEF Leaves
        <3>3. Tables'
            BY <1>1, <1>2, <2>3, <2>6, <3>1, Lose DEF Tables
        <3> QED
            BY <1>1, <1>2, <1>3, <2>3, <2>6, <3>2, <3>3 DEF Numbers
    <2> QED
        BY <2>4, <2>5
<1>5. CASE ~(inFlight' < inFlight)
    <2>1. /\ airq' = IF Sends THEN Append(airq, Line) ELSE airq
          /\ opened' = IF Opens THEN opened + 1 ELSE opened
          /\ untold' = IF Opens /\ ~Sends THEN untold \cup {opened'} ELSE untold
          /\ closed' = IF Closes THEN opened ELSE closed
          /\ UNCHANGED <<script, unclosed>>
        BY <1>5 DEF BenchNext, Logs
    <2>2. inFlight' = IF Sends THEN inFlight + 1 ELSE inFlight
        BY <1>1, <1>5 DEF Steps, Sends
    <2>3. Opens => ~Closes
        BY DEF Opens, Closes
    <2>12. TimeInv' /\ bare \subseteq bare' /\ (~Closes => bare' = bare)
        BY <1>6, <2>1
    <2>4. Closes => closed < opened
        BY <1>1 DEF Closes, Numbers
    <2>5. running' => running \/ Opens
        BY <1>1 DEF Opens, IInv, TypeOK, InfoOK
    <2>6. running /\ running' => ~Opens /\ ~Closes
        BY DEF Opens, Closes
    <2>7. running => closed < opened
        BY <1>1 DEF Numbers
    <2>8. Numbers'
        <3>1. Len(airq') = inFlight'
            BY <1>1, <1>2, <2>1, <2>2, LineFacts
        <3>2. opened' \in Nat /\ closed' \in Nat /\ closed' <= opened'
            BY <1>2, <2>1, <2>3
        <3>3. running' => closed' < opened'
            BY <1>2, <2>1, <2>3, <2>5, <2>6, <2>7
        <3> QED
            BY <1>3, <3>1, <3>2, <3>3 DEF Numbers
    <2>9. /\ pc = "run" /\ Sends => Opens
          /\ Opens => pc = "run"
          /\ pc = "delay" => (Sends <=> Closes)
          /\ Closes => pc = "delay"
        BY <1>1 DEF Steps, Closes
    <2> HIDE DEF Opens, Closes, Sends
    <2>10. CASE ~Sends
        <3>1. UNCHANGED <<airq, closed, script, unclosed, bare>> /\ opened' \in {opened, opened + 1}
            BY <2>1, <2>9, <2>10, <2>12
        <3>2. CASE Opens
            BY <1>1, <1>2, <2>1, <2>8, <2>10, <2>12, <3>1, <3>2, Unsaid DEF Tables
        <3>3. CASE ~Opens
            BY <1>1, <1>2, <2>1, <2>8, <2>10, <2>12, <3>1, <3>3, Unsaid DEF Tables
        <3> QED
            BY <3>2, <3>3
    <2>11. CASE Sends
        <3> DEFINE l == Line
        <3>1. /\ l \in Lines /\ airq' = Append(airq, l) /\ untold' = untold
              /\ bare \subseteq bare'
            BY <1>1, <2>1, <2>11, <2>12, LineFacts
        <3>2. CASE pc = "run"
            <4>1. /\ opened' = opened + 1 /\ closed' = closed
                  /\ l.kind = "start" /\ l.of = {opened + 1}
                BY <1>1, <2>1, <2>3, <2>9, <2>11, <3>2, LineFacts
            <4> HIDE DEF l
            <4>2. "start" \notin Fields
                BY DEF Fields
            <4> QED
                BY <1>1, <1>2, <2>1, <2>8, <2>12, <3>1, <4>1, <4>2, Said DEF Tables
        <3>3. CASE pc = "delay"
            <4>1. /\ opened' = opened /\ closed' = opened /\ closed < opened
                  /\ l.kind = "stop" /\ l.of = {opened}
                BY <1>1, <2>1, <2>3, <2>4, <2>9, <2>11, <3>3, LineFacts
            <4> HIDE DEF l
            <4>2. "stop" \notin Fields
                BY DEF Fields
            <4> QED
                BY <1>1, <1>2, <2>1, <2>8, <2>12, <3>1, <4>1, <4>2, Said DEF Tables
        <3>4. CASE pc \notin {"run", "delay"}
            <4>1. /\ opened' = opened /\ closed' = closed
                  /\ l.kind \in Fields \cup {"other"} /\ l.of \subseteq {opened} \cup timeOf
                  /\ l.kind \notin Timed => l.of \subseteq {opened}
                BY <1>1, <2>1, <2>9, <3>4, LineFacts
            <4> HIDE DEF l
            <4>2. l.kind \notin {"start", "stop"}
                BY <4>1 DEF Fields
            <4>3. \A t \in l.of : t \in Nat /\ t <= opened
                <5>1. \A u \in {opened} \cup timeOf : u \in Nat /\ u <= opened
                    BY <1>1, <1>2 DEF TimeInv
                <5> QED
                    BY <4>1, <5>1, Zenon
            <4>4. ASSUME NEW t \in l.of, NEW r \in 0 .. closed PROVE After(l.kind, r, t)
                <5>1. CASE r <= t
                    BY <5>1 DEF After
                <5>2. CASE ~(r <= t)
                    <6>1. t < r /\ r \in 1 .. opened /\ t # opened
                        BY <1>2, <4>3, <5>2
                    <6>2. t \in timeOf /\ l.kind \in Timed
                        BY <4>1, <6>1
                    <6>3. r < opened \/ ~running
                        BY <1>2, <2>7
                    <6>4. r \in bare
                        BY <1>1, <6>1, <6>2, <6>3 DEF TimeInv
                    <6> QED
                        BY <6>2, <6>4 DEF After
                <5> QED
                    BY <5>1, <5>2
            <4> QED
                BY <1>1, <1>2, <2>1, <2>8, <2>12, <3>1, <4>1, <4>2, <4>3, <4>4, Said DEF Tables
        <3> QED
            BY <3>2, <3>3, <3>4
    <2> QED
        BY <2>8, <2>10, <2>11, <2>12
<1> QED
    BY <1>4, <1>5

\* All of it is an invariant.
THEOREM BenchInvariance == BenchSpec => []BenchInv
<1>1. BenchInv /\ [BenchNext]_benchVars => BenchInv'
    <2> SUFFICES ASSUME BenchInv, [BenchNext]_benchVars PROVE BenchInv'
        OBVIOUS
    <2>1. CASE BenchNext
        BY <2>1, BridgeStep, BenchStep DEF BenchInv, BenchNext
    <2>2. CASE UNCHANGED benchVars
        <3>1. UNCHANGED <<vars, index, running, inFlight, pc, i>> /\ UNCHANGED log
            BY <2>2 DEF benchVars, uartVars, vars, info, test, sd, handler, call
        <3>2. IInv' /\ LineInArray'
            BY <3>1, InvariantStep DEF BenchInv, LineInArray
        <3>3. Numbers'
            BY <3>1 DEF BenchInv, Numbers, log
        <3>4. QueueOK(airq)'
            BY <3>1 DEF BenchInv, Tables, log, told, timing, QueueOK, LinesTyped, LinesInOrder,
               LaterBegin, After
        <3>5. ScriptOK(script, airq, 0)'
            BY <3>1 DEF BenchInv, Tables, log, told, timing, ScriptOK, RowsOK, Reading, OneTest,
               LastTold, After
        <3>6. TimeInv'
            BY <3>1 DEF BenchInv, TimeInv, log, timing
        <3> QED
            BY <3>2, <3>3, <3>4, <3>5, <3>6 DEF BenchInv, Tables
    <2> QED
        BY <2>1, <2>2
<1> QED
    BY <1>1, BenchInitInv, PTL DEF BenchSpec

\* What is in the log is what is in flight, and the rest has its type.
THEOREM BenchTypes == BenchSpec => []BenchTypeOK
<1>1. BenchInv => BenchTypeOK
    BY DEF BenchInv, IInv, Numbers, BenchTypeOK
<1> QED
    BY <1>1, BenchInvariance, PTL

\* However often the program sends itself the stop of a DOWN test, and whatever
\* is lost with the link, a test has one row at most and the rows are in the order
\* of the tests (benchmark.bat, the lines for "Stop timer").
THEOREM RowsCorrect == BenchSpec => []RowsInOrder
<1>1. BenchInv => RowsInOrder
    <2> SUFFICES ASSUME BenchInv PROVE RowsInOrder
        OBVIOUS
    <2>1. DOMAIN script.table = 1 .. Len(script.table)
        BY DEF BenchInv, Tables, ScriptOK, Scripts
    <2> QED
        BY <2>1 DEF BenchInv, Tables, ScriptOK, RowsOK, RowsInOrder
<1> QED
    BY <1>1, BenchInvariance, PTL

\* A row has no value of a second test (benchmark.bat reads no value behind "Start
\* timer"), but for a test whose beginning the phone was not told, and but for the
\* times of an UP test without data (communication.c, the line that computes them).
THEOREM RowsUnmixed == BenchSpec => []RowOfOneTest
<1>1. BenchInv => RowOfOneTest
    BY Zenon DEF BenchInv, Tables, ScriptOK, OneTest, RowOfOneTest
<1> QED
    BY <1>1, BenchInvariance, PTL

\* A test that has closed has its row, or its "Stop timer" is on its way or went
\* with the link (communication_run closes a test only if the line was queued).
THEOREM ClosedToldCorrect == BenchSpec => []ClosedIsTold
<1>1. BenchInv => ClosedIsTold
    <2> SUFFICES ASSUME BenchInv, closed # 0 PROVE ClosedIsTold
        BY DEF ClosedIsTold
    <2>1. /\ LastTold(script, airq, 0) /\ airq \in Seq(Lines) /\ Len(airq) \in Nat
          /\ DOMAIN script.table = 1 .. Len(script.table)
        BY DEF BenchInv, Tables, ScriptOK, Scripts, QueueOK, LinesTyped
    <2>2. CASE \E m \in 1 .. Len(script.table) : script.table[m] = closed
        BY <2>1, <2>2 DEF ClosedIsTold, Range
    <2>3. CASE \E j \in 1 .. Len(airq) : airq[j].kind = "stop" /\ closed \in airq[j].of
        <3>1. closed \in Of("stop", airq)
            BY <2>1, <2>3, InOf
        <3> QED
            BY <3>1 DEF ClosedIsTold
    <2>4. CASE closed \in unclosed
        BY <2>4 DEF ClosedIsTold
    <2> QED
        BY <2>1, <2>2, <2>3, <2>4, 0 + 1 = 1 DEF LastTold
<1> QED
    BY <1>1, BenchInvariance, PTL
=============================================================================
