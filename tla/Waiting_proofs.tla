--------------------------- MODULE Waiting_proofs ---------------------------
(***************************************************************************)
(* A transfer or a stop that waits is always woken by a transmit event, as *)
(* long as the link and the CCCDs stand and no clock is read as zero, for  *)
(* every number of transmit packets and every order of commands.           *)
(***************************************************************************)
EXTENDS SpeedTest_proofs

Has(q, e) == \E k \in 1 .. Len(q) : q[k] = e
Woken == inFlight > 0 \/ Has(evq, "tx_complete")

\* The faults WaitingIsWoken excludes: a lost link takes the packets in flight
\* with it, without their event; a CCCD switched off makes "Stop timer" fail
\* for another reason than missing packets; a zero tick is taken for a flag.
NoFaults == "link" \notin Faults /\ "cccd" \notin Faults /\ 0 \notin Ticks

\* The link stands from the first connection on, and the program learns so.
LinkInv ==
    /\ ~Has(evq, "disconnected") /\ ~Has(evq, "cccd_off")
    /\ Has(evq, "cccd_on") => cccdRx
    /\ ~link => evq = <<>> /\ ~connHandle /\ ~notifEnabled
    /\ notifEnabled => cccdRx

\* A test runs, or a handler that may send.
Busy == running \/ pc \notin {"idle", "tx_complete"}

\* What a test was opened with stays.
BusyInv ==
    /\ Busy => connHandle /\ notifEnabled
    /\ running => startTick # 0

\* The handler of a transmit event, on its way to the stop it retries.
Retrying ==
    \/ pc \in Sending /\ caller = "tx_complete"
    \/ pc \in {"tx_complete", "delay"}
    \/ pc = "run" /\ cmd = "tsd" /\ words = <<StopWord>>

WakeInv ==
    /\ remaining # 0 /\ pc \notin Sending => Woken
    /\ stopDown => Woken \/ Retrying

-----------------------------------------------------------------------------
(* Queues of events.                                                       *)

\* An event behind the others.
LEMMA HasAppend ==
    ASSUME NEW q \in Seq(Events), NEW e \in Events
    PROVE  \A f : Has(Append(q, e), f) <=> Has(q, f) \/ e = f
<1>1. /\ Len(Append(q, e)) = Len(q) + 1 /\ Len(q) \in Nat
      /\ \A k \in 1 .. Len(q) : Append(q, e)[k] = q[k]
      /\ Append(q, e)[Len(q) + 1] = e
    OBVIOUS
<1>2. \A k \in 1 .. Len(Append(q, e)) : k \in 1 .. Len(q) \/ k = Len(q) + 1
    BY <1>1
<1>3. \A k \in 1 .. Len(q) : k \in 1 .. Len(Append(q, e))
    BY <1>1
<1>4. Len(q) + 1 \in 1 .. Len(Append(q, e))
    BY <1>1
<1> QED
    BY <1>1, <1>2, <1>3, <1>4 DEF Has

\* The first event is taken.
LEMMA HasTail ==
    ASSUME NEW q \in Seq(Events), q # <<>>
    PROVE  /\ Has(q, Head(q))
           /\ \A f : Has(Tail(q), f) => Has(q, f)
           /\ \A f : Has(q, f) /\ Head(q) # f => Has(Tail(q), f)
<1>1. /\ Len(q) \in Nat \ {0} /\ Len(Tail(q)) = Len(q) - 1 /\ Head(q) = q[1]
      /\ \A k \in 1 .. Len(q) - 1 : Tail(q)[k] = q[k + 1]
    OBVIOUS
<1>2. \A k \in 1 .. Len(q) : k = 1 \/ k - 1 \in 1 .. Len(q) - 1
    BY <1>1
<1>3. ASSUME NEW f, NEW k \in 1 .. Len(Tail(q)), Tail(q)[k] = f PROVE Has(q, f)
    <2>1. k + 1 \in 1 .. Len(q) /\ q[k + 1] = f
        BY <1>1, <1>3
    <2> QED
        BY <2>1 DEF Has
<1>4. ASSUME NEW f, Head(q) # f, NEW k \in 1 .. Len(q), q[k] = f PROVE Has(Tail(q), f)
    <2>1. k - 1 \in 1 .. Len(Tail(q)) /\ Tail(q)[k - 1] = q[(k - 1) + 1] /\ (k - 1) + 1 = k
        BY <1>1, <1>2, <1>4
    <2> QED
        BY <1>4, <2>1 DEF Has
<1>5. Has(q, Head(q))
    <2>1. 1 \in 1 .. Len(q) /\ q[1] = Head(q)
        BY <1>1
    <2> QED
        BY <2>1 DEF Has
<1> QED
    BY <1>3, <1>4, <1>5 DEF Has

\* An empty queue has no event.
LEMMA HasNone == \A f : ~Has(<<>>, f)
BY DEF Has

-----------------------------------------------------------------------------
(* The link.                                                               *)

\* At first there is neither link nor event.
LEMMA LinkInit == Init => LinkInv
BY HasNone DEF Init, LinkInv

\* Without faults every step keeps LinkInv.
LEMMA LinkStep == NoFaults /\ TypeOK /\ LinkInv /\ [Next]_vars => LinkInv'
<1> SUFFICES ASSUME NoFaults, TypeOK, LinkInv, [Next]_vars PROVE LinkInv'
    OBVIOUS
<1>0. evq \in Seq(Events)
    BY DEF TypeOK, SoftDeviceOK
<1>1. CASE PeerConnects
    <2>1. evq \in Seq(Events) /\ "connected" \in Events /\ evq' = Append(evq, "connected")
        BY <1>0, <1>1 DEF PeerConnects, Post, Events
    <2>2. ~Has(evq', "disconnected") /\ ~Has(evq', "cccd_off") /\ ~Has(evq', "cccd_on")
        BY <1>1, <2>1, HasAppend, HasNone DEF PeerConnects
    <2> QED
        BY <1>1, <2>2 DEF PeerConnects, LinkInv, nus
<1>2. CASE LinkLost
    BY <1>2 DEF LinkLost, NoFaults
<1>3. CASE RadioSends
    <2>1. "tx_complete" \in Events /\ evq' = Append(evq, "tx_complete")
        BY <1>3 DEF RadioSends, Post, Events
    <2>2. \A f : Has(evq', f) <=> Has(evq, f) \/ f = "tx_complete"
        BY <1>0, <2>1, HasAppend
    <2> QED
        BY <1>3, <2>2 DEF RadioSends, LinkInv, nus, air
<1>4. ASSUME NEW b \in BOOLEAN, PeerWritesRxCccd(b) PROVE LinkInv'
    <2>1. b = TRUE
        BY <1>4 DEF PeerWritesRxCccd, NoFaults
    <2>2. "cccd_on" \in Events /\ evq' = Append(evq, "cccd_on")
        BY <1>4, <2>1 DEF PeerWritesRxCccd, Post, Events
    <2>3. \A f : Has(evq', f) <=> Has(evq, f) \/ f = "cccd_on"
        BY <1>0, <2>2, HasAppend
    <2> QED
        BY <1>4, <2>1, <2>3 DEF PeerWritesRxCccd, LinkInv, nus
<1>5. ASSUME NEW b \in BOOLEAN, PeerWritesUpCccd(b) PROVE LinkInv'
    BY <1>5 DEF PeerWritesUpCccd, LinkInv, nus
<1>6. CASE DispatchLink \/ DispatchCccd \/ DispatchTxComplete
    <2>1. evq # <<>> /\ evq' = Tail(evq) /\ link /\ UNCHANGED air
        BY <1>6 DEF DispatchLink, DispatchCccd, DispatchTxComplete, LinkInv
    <2>2. /\ Has(evq, Head(evq))
          /\ \A f : Has(evq', f) => Has(evq, f)
        BY <1>0, <2>1, HasTail
    <2>3. notifEnabled' => cccdRx
        BY <1>6, <2>2 DEF DispatchLink, DispatchCccd, DispatchTxComplete, LinkInv, nus
    <2> QED
        BY <2>1, <2>2, <2>3 DEF LinkInv, air
<1>7. CASE Inputs
    <2>1. UNCHANGED <<nus, air, evq>>
        BY <1>7 DEF Inputs, DispatchDummyData, DispatchCommand, NotifyUpdate, sd
    <2> QED
        BY <2>1 DEF LinkInv, nus, air
<1>8. CASE HandlerStep
    <2>1. UNCHANGED <<nus, air, evq>>
        BY <1>8 DEF HandlerStep, RetryStop, RunEnd, RunWrongTimer, RunStart, RunStartAgain,
           RunStopNotRunning, RunStopLater, RunStopDelay, RunStopNotify, RunContinue,
           RunContinueIgnored, RunReport, ReportLine, SendExtra, SendFull, SendSuspend,
           SendDone, sd
    <2> QED
        BY <2>1 DEF LinkInv, nus, air
<1>9. CASE UNCHANGED vars
    BY <1>9 DEF vars, nus, sd, air, LinkInv
<1> QED
    BY <1>1, <1>2, <1>3, <1>4, <1>5, <1>6, <1>7, <1>8, <1>9
    DEF Next, Environment, Dispatch

-----------------------------------------------------------------------------
(* The test and the handler that use the link.                             *)

\* At first no test runs and no handler is active.
LEMMA BusyInit == Init => BusyInv
BY DEF Init, BusyInv, Busy

\* Only the events that take the link or the notifications away end them.
LEMMA NusKept ==
    ASSUME TypeOK, LinkInv, [Next]_vars, connHandle, notifEnabled
    PROVE  connHandle' /\ notifEnabled'
<1>0. evq \in Seq(Events)
    BY DEF TypeOK, SoftDeviceOK
<1>1. CASE DispatchLink \/ DispatchCccd
    <2>1. Has(evq, Head(evq))
        BY <1>0, <1>1, HasTail DEF DispatchLink, DispatchCccd
    <2> QED
        BY <1>1, <2>1 DEF DispatchLink, DispatchCccd, LinkInv
<1>2. CASE Environment
    BY <1>2 DEF Environment, PeerConnects, LinkLost, RadioSends, PeerWritesRxCccd,
       PeerWritesUpCccd, nus
<1>3. CASE Inputs \/ DispatchTxComplete
    BY <1>3 DEF Inputs, DispatchDummyData, DispatchCommand, NotifyUpdate,
       DispatchTxComplete, nus
<1>4. CASE HandlerStep
    BY <1>4 DEF HandlerStep, RetryStop, RunEnd, RunWrongTimer, RunStart, RunStartAgain,
       RunStopNotRunning, RunStopLater, RunStopDelay, RunStopNotify, RunContinue,
       RunContinueIgnored, RunReport, ReportLine, SendExtra, SendFull, SendSuspend,
       SendDone, nus
<1>5. CASE UNCHANGED vars
    BY <1>5 DEF vars, nus
<1> QED
    BY <1>1, <1>2, <1>3, <1>4, <1>5 DEF Next, Dispatch

\* Without faults every step keeps BusyInv.
LEMMA BusyStep ==
    NoFaults /\ IInv /\ LinkInv /\ BusyInv /\ [Next]_vars => BusyInv'
<1> SUFFICES ASSUME NoFaults, IInv, LinkInv, BusyInv, [Next]_vars PROVE BusyInv'
    OBVIOUS
<1>1. connHandle /\ notifEnabled => connHandle' /\ notifEnabled'
    BY NusKept DEF IInv
<1>2. /\ Busy' => Busy \/ (connHandle' /\ notifEnabled')
      /\ running' => startTick' # 0
    <2>0. ASSUME UNCHANGED <<info, pc>>
          PROVE  /\ Busy' => Busy
                 /\ running' => startTick' # 0
        BY <2>0 DEF info, test, times, Busy, BusyInv
    <2>1. CASE Environment \/ DispatchLink \/ DispatchCccd \/ NotifyUpdate
        <3>1. UNCHANGED <<info, pc>>
            BY <2>1 DEF Environment, PeerConnects, LinkLost, RadioSends,
               PeerWritesRxCccd, PeerWritesUpCccd, DispatchLink, DispatchCccd,
               NotifyUpdate, handler
        <3> QED
            BY <2>0, <3>1
    <2>2. ASSUME NEW n \in UpLengths, DispatchDummyData(n)
          PROVE  /\ Busy' => Busy
                 /\ running' => startTick' # 0
        BY <2>2 DEF DispatchDummyData, test, handler, Busy, BusyInv
    <2>3. ASSUME NEW c \in Commands, DispatchCommand(c)
          PROVE  /\ Busy' => Busy \/ (connHandle' /\ notifEnabled')
                 /\ running' => startTick' # 0
        BY <2>3 DEF DispatchCommand, Run, info, test, times, nus, Busy, BusyInv
    <2>4. CASE DispatchTxComplete
        BY <2>4 DEF DispatchTxComplete, CallSend, info, test, times, IInv,
           OwedOnlyInDownTest, Busy, BusyInv
    <2>5. CASE RetryStop
        BY <2>5 DEF RetryStop, Return, info, test, times, IInv,
           OwedOnlyInDownTest, Busy, BusyInv
    <2>6. CASE RunStart \/ RunContinue
        BY <2>6 DEF RunStart, RunContinue, AtTestWord, AtWord, test, NoFaults,
           Busy, BusyInv
    <2>7. CASE HandlerStep /\ ~RetryStop /\ ~RunStart /\ ~RunContinue
        <3>1. pc \notin {"idle", "tx_complete"}
            BY <2>7 DEF HandlerStep, RunEnd, RunWrongTimer, RunStartAgain,
               RunStopNotRunning, RunStopLater, RunStopDelay, RunStopNotify,
               RunContinueIgnored, RunReport, ReportLine, SendExtra, SendFull,
               SendSuspend, SendDone, AtTestWord, AtWord
        <3>2. UNCHANGED startTick /\ (UNCHANGED running \/ ~running')
            <4>1. CASE RunStopNotify
                BY <4>1 DEF RunStopNotify
            <4>2. CASE SendExtra \/ SendFull \/ SendSuspend \/ SendDone \/ RunStopLater
                BY <4>2 DEF SendExtra, SendFull, SendSuspend, SendDone, RunStopLater,
                   test, times
            <4>3. CASE UNCHANGED info
                BY <4>3 DEF info, test, times
            <4> QED
                BY <2>7, <4>1, <4>2, <4>3 DEF HandlerStep, RunEnd, RunWrongTimer,
                   RunStartAgain, RunStopNotRunning, RunStopDelay,
                   RunContinueIgnored, RunReport, ReportLine
        <3> QED
            BY <3>1, <3>2 DEF Busy, BusyInv
    <2>8. CASE UNCHANGED vars
        BY <2>8 DEF vars, info, test, times, handler, Busy, BusyInv
    <2> QED
        BY <2>1, <2>2, <2>3, <2>4, <2>5, <2>6, <2>7, <2>8
        DEF Next, Inputs, Dispatch
<1> QED
    BY <1>1, <1>2 DEF BusyInv, Busy

-----------------------------------------------------------------------------
(* What waits is woken.                                                    *)

\* At first nothing waits.
LEMMA WakeInit == Init => WakeInv
BY DEF Init, WakeInv, Sending

\* Events and packets in flight do not go away but by being handled.
LEMMA WokenKept ==
    ASSUME TypeOK, NoFaults, [Next]_vars, Woken, ~PeerConnects, ~DispatchTxComplete
    PROVE  Woken'
<1>0. evq \in Seq(Events) /\ inFlight \in Nat
    BY TxAssumption DEF TypeOK, SoftDeviceOK
<1>1. CASE LinkLost
    BY <1>1 DEF LinkLost, NoFaults
<1>2. CASE RadioSends
    <2>1. "tx_complete" \in Events /\ evq' = Append(evq, "tx_complete")
        BY <1>2 DEF RadioSends, Post, Events
    <2>2. Has(evq', "tx_complete")
        BY <1>0, <2>1, HasAppend
    <2> QED
        BY <2>2 DEF Woken
<1>3. ASSUME NEW b \in BOOLEAN, PeerWritesRxCccd(b) PROVE Woken'
    <2>1. PICK e \in Events : evq' = Append(evq, e)
        BY <1>3 DEF PeerWritesRxCccd, Post, Events
    <2>2. Has(evq, "tx_complete") => Has(evq', "tx_complete")
        BY <1>0, <2>1, HasAppend
    <2> QED
        BY <1>3, <2>2 DEF PeerWritesRxCccd, Woken
<1>4. CASE DispatchLink \/ DispatchCccd
    <2>1. /\ evq # <<>> /\ Head(evq) # "tx_complete" /\ evq' = Tail(evq)
          /\ UNCHANGED inFlight
        BY <1>4 DEF DispatchLink, DispatchCccd
    <2>2. Has(evq, "tx_complete") => Has(evq', "tx_complete")
        BY <1>0, <2>1, HasTail
    <2> QED
        BY <2>1, <2>2 DEF Woken
<1>5. CASE \/ \E b \in BOOLEAN : PeerWritesUpCccd(b)
           \/ Inputs \/ HandlerStep \/ UNCHANGED vars
    <2>1. UNCHANGED evq /\ (UNCHANGED inFlight \/ \E r : Take(r))
        BY <1>5 DEF PeerWritesUpCccd, Inputs, DispatchDummyData, DispatchCommand,
           NotifyUpdate, HandlerStep, RetryStop, RunEnd, RunWrongTimer, RunStart,
           RunStartAgain, RunStopNotRunning, RunStopLater, RunStopDelay,
           RunStopNotify, RunContinue, RunContinueIgnored, RunReport, ReportLine,
           SendExtra, SendFull, SendSuspend, SendDone, sd, vars
    <2>2. inFlight > 0 => inFlight' > 0
        BY <1>0, <2>1 DEF Take
    <2> QED
        BY <2>1, <2>2 DEF Woken
<1> QED
    BY <1>1, <1>2, <1>3, <1>4, <1>5 DEF Next, Environment, Dispatch

\* A step outside the sends and the retried stop that leaves the debt and the
\* stop alone.
LEMMA WakeKept ==
    ASSUME WakeInv, Woken => Woken', UNCHANGED <<remaining, stopDown>>,
           \/ UNCHANGED <<pc, cmd, words, caller>>
           \/ pc \notin Sending /\ ~Retrying
    PROVE  WakeInv'
BY DEF WakeInv, Retrying

\* Nothing but missing packets keeps a running test from sending a text.
LEMMA OnlyPacketsFail ==
    ASSUME LinkInv, BusyInv, Busy
    PROVE  StringSend(FALSE) # "success" => inFlight = TxPackets
BY DEF LinkInv, BusyInv, StringSend, Hvx

\* Without faults every step keeps WakeInv.
LEMMA WakeStep ==
    NoFaults /\ IInv /\ LinkInv /\ BusyInv /\ WakeInv /\ [Next]_vars => WakeInv'
<1> SUFFICES ASSUME NoFaults, IInv, LinkInv, BusyInv, WakeInv, [Next]_vars
             PROVE  WakeInv'
    OBVIOUS
<1>1. CASE PeerConnects
    <2>1. ~running /\ remaining = 0 /\ ~stopDown
        BY <1>1 DEF PeerConnects, LinkInv, BusyInv, Busy, IInv, OwedOnlyInDownTest
    <2> QED
        BY <1>1, <2>1 DEF PeerConnects, WakeInv, info, test, counts
<1>2. CASE DispatchTxComplete
    <2>1. remaining # 0 => startTick # 0 /\ timerName = "tsd"
        BY DEF IInv, OwedOnlyInDownTest, BusyInv
    <2>2. stopDown => startTick # 0
        BY DEF IInv, OwedOnlyInDownTest, BusyInv
    <2> QED
        BY <1>2, <2>1, <2>2 DEF DispatchTxComplete, CallSend, WakeInv, Retrying,
           Sending, info, test, counts
<1>3. CASE ~PeerConnects /\ ~DispatchTxComplete
    <2>1. Woken => Woken'
        BY <1>3, WokenKept DEF IInv
    <2>2. CASE Environment \/ DispatchLink \/ DispatchCccd \/ NotifyUpdate
               \/ UNCHANGED vars
        <3>1. UNCHANGED <<info, handler>>
            BY <2>2 DEF Environment, PeerConnects, LinkLost, RadioSends,
               PeerWritesRxCccd, PeerWritesUpCccd, DispatchLink, DispatchCccd,
               NotifyUpdate, vars
        <3> QED
            BY <2>1, <3>1, WakeKept DEF info, test, counts, handler, call
    <2>3. ASSUME NEW n \in UpLengths, DispatchDummyData(n) PROVE WakeInv'
        BY <2>1, <2>3, WakeKept DEF DispatchDummyData, test, handler, call
    <2>4. ASSUME NEW c \in Commands, DispatchCommand(c) PROVE WakeInv'
        <3>1. pc \notin Sending /\ ~Retrying /\ UNCHANGED info
            BY <2>4 DEF DispatchCommand, Idle, Sending, Retrying
        <3> QED
            BY <2>1, <3>1, WakeKept DEF info, test, counts
    <2>5. CASE RetryStop
        <3>1. stopDown => notifEnabled
            BY DEF IInv, OwedOnlyInDownTest, BusyInv, Busy
        <3>2. UNCHANGED <<remaining, stopDown>> /\ pc \notin Sending
            BY <2>5 DEF RetryStop, info, test, counts, Sending
        <3>3. stopDown => Retrying'
            BY <2>5, <3>1 DEF RetryStop, Run, StopDownCommand, Retrying
        <3> QED
            BY <2>1, <3>2, <3>3 DEF WakeInv
    <2>6. CASE \/ RunEnd \/ RunStartAgain \/ RunContinueIgnored
               \/ RunReport \/ ReportLine
        <3>1. pc \in {"run", "report"} /\ UNCHANGED <<remaining, stopDown>>
            BY <2>6 DEF RunEnd, RunStartAgain, RunContinueIgnored, RunReport,
               ReportLine, AtTestWord, AtWord, info, test, counts
        <3>2. \/ words = <<>> \/ Head(words).name # "stop" \/ pc = "report"
            BY <2>6 DEF RunEnd, RunStartAgain, RunContinueIgnored, RunReport,
               ReportLine, AtTestWord, AtWord
        <3>3. pc \notin Sending /\ ~Retrying
            BY <3>1, <3>2 DEF Sending, Retrying, StopWord
        <3> QED
            BY <2>1, <3>1, <3>3, WakeKept
    <2>7. CASE RunWrongTimer
        <3>1. stopDown => ~Retrying
            BY <2>7 DEF RunWrongTimer, RightTimer, IInv, OwedOnlyInDownTest,
               Retrying, Sending
        <3>2. UNCHANGED <<remaining, stopDown>> /\ pc = "run"
            BY <2>7 DEF RunWrongTimer, info, test, counts
        <3> QED
            BY <2>1, <3>1, <3>2 DEF WakeInv, Sending
    <2>8. CASE RunStart \/ RunStopNotRunning
        <3>1. remaining = 0 /\ ~stopDown /\ UNCHANGED <<remaining, stopDown>>
            BY <2>8 DEF RunStart, RunStopNotRunning, IInv, OwedOnlyInDownTest,
               info, test, counts
        <3> QED
            BY <3>1 DEF WakeInv
    <2>9. CASE RunStopLater
        <3>1. Woken
            BY <2>9 DEF RunStopLater, AtTestWord, AtWord, WakeInv, Sending
        <3> QED
            BY <2>1, <3>1 DEF WakeInv
    <2>10. CASE RunStopDelay
        BY <2>10 DEF RunStopDelay, WakeInv, Retrying, info, test, counts
    <2>11. CASE RunStopNotify
        <3>1. remaining = 0 /\ UNCHANGED remaining /\ Busy
            BY <2>11 DEF RunStopNotify, IInv, HandlerInv, counts, Busy
        <3>2. CASE StringSend(FALSE) = "success"
            BY <2>11, <3>1, <3>2 DEF RunStopNotify, WakeInv
        <3>3. CASE StringSend(FALSE) # "success"
            <4>1. inFlight > 0
                BY <3>1, <3>3, OnlyPacketsFail, TxAssumption
            <4> QED
                BY <2>1, <4>1 DEF Woken, WakeInv
        <3> QED
            BY <3>2, <3>3
    <2>12. CASE RunContinue
        <3>1. pc = "run" /\ ~Retrying /\ UNCHANGED stopDown
            BY <2>12 DEF RunContinue, AtTestWord, AtWord, Retrying, StopWord,
               Sending, test
        <3>2. remaining' # 0 => pc' \in Sending
            BY <2>12 DEF RunContinue, CallSend, Sending
        <3> QED
            BY <2>1, <3>1, <3>2 DEF WakeInv
    <2>13. CASE SendExtra \/ SendFull
        <3>1. pc \in Sending /\ pc' \in Sending /\ UNCHANGED <<caller, stopDown>>
            BY <2>13 DEF SendExtra, SendFull, Sending, test
        <3>2. Retrying => Retrying'
            BY <3>1 DEF Retrying, Sending
        <3> QED
            BY <2>1, <3>1, <3>2 DEF WakeInv
    <2>14. CASE SendSuspend
        <3>1. inFlight = TxPackets
            BY <2>14 DEF SendSuspend, StringSend, Hvx
        <3> QED
            BY <2>1, <3>1, TxAssumption DEF Woken, WakeInv
    <2>15. CASE SendDone
        BY <2>1, <2>15 DEF SendDone, WakeInv, Retrying, Sending, test
    <2> QED
        BY <1>3, <2>2, <2>3, <2>4, <2>5, <2>6, <2>7, <2>8, <2>9, <2>10, <2>11,
           <2>12, <2>13, <2>14, <2>15 DEF Next, Inputs, Dispatch, HandlerStep
<1> QED
    BY <1>1, <1>2, <1>3

\* While the link and the CCCDs stand and no clock reads zero, a transfer that
\* waits for transmit packets, and a stop that waits for such a transfer, always
\* has a transmit event queued or a packet in flight that will bring one: what
\* continue_send_byte_up relies on to go on (communication.c).
THEOREM WaitingWoken == ASSUME NoFaults PROVE Spec => []WaitingIsWoken
<1> DEFINE Inv == IInv /\ LinkInv /\ BusyInv /\ WakeInv
<1>1. Init => LinkInv /\ BusyInv /\ WakeInv
    BY LinkInit, BusyInit, WakeInit
<1>2. IInv /\ LinkInv /\ BusyInv /\ WakeInv /\ [Next]_vars
      => (LinkInv /\ BusyInv /\ WakeInv)'
    BY LinkStep, BusyStep, WakeStep DEF IInv
<1>3. Inv => WaitingIsWoken
    BY DEF WakeInv, WaitingIsWoken, Woken, Has, Retrying, Sending
<1> QED
    BY <1>1, <1>2, <1>3, Invariance, PTL DEF Spec
=============================================================================
