----------------------------- MODULE SpeedTest -----------------------------
(***************************************************************************)
(* The throughput test of the firmware: the fields of m_info_t that drive  *)
(* it (communication.c), the Nordic UART service that carries it           *)
(* (ble_nus.c), the transmission of dummy data (long_packet.c), and the    *)
(* part of the SoftDevice these files talk to: link, CCCDs, transmit       *)
(* packets and event queue.                                                *)
(*                                                                         *)
(* SoftDevice events are dispatched one at a time and each handler runs to *)
(* completion, so an event is dispatched only when `pc' is "idle".  The    *)
(* radio and the peer preempt the handler: every step of a handler that    *)
(* calls sd_ble_gatts_hvx or waits is an action of its own, and radio, CCCD*)
(* and link actions may happen between two of them.                        *)
(***************************************************************************)
EXTENDS Integers, Sequences, FiniteSets

CONSTANTS
    SIZE,         \* BLE_NUS_MAX_DATA_LEN: bytes in a full notification
    W,            \* 2^16: byte and packet counters are uint16_t
    TxPackets,    \* transmit packets the SoftDevice has for the connection
    Ticks,        \* values timer_get_ticks() may return
    Commands,     \* well-formed commands the peer may write: [cmd, words]
    UpLengths,    \* lengths of the peer's dummy-data writes
    Faults,       \* which faults the environment may show: "link", "cccd"
    MaxWrites,    \* bound: writes and module messages in a behaviour
    MaxEvents     \* bound: events waiting in the SoftDevice's queue

TestNames == {"tsd", "tsu"}
Uint16 == 0 .. W-1

\* The words after the command's name that have an effect; n is the attribute
\* of CONTINUE.  GET_TIME and GET_PARAMS act once per word, whatever it is.
TestWord == [name : {"start", "stop", "continue"}, n : Uint16]
ReportWord == [name : {"report"}, n : {0}]
Command == [cmd : TestNames, words : Seq(TestWord)]
           \cup [cmd : {"gt", "gp"}, words : Seq(ReportWord)]

ASSUME SizeAssumption == SIZE \in Nat \ {0} /\ W \in Nat /\ W > SIZE
ASSUME TxAssumption == TxPackets \in Nat \ {0}
ASSUME TickAssumption == Ticks \subseteq Nat /\ Ticks # {}
ASSUME CommandAssumption == Commands \subseteq Command
ASSUME UpLengthAssumption == UpLengths \subseteq Uint16
ASSUME BoundAssumption == MaxWrites \in Nat /\ MaxEvents \in Nat \ {0}

VARIABLES
    \* m_info_t
    running,      \* b_timestamp_start: a test is open
    available,    \* b_timestamp_available: GET_TIME has a result to send
    stopDown,     \* b_stop_down: a stop waits for the rest of the transfer
    timerName,    \* timer_name
    byteNumber, nPacket, remaining, total,
    startTick,    \* timestamp_start
    stamp,        \* what m_info_t.timestamp holds: see Stamps
    \* m_nus
    connHandle,   \* conn_handle is valid
    notifEnabled, \* is_notification_enabled
    \* SoftDevice
    link, cccdRx, cccdUp, inFlight, evq,
    \* the handler that is running
    pc, cmd, words, len, i, caller,
    writes        \* number of bounded environment inputs so far

\* timestamp is unset, a tick count taken in the running test, the elapsed
\* milliseconds of the last test, or a number that measures no test.
Stamps == {"unset", "ticks", "ms", "garbage"}

test == <<running, available, stopDown, timerName>>
counts == <<byteNumber, nPacket, remaining, total>>
times == <<startTick, stamp>>
info == <<test, counts, times>>
nus == <<connHandle, notifEnabled>>
air == <<link, cccdRx, cccdUp>>
sd == <<air, inFlight, evq>>
call == <<len, i, caller>>
handler == <<pc, cmd, words, call>>
vars == <<info, nus, sd, handler, writes>>

Events == {"connected", "disconnected", "tx_complete", "cccd_on", "cccd_off"}

Init ==
    /\ running = FALSE /\ available = FALSE /\ stopDown = FALSE
    /\ timerName = "tsd" /\ stamp = "unset" /\ startTick = 0
    /\ byteNumber = 0 /\ nPacket = 0 /\ remaining = 0 /\ total = 0
    /\ connHandle = FALSE /\ notifEnabled = FALSE
    /\ link = FALSE /\ cccdRx = FALSE /\ cccdUp = FALSE
    /\ inFlight = 0 /\ evq = <<>>
    /\ pc = "idle" /\ cmd = "tsd" /\ words = <<>> /\ len = 0 /\ i = 0
    /\ caller = "run" /\ writes = 0

-----------------------------------------------------------------------------
(* The SoftDevice and the peer.                                            *)

CanPost == Len(evq) < MaxEvents
Post(e) == evq' = Append(evq, e)

\* A central connects; ble_advertising.c advertises again only once the
\* application has handled the previous disconnection.
PeerConnects ==
    /\ ~link /\ ~connHandle /\ evq = <<>>
    /\ link' = TRUE /\ cccdRx' = FALSE /\ cccdUp' = FALSE /\ inFlight' = 0
    /\ Post("connected")
    /\ UNCHANGED <<info, nus, handler, writes>>

\* The link drops; the packets not yet acknowledged are discarded.
LinkLost ==
    /\ "link" \in Faults /\ link /\ CanPost
    /\ link' = FALSE /\ inFlight' = 0
    /\ Post("disconnected")
    /\ UNCHANGED <<info, nus, handler, writes, cccdRx, cccdUp>>

\* The peer writes the CCCD of the rx characteristic: the SoftDevice applies
\* it and posts the write event.
PeerWritesRxCccd(b) ==
    /\ link /\ CanPost /\ cccdRx # b
    /\ b \/ "cccd" \in Faults
    /\ cccdRx' = b
    /\ Post(IF b THEN "cccd_on" ELSE "cccd_off")
    /\ UNCHANGED <<info, nus, handler, writes, link, cccdUp, inFlight>>

\* The CCCD of the up characteristic; the program does not follow its event.
PeerWritesUpCccd(b) ==
    /\ link /\ cccdUp # b
    /\ b \/ "cccd" \in Faults
    /\ cccdUp' = b
    /\ UNCHANGED <<info, nus, handler, writes, link, cccdRx, inFlight, evq>>

\* A connection event: k packets are acknowledged and their buffers are free.
RadioSends ==
    /\ link /\ CanPost
    /\ \E k \in 1 .. inFlight : inFlight' = inFlight - k
    /\ Post("tx_complete")
    /\ UNCHANGED <<info, nus, handler, writes, air>>

\* What sd_ble_gatts_hvx answers on a characteristic whose CCCD is `cccd'.
Hvx(cccd) ==
    IF ~link \/ ~cccd THEN "error"
    ELSE IF inFlight = TxPackets THEN "no_tx_packets" ELSE "success"

\* ble_nus_string_send: up selects the characteristic.
StringSend(up) ==
    IF ~connHandle \/ ~notifEnabled THEN "invalid_state"
    ELSE Hvx(IF up THEN cccdUp ELSE cccdRx)

\* A send that succeeds takes one transmit packet.
Take(result) ==
    inFlight' = IF result = "success" THEN inFlight + 1 ELSE inFlight

-----------------------------------------------------------------------------
(* Dispatch of SoftDevice events: ble_evt_dispatch and the handlers below it.*)

Idle == pc = "idle"
Return == pc' = "idle"

DispatchLink ==
    /\ Idle /\ evq # <<>> /\ Head(evq) \in {"connected", "disconnected"}
    /\ evq' = Tail(evq)
    /\ connHandle' = (Head(evq) = "connected")
    /\ UNCHANGED <<info, notifEnabled, air, inFlight, handler, writes>>

DispatchCccd ==
    /\ Idle /\ evq # <<>> /\ Head(evq) \in {"cccd_on", "cccd_off"}
    /\ evq' = Tail(evq)
    /\ notifEnabled' = (Head(evq) = "cccd_on")
    /\ UNCHANGED <<info, connHandle, air, inFlight, handler, writes>>

\* Faulty variant: dummy data counted whether or not a test is running.
DummyDataUnchecked(n) ==
    /\ Idle /\ connHandle /\ writes < MaxWrites
    /\ writes' = writes + 1
    /\ IF timerName = "tsu"
       THEN /\ byteNumber' = (byteNumber + n) % W
            /\ nPacket' = (nPacket + 1) % W
            /\ stamp' = "ticks"
       ELSE UNCHANGED <<byteNumber, nPacket, stamp>>
    /\ UNCHANGED <<test, remaining, total, startTick, nus, sd, handler>>

\* A dummy-data write: bytes that are not framed by 's' and 'e' (parse).
DispatchDummyData(n) ==
    /\ Idle /\ connHandle /\ writes < MaxWrites
    /\ writes' = writes + 1
    /\ IF running /\ timerName = "tsu"
       THEN /\ byteNumber' = (byteNumber + n) % W
            /\ nPacket' = (nPacket + 1) % W
            /\ stamp' = "ticks"
       ELSE UNCHANGED <<byteNumber, nPacket, stamp>>
    /\ UNCHANGED <<test, remaining, total, startTick, nus, sd, handler>>

\* communication_start on a well-formed command: it runs only if the
\* application believes notifications are on.
Run(c) ==
    IF notifEnabled
    THEN pc' = "run" /\ cmd' = c.cmd /\ words' = c.words
    ELSE pc' = "idle" /\ UNCHANGED <<cmd, words>>

DispatchCommand(c) ==
    /\ Idle /\ connHandle /\ writes < MaxWrites
    /\ writes' = writes + 1
    /\ Run(c)
    /\ UNCHANGED <<info, nus, sd, call>>

\* The connection-parameters module reports success: a notification "update".
NotifyUpdate ==
    /\ Idle /\ connHandle /\ writes < MaxWrites
    /\ writes' = writes + 1
    /\ Take(StringSend(FALSE))
    /\ UNCHANGED <<info, nus, handler, air, evq>>

\* Entry of send_dummy_data(n), called from `who'.
CallSend(n, who) == pc' = "extra" /\ len' = n /\ caller' = who

\* Faulty variant: a transfer is not resumed once a stop waits for it.
TxCompleteUnlessStopping ==
    /\ Idle /\ evq # <<>> /\ Head(evq) = "tx_complete"
    /\ evq' = Tail(evq)
    /\ IF startTick # 0 /\ timerName = "tsd" /\ remaining # 0 /\ ~stopDown
       THEN CallSend(remaining, "tx_complete")
       ELSE /\ pc' = IF startTick # 0 THEN "tx_complete" ELSE "idle"
            /\ UNCHANGED <<len, caller>>
    /\ UNCHANGED <<info, nus, air, inFlight, cmd, words, i, writes>>

\* BLE_EVT_TX_COMPLETE: continue_send_byte_up.
DispatchTxComplete ==
    /\ Idle /\ evq # <<>> /\ Head(evq) = "tx_complete"
    /\ evq' = Tail(evq)
    /\ IF startTick # 0 /\ timerName = "tsd" /\ remaining # 0
       THEN CallSend(remaining, "tx_complete")
       ELSE /\ pc' = IF startTick # 0 THEN "tx_complete" ELSE "idle"
            /\ UNCHANGED <<len, caller>>
    /\ UNCHANGED <<info, nus, air, inFlight, cmd, words, i, writes>>

StopWord == [name |-> "stop", n |-> 0]
StopDownCommand == [cmd |-> "tsd", words |-> <<StopWord>>]

\* Faulty variant: the stop is not sent again.
StopForgotten ==
    /\ pc = "tx_complete"
    /\ Return /\ UNCHANGED <<cmd, words>>
    /\ UNCHANGED <<info, nus, sd, call, writes>>

\* ... and once the data went through, the command "s tsd -e e" if a stop waits.
RetryStop ==
    /\ pc = "tx_complete"
    /\ IF stopDown THEN Run(StopDownCommand) ELSE Return /\ UNCHANGED <<cmd, words>>
    /\ UNCHANGED <<info, nus, sd, call, writes>>

-----------------------------------------------------------------------------
(* communication_run: one step per word; `return' abandons the other words. *)

AtWord(name) == pc = "run" /\ words # <<>> /\ Head(words).name = name
NextWord == pc' = "run" /\ words' = Tail(words)
Abandon == Return /\ UNCHANGED words

\* A word of TEST_SPEED_UP or _DOWN, with no running test of the other kind.
RightTimer == running => timerName = cmd
AtTestWord(name) == AtWord(name) /\ cmd \in TestNames /\ RightTimer

RunEnd ==
    /\ pc = "run" /\ words = <<>>
    /\ Return
    /\ UNCHANGED <<info, nus, sd, cmd, words, call, writes>>

RunWrongTimer ==
    /\ pc = "run" /\ words # <<>> /\ cmd \in TestNames /\ ~RightTimer
    /\ Abandon
    /\ UNCHANGED <<info, nus, sd, cmd, call, writes>>

\* Faulty variant: a START does not look whether a test is running.
StartUnchecked ==
    /\ AtWord("start") /\ cmd \in TestNames
    /\ timerName' = cmd /\ running' = TRUE
    /\ byteNumber' = 0 /\ nPacket' = 0
    /\ Take(StringSend(FALSE))
    /\ startTick' \in Ticks
    /\ NextWord
    /\ UNCHANGED <<available, stopDown, remaining, total, stamp, nus, air, evq,
                   cmd, call, writes>>

RunStart ==
    /\ AtTestWord("start") /\ ~running
    /\ timerName' = cmd /\ running' = TRUE
    /\ byteNumber' = 0 /\ nPacket' = 0
    /\ Take(StringSend(FALSE))
    /\ startTick' \in Ticks
    /\ NextWord
    /\ UNCHANGED <<available, stopDown, remaining, total, stamp, nus, air, evq,
                   cmd, call, writes>>

RunStartAgain ==
    /\ AtTestWord("start") /\ running
    /\ Abandon
    /\ UNCHANGED <<info, nus, sd, cmd, call, writes>>

RunStopNotRunning ==
    /\ AtTestWord("stop") /\ ~running
    /\ Abandon
    /\ UNCHANGED <<info, nus, sd, cmd, call, writes>>

\* Bytes are still owed: the stop is put off.
RunStopLater ==
    /\ AtTestWord("stop") /\ running /\ remaining # 0
    /\ stopDown' = TRUE
    /\ Abandon
    /\ UNCHANGED <<running, available, timerName, counts, times, nus, sd, cmd,
                   call, writes>>

\* Faulty variant: a stop does not look at the bytes owed.
StopDelayUnchecked ==
    /\ AtTestWord("stop") /\ running
    /\ pc' = "delay"
    /\ UNCHANGED <<info, nus, sd, cmd, words, call, writes>>

\* nrf_delay_ms(DELAY_NOTIF_STOP) begins.
RunStopDelay ==
    /\ AtTestWord("stop") /\ running /\ remaining = 0
    /\ pc' = "delay"
    /\ UNCHANGED <<info, nus, sd, cmd, words, call, writes>>

\* Faulty variant: closing a test leaves b_stop_down set.
StopFlagKept ==
    /\ pc = "delay"
    /\ Take(StringSend(FALSE))
    /\ IF StringSend(FALSE) = "success"
       THEN /\ running' = FALSE /\ available' = TRUE
            /\ stamp' = IF cmd = "tsd" \/ stamp = "ticks" THEN "ms" ELSE "garbage"
            /\ NextWord
       ELSE Abandon /\ UNCHANGED <<running, available, stamp>>
    /\ UNCHANGED <<stopDown, timerName, counts, startTick, nus, air, evq, cmd, call,
                   writes>>

\* Faulty variants: the test closes whether or not "Stop timer" was queued,
\* and it stays open.
StopUnchecked ==
    /\ pc = "delay"
    /\ Take(StringSend(FALSE))
    /\ stopDown' = FALSE /\ running' = FALSE /\ available' = TRUE
    /\ stamp' = IF cmd = "tsd" \/ stamp = "ticks" THEN "ms" ELSE "garbage"
    /\ NextWord
    /\ UNCHANGED <<timerName, counts, startTick, nus, air, evq, cmd, call, writes>>

StopLeavesOpen ==
    /\ pc = "delay"
    /\ Take(StringSend(FALSE))
    /\ available' = (available \/ StringSend(FALSE) = "success")
    /\ NextWord
    /\ UNCHANGED <<running, stopDown, timerName, counts, times, nus, air, evq, cmd,
                   call, writes>>

\* ... and ends: the test closes only if "Stop timer" could be queued.
RunStopNotify ==
    /\ pc = "delay"
    /\ Take(StringSend(FALSE))
    /\ IF StringSend(FALSE) = "success"
       THEN /\ stopDown' = FALSE /\ running' = FALSE /\ available' = TRUE
            /\ stamp' = IF cmd = "tsd" \/ stamp = "ticks" THEN "ms" ELSE "garbage"
            /\ NextWord
       ELSE /\ Abandon
            /\ UNCHANGED <<stopDown, running, available, stamp>>
    /\ UNCHANGED <<timerName, counts, startTick, nus, air, evq, cmd, call, writes>>

\* Faulty variant: the subtraction is not brought back to 16 bits.
ContinueWide ==
    /\ AtTestWord("continue") /\ running /\ cmd = "tsd"
    /\ IF byteNumber = 0 THEN startTick' \in Ticks ELSE UNCHANGED startTick
    /\ total' = IF remaining # 0 THEN (Head(words).n + total) % W ELSE Head(words).n
    /\ remaining' = total' - remaining
    /\ words' = Tail(words)
    /\ IF remaining' # 0
       THEN CallSend(remaining', "run")
       ELSE pc' = "run" /\ UNCHANGED <<len, caller>>
    /\ UNCHANGED <<test, byteNumber, nPacket, stamp, nus, sd, cmd, i, writes>>

\* CONTINUE n of a DOWN test: n more bytes are asked for.
RunContinue ==
    /\ AtTestWord("continue") /\ running /\ cmd = "tsd"
    /\ IF byteNumber = 0 THEN startTick' \in Ticks ELSE UNCHANGED startTick
    /\ total' = IF remaining # 0 THEN (Head(words).n + total) % W ELSE Head(words).n
    /\ remaining' = (total' - remaining) % W
    /\ words' = Tail(words)
    /\ IF remaining' # 0
       THEN CallSend(remaining', "run")
       ELSE pc' = "run" /\ UNCHANGED <<len, caller>>
    /\ UNCHANGED <<test, byteNumber, nPacket, stamp, nus, sd, cmd, i, writes>>

\* ... without a running test, or in an UP test, the word has no effect.
RunContinueIgnored ==
    /\ AtTestWord("continue")
    /\ ~running \/ cmd = "tsu"
    /\ NextWord
    /\ UNCHANGED <<info, nus, sd, cmd, call, writes>>

\* GET_TIME (when a result is available) and GET_PARAMS send four lines,
\* whatever becomes of each; i counts them.
RunReport ==
    /\ AtWord("report") /\ cmd \in {"gt", "gp"}
    /\ IF cmd = "gt" /\ ~available
       THEN NextWord /\ UNCHANGED i
       ELSE pc' = "report" /\ i' = 0 /\ UNCHANGED words
    /\ UNCHANGED <<info, nus, sd, cmd, len, caller, writes>>

ReportLine ==
    /\ pc = "report"
    /\ Take(StringSend(FALSE))
    /\ i' = i + 1
    /\ IF i = 3 THEN NextWord ELSE UNCHANGED <<pc, words>>
    /\ UNCHANGED <<info, nus, air, evq, cmd, len, caller, writes>>

-----------------------------------------------------------------------------
(* send_dummy_data: first the odd bytes, then packets of SIZE while i < len. *)

Extra == len % SIZE

SendExtra ==
    /\ pc = "extra"
    /\ IF Extra # 0
       THEN Take(StringSend(TRUE)) /\ nPacket' = (nPacket + 1) % W
       ELSE UNCHANGED <<inFlight, nPacket>>
    /\ i' = 0
    /\ pc' = IF len > SIZE THEN "full" ELSE "sent"
    /\ UNCHANGED <<test, byteNumber, remaining, total, times, nus, air, evq, cmd,
                   words, len, caller, writes>>

\* Faulty variant: a packet that could not be sent is tried again at once.
SendFullUntilSent ==
    /\ pc = "full" /\ i < len /\ StringSend(TRUE) # "no_tx_packets"
    /\ Take(StringSend(TRUE))
    /\ nPacket' = (nPacket + 1) % W
    /\ i' = IF StringSend(TRUE) = "success" THEN (i + SIZE) % W ELSE i
    /\ UNCHANGED <<test, byteNumber, remaining, total, times, nus, air, evq, pc,
                   cmd,
                   words, len, caller, writes>>

SendFull ==
    /\ pc = "full" /\ i < len /\ StringSend(TRUE) # "no_tx_packets"
    /\ Take(StringSend(TRUE))
    /\ nPacket' = (nPacket + 1) % W
    /\ i' = (i + SIZE) % W
    /\ UNCHANGED <<test, byteNumber, remaining, total, times, nus, air, evq, pc,
                   cmd, words, len, caller, writes>>

\* Faulty variants: the bytes counted from the debt before the call, and the
\* debt measured from the request instead of from the length of this call.
SuspendCountsOldDebt ==
    /\ pc = "full" /\ i < len /\ StringSend(TRUE) = "no_tx_packets"
    /\ remaining' = (len - Extra - i) % W
    /\ byteNumber' = (total - remaining) % W
    /\ pc' = caller
    /\ UNCHANGED <<test, nPacket, total, times, nus, sd, cmd, words, call, writes>>

SuspendFromTotal ==
    /\ pc = "full" /\ i < len /\ StringSend(TRUE) = "no_tx_packets"
    /\ remaining' = (total - Extra - i) % W
    /\ byteNumber' = (total - remaining') % W
    /\ pc' = caller
    /\ UNCHANGED <<test, nPacket, total, times, nus, sd, cmd, words, call, writes>>

\* BLE_ERROR_NO_TX_PACKETS: the rest waits for BLE_EVT_TX_COMPLETE.
SendSuspend ==
    /\ pc = "full" /\ i < len /\ StringSend(TRUE) = "no_tx_packets"
    /\ remaining' = (len - Extra - i) % W
    /\ byteNumber' = (total - remaining') % W
    /\ pc' = caller
    /\ UNCHANGED <<test, nPacket, total, times, nus, sd, cmd, words, call, writes>>

\* Faulty variant: a finished transfer leaves its debt standing.
DoneStillOwed ==
    /\ pc = "sent" \/ (pc = "full" /\ i >= len)
    /\ byteNumber' = (byteNumber + len) % W
    /\ pc' = caller
    /\ UNCHANGED <<test, nPacket, remaining, total, times, nus, sd, cmd, words,
                   call,
                   writes>>

SendDone ==
    /\ pc = "sent" \/ (pc = "full" /\ i >= len)
    /\ byteNumber' = (byteNumber + len) % W
    /\ remaining' = 0
    /\ pc' = caller
    /\ UNCHANGED <<test, nPacket, total, times, nus, sd, cmd, words, call, writes>>

-----------------------------------------------------------------------------
Environment ==
    \/ PeerConnects \/ LinkLost \/ RadioSends
    \/ \E b \in BOOLEAN : PeerWritesRxCccd(b) \/ PeerWritesUpCccd(b)

Inputs ==
    \/ \E n \in UpLengths : DispatchDummyData(n)
    \/ \E c \in Commands : DispatchCommand(c)
    \/ NotifyUpdate

Dispatch == DispatchLink \/ DispatchCccd \/ DispatchTxComplete

HandlerStep ==
    \/ RetryStop
    \/ RunEnd \/ RunWrongTimer \/ RunStart \/ RunStartAgain
    \/ RunStopNotRunning \/ RunStopLater \/ RunStopDelay \/ RunStopNotify
    \/ RunContinue \/ RunContinueIgnored \/ RunReport \/ ReportLine
    \/ SendExtra \/ SendFull \/ SendSuspend \/ SendDone

Next == Environment \/ Inputs \/ Dispatch \/ HandlerStep

Spec == Init /\ [][Next]_vars

\* A handler that has begun goes on; the SoftDevice event interrupt stays
\* pending while the queue holds events; a link that stays up has connection
\* events and acknowledges what is queued.  Neither the peer nor the faults
\* are fair.
FairSpec ==
    /\ Spec
    /\ WF_vars(HandlerStep) /\ WF_vars(Dispatch) /\ WF_vars(RadioSends)
-----------------------------------------------------------------------------
(* Properties.                                                             *)

Sending == {"extra", "full", "sent"}

InfoOK ==
    /\ running \in BOOLEAN /\ available \in BOOLEAN /\ stopDown \in BOOLEAN
    /\ timerName \in TestNames /\ stamp \in Stamps
    /\ byteNumber \in Uint16 /\ nPacket \in Uint16
    /\ remaining \in Uint16 /\ total \in Uint16
    /\ startTick \in Ticks \cup {0}

NusOK == connHandle \in BOOLEAN /\ notifEnabled \in BOOLEAN

SoftDeviceOK ==
    /\ link \in BOOLEAN /\ cccdRx \in BOOLEAN /\ cccdUp \in BOOLEAN
    /\ inFlight \in 0 .. TxPackets /\ evq \in Seq(Events)

HandlerOK ==
    /\ pc \in {"idle", "run", "delay", "report", "tx_complete"} \cup Sending
    /\ cmd \in TestNames \cup {"gt", "gp"}
    /\ words \in Seq(TestWord \cup ReportWord)
    /\ pc \in {"delay", "report"} => words # <<>>
    /\ len \in Uint16 /\ i \in Nat /\ caller \in {"run", "tx_complete"}
    /\ writes \in 0 .. MaxWrites

TypeOK == InfoOK /\ NusOK /\ SoftDeviceOK /\ HandlerOK

\* Bytes are owed, and a stop is put off, only while a DOWN test is open: no
\* order of commands, transmit events and reconnections leaves one behind
\* for a test of the other kind (communication_run, continue_send_byte_up).
OwedOnlyInDownTest ==
    remaining # 0 \/ stopDown => running /\ timerName = "tsd"

\* What a handler in progress relies on across its waits and sends: the debt
\* is the length being sent, and the test it is about to close is the running
\* one and owes nothing.
HandlerInv ==
    /\ pc \in Sending =>
        running /\ timerName = "tsd" /\ remaining = len /\ len # 0
    /\ pc = "delay" => running /\ timerName = cmd /\ remaining = 0

\* The largest length send_dummy_data counts without i wrapping round (65520).
NoWrap == (W - 1) - ((W - 1) % SIZE)

\* Up to that length the index of the loop stays a multiple of SIZE and never
\* wraps; beyond it the loop may not end.
LoopInv == pc = "full" /\ len <= NoWrap => i % SIZE = 0 /\ i <= NoWrap

\* A transfer that waits has something that will wake it: BLE_EVT_TX_COMPLETE
\* is queued or a packet is in flight.  Likewise a stop that was put off.
\* Only while link and CCCDs stand and no start tick is zero.
WaitingIsWoken ==
    (remaining # 0 /\ pc \notin Sending) \/ (stopDown /\ pc = "idle") =>
        inFlight > 0 \/ \E k \in 1 .. Len(evq) : evq[k] = "tx_complete"

\* A test never closes with bytes owed, not even by way of a stop put off,
\* and the delay before "Stop timer" leaves that true.
ClosesPaid == [][running /\ ~running' => remaining = 0 /\ remaining' = 0]_vars

\* Events that come late (transmit events of the last packets, dummy data
\* still under way) leave the result of a closed test alone.
LateEventsHarmless ==
    [][~running /\ ~running' =>
        UNCHANGED <<timerName, byteNumber, nPacket, remaining, total, stamp>>]_vars

\* A transmit event never makes the debt of a transfer grow.
ResumeShrinks ==
    [][len <= NoWrap /\ pc \in Sending => remaining' <= remaining]_vars

\* A transfer resumed by a transmit event counts just what it takes off the
\* debt, suspended again or not, whatever CONTINUEs made that debt and whatever
\* was counted before: the count is computed from total_byte, the debt from the
\* length and the index.  (A CONTINUE itself may do otherwise: suspended after
\* another one completed, it throws away what was counted for that one.)
CountedAndOwed == (byteNumber + remaining) % W
ResumeAccounts ==
    [][caller = "tx_complete" /\ pc \in Sending => UNCHANGED CountedAndOwed]_vars

\* send_dummy_data returns, also when the link drops under it and every send
\* fails, as long as the length is within NoWrap.
SendReturns == (pc \in Sending /\ len <= NoWrap) ~> pc \notin Sending

\* What a handler has still to do: the stop it may retry, the words it may still
\* take, and the steps within one word or one call of send_dummy_data.
WillRetry == pc = "tx_complete" \/ (pc \in Sending /\ caller = "tx_complete")
WordsToRun == IF WillRetry \/ pc = "idle" THEN 0 ELSE Len(words)
StepsToRun ==
    CASE pc = "extra"  -> len + 8
      [] pc = "full"   -> 7 + IF i < len THEN len - i ELSE 0
      [] pc = "sent"   -> 6
      [] pc = "run"    -> 5
      [] pc = "report" -> 4 - i
      [] OTHER         -> 0

\* No handler runs for ever, whatever the link, the radio and the peer do
\* meanwhile: each of its steps leaves less to do, also those of the stop it
\* retries as a command of its own, as long as the loop's length is within NoWrap.
HandlersRunOut ==
    [][HandlerStep /\ (pc = "full" => len <= NoWrap) =>
        \/ WillRetry /\ ~WillRetry'
        \/ /\ WillRetry' = WillRetry
           /\ \/ WordsToRun' < WordsToRun
              \/ WordsToRun' = WordsToRun /\ StepsToRun' \in 0 .. StepsToRun - 1
              \/ pc' = "idle"]_vars

\* A stop that was put off is served in the end, without the phone asking
\* again (continue_send_byte_up sends itself "s tsd -e e").
StopServed == stopDown ~> ~stopDown

\* The program implements the abstract control of a test.
Control == INSTANCE TestControl WITH
    Kinds <- TestNames, DownKind <- "tsd",
    phase <- IF ~running THEN "idle" ELSE IF stopDown THEN "stopping" ELSE "open",
    kind <- timerName, owed <- remaining # 0, result <- available

ControlSpec == Control!Spec
ControlFairSpec == Control!FairSpec
=============================================================================
