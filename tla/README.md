# A verification development for ble_benchmarking

The repository is the firmware of a Nordic nRF51 board (S130 SoftDevice, SDK 11)
that measures Bluetooth LE throughput against a phone, a macro that drives the
phone, and a script that turns the phone's log into a table. The phone writes text
commands to a characteristic of a modified Nordic UART service
(`s test_speed_down -start -continue 512 -stop e`). The firmware opens a test,
transmits or counts dummy data, closes the test and reports time, bytes and packets.

This directory models the program in TLA+, checks the models with TLC on small
instances and proves what matters most with TLAPS.

## 1. Inventory

| part | source | state | operations | modelled |
|---|---|---|---|---|
| Throughput test control | `src/communication.c`, `.h` | `m_info_t`: open test, kind, counts, debt, time stamps, stop put off | `communication_start`, `parse` (dummy data), `communication_run`, `continue_send_byte_up` | `SpeedTest`, `TestControl`, `Claims` |
| Dummy-data transmission | `src/long_packet.c` | none of its own (writes `m_info_t`) | `send_dummy_data`, `BLE_EVT_TX_COMPLETE` | `SpeedTest`, `Meter` |
| Long writes | `src/long_packet.c` | `m_queued`, `m_user_block` | user memory request and release | `LongWrite` |
| Nordic UART service | `src/ble_nus.c` | `conn_handle`, `is_notification_enabled` | connect, disconnect, write, `ble_nus_string_send` | `SpeedTest` |
| Command parser | `src/communication.c` | the message and its words | `parse`, `get_type`, `check_input_word_exist`, `check_argument_number` | `Parser`, `Grammar` |
| Connection parameters | `src/communication.c` (SET_PARAM, GET_PARAMS), SDK `ble_conn_params.c`, `main.c` | `conn_params`, `current_conn_params`, the module's preferred and current parameters, attempt counter, timer | SET_PARAM, negotiation, update time-out, `on_conn_params_evt` | `Connection`, `Negotiation`, `ConnectionClaims` (the success message is an action of `SpeedTest`) |
| Timer | `src/timer_packet.c`, SDK `app_timer` | 24-bit tick counter | `timer_get_ticks`, `timer_ticks_to_ms` | `TimerPacket`; ticks are a choice in `SpeedTest` |
| Application main | `src/main.c` | `m_conn_handle`, UART line buffer | event dispatch, advertising events, buttons, UART line | dispatch in `SpeedTest` and `Connection`, buttons in `Connection`, UART line in `UartBridge` |
| Advertising and sleep | SDK `ble_advertising.c`, `main.c` | advertising mode | start, time-out, system-off | `Connection` |
| Timer operations | SDK `app_timer.c` | queue of start and stop operations, list of running timers | `app_timer_start`, `app_timer_stop`, `timer_list_handler` | `Connection`, as far as the update timer uses them |
| Log extraction | `benchmark.bat` | fields of the row being built, `msg_check` | one step per line of the log | `Bench` |
| Phone macro | `macro/*.xml` | none | a fixed list of writes and waits | its commands are inputs |
| Security mode, error display | `src/security_mode.c`, `src/communication_error.c` | none that matters | not called (`main.c` has the calls commented out); prints on the debug channel | not modelled |
| SoftDevice | binary | link, CCCDs, transmit packets, event queue | `sd_ble_gatts_hvx`, events | external part of `SpeedTest` and `Connection` |
| UART FIFO | SDK `app_uart_fifo.c` | receive FIFO | events of received bytes and errors | in `UartBridge`, as far as the program sees it |
| Vendored SDK | `sdk11/` | | drivers, libraries, and an older copy of the program among the examples | not modelled |

### How the parts interact

The SoftDevice raises an interrupt while its event queue is not empty; the handler
takes one event at a time and gives it to every module in the order of
`ble_evt_dispatch`. Each handler runs to completion before the next event is taken.
So the shared state `m_info_t` has no data race, but three things go on during a
handler: the radio acknowledges packets, the SoftDevice applies the peer's CCCD
writes, and the link may drop. The results of `sd_ble_gatts_hvx` therefore change
between two calls of one handler, and `send_dummy_data` and the one-second wait
before "Stop timer" are long enough for all of it to happen.

### What is hard

* A DOWN transfer takes more packets than the SoftDevice has buffers. It is
  suspended on `BLE_ERROR_NO_TX_PACKETS`, the debt is kept in `remaining_byte`, and
  every `BLE_EVT_TX_COMPLETE` calls `send_dummy_data` again. Each suspension
  recomputes the debt and the byte count, and CONTINUE decides by a byte count of
  zero whether it begins the test.
* A stop that comes while bytes are owed is put off (`b_stop_down`) and retried by
  the program on every later transmit event. "Stop timer" itself may then find no
  free packet; the test must stay open and the stop must be retried again.
* Nothing resets `m_info_t` or `is_notification_enabled` on a disconnection.
* Counters are 16 bits wide, and the index of the sending loop as well.
* Events wait while a handler runs, and `on_conn_params_evt` waits a second: the handles
  and the current interval of the modules lag behind the link.
* Starting and stopping a timer only queues an operation. The interrupt that performs
  them does all deletions before all insertions, and does not run between two events
  that one call of the SoftDevice handler takes.
* Most errors are answered with a reset: an error the code did not expect at that
  moment costs the connection.
* Three fields are used as flags and as values (`timestamp_start`,
  `remaining_byte`, `byte_number`).
* The results of sending "Start timer" and the lines of GET_TIME are ignored: what the
  phone, and the script behind it, believe of the tests is made of the notifications
  that found a packet.
* `parse` compares its cursor with the end by `!=` and moves it in two places, and
  `communication_run` takes attributes without looking whether there are any.
* The tick counter has 24 bits, the milliseconds are computed in 32.
* A long write comes through a buffer that the SoftDevice fills and nobody clears.

### What makes the parts correct

* Control: at most one test is open; only an open DOWN test owes bytes or has a
  stop put off; a test closes only when it owes nothing; late events leave a closed
  result alone; a put-off stop is served.
* Transmission: a resumed transfer counts what it takes off the debt; the loop index does not
  wrap; a transmit event never increases the debt; the function returns; what is
  counted is what was handed over, up to a known error.
* Parser: accepts exactly the grammar of the command table; never reads a word it
  has not filled.
* Connection parameters: what GET_PARAMS reports was accepted by the SoftDevice; a
  refused value does not come back; negotiation ends, after the configured requests;
  the program's view of the link is right once its events are handled; the device can
  be reached again after every disconnection, and its connection does not reset it without need.
* Timer: the elapsed time of a test of bounded length and plain requests is right.
* Long writes: what is handed over is what the phone wrote.
* Log extraction: a row holds values of one test only, the rows are in the order of the
  tests, and a test that closed has its row.

The hazards, each at its line and with the property that covers it, are listed in
`PROJECT.json`.

## 2. The modules

| module | what it is |
|---|---|
| `TestControl` | abstract specification: a test is idle, open or stopping; Open, Transfer, PutOff, Close |
| `SpeedTest` | the detailed model: `m_info_t`, NUS, `send_dummy_data`, SoftDevice; its properties |
| `Claims` | statements of comments that the code does not keep |
| `Meter` | `SpeedTest` with history variables that count what the SoftDevice accepted |
| `UartBridge` | `SpeedTest` with the UART line of `main.c` and the resets its errors cause |
| `Bench` | `UartBridge` with the lines the phone logs, and the rows `benchmark.bat` makes of them |
| `MCSpeedTest`, `MCMeter`, `MCBench` | commands of the checked instances |
| `SpeedTest_proofs`, `Waiting_proofs` | the theorems about `SpeedTest`; that what waits is woken |
| `Meter_proofs`, `Bench_proofs` | the theorems about `Meter`, and about `UartBridge` and `Bench` |
| `Connection` | link, advertising, sleep, negotiation of the interval, SET_PARAM and GET_PARAMS, timer operations; its properties |
| `Negotiation` | `Connection` with a history variable that counts requests |
| `ConnectionClaims` | statements of comments about them that the code does not keep |
| `MCConnection`, `MCNegotiation` | parameters and commands of the checked instances |
| `Connection_proofs` | the theorems about `Connection` and `Negotiation` |
| `Parser` | a message, the words it is cut into, the table they are looked up in and the walk over them |
| `Grammar` | the reference: which messages are commands, said of the whole message |
| `MCParser`, `Parser_proofs` | messages of the checked instance; the theorems about `Parser` |
| `TimerPacket`, `TimerPacket_proofs` | tick counter, time stamps and milliseconds in their widths; the theorems about them |
| `LongWrite` | the buffer of long writes, between SoftDevice and program |
| `MCLongWrite`, `LongWrite_proofs` | values of the checked instance; the theorems about `LongWrite` |

`SpeedTest` and `Connection` are separate: the negotiation reads nothing of the test, and
the test only meets it as a notification that takes a transmit packet, which is
`NotifyUpdate` in `SpeedTest`. `Bench` composes the test, the UART, the radio, the phone's log
and the script. `Parser`, `TimerPacket` and `LongWrite` are modules of their own because what
they keep from each other and from `SpeedTest` is narrow: a list of words, a number, a
string of bytes.

### How SpeedTest corresponds to the code

Variables of the first two groups carry the names of the C fields (`running` is
`b_timestamp_start`, `available` is `b_timestamp_available`, `stopDown` is
`b_stop_down`). `stamp` stands for the value of `timestamp` by what it measures:
nothing yet, a tick of the running test, the milliseconds of the last test, or a
difference that measures no test. The handler in progress is `pc` with its locals:
`words` (the words not yet processed), `len` and `i` of `send_dummy_data`, and
`caller`, the function it returns to.

A handler is cut into one action per step at which it calls the SoftDevice or waits:

* `communication_run` takes one action for each word. `RunStart`, `RunStopLater`,
  `RunStopDelay`/`RunStopNotify` and `RunContinue` are the branches with an effect;
  `RunStartAgain`, `RunStopNotRunning` and `RunWrongTimer` are its `return`s, which
  abandon the words that are left; `RunContinueIgnored` goes on with the next word.
* `send_dummy_data` is `SendExtra` (the odd bytes), `SendFull` (one turn of the
  loop), `SendSuspend` (the early return) and `SendDone`.
* `continue_send_byte_up` is `DispatchTxComplete` and, after the data, `RetryStop`,
  which runs the program's own command `s tsd -e e`.
* `ReportLine` is one of the four notifications of GET_TIME or GET_PARAMS.

Conventions that a reader of the code should know:

* A write of the peer is not put into the event queue but made up when it is
  dispatched; the queue's order of writes against other events is still arbitrary,
  so nothing is lost. Transmit, link and CCCD events do go through the queue,
  because the code depends on what happened between the event and its dispatch.
* The words of a command are those with an effect; the command's own name is a word
  too, and no branch takes it, except that GET_TIME and GET_PARAMS act once for every
  word, their own name included. MODIFY and the commands SET_PARAM and
  GET_CONNECTION_SECURITY do not touch the state of the test.
* `atoi` of the attribute of CONTINUE is stored in a `uint16_t`: `n` is any such value.
* The program does not follow the CCCD of the up characteristic, so its write event
  is not queued.
* Each "Faulty variant" is a plausible bug, used to show that a property can fail.
  They are not part of `Next`.

The SoftDevice is modelled as far as the program uses it: `Hvx` answers "error"
without link or CCCD, "no_tx_packets" when all packets are taken; an
acknowledgement frees packets and posts a transmit event; a lost link discards the
packets in flight, and no transmit event follows.

### How Connection corresponds to the code

The state is that of the SoftDevice (`link`, its `interval`, the update `procedure` in
progress, the event queue), of `ble_conn_params.c` (`current`, `updateCount` and whether
the `timer` runs), of `app_timer.c` (`ops`) and the two parameter sets of `m_info_t`.
`connHandle` stands for the connection handles of all modules, which the same event
sets in one handler. `power` is "asleep" in system-off and "reset" after an error; a
device in either state has lost everything and begins again with `Boot`.

* Every handler runs at one interrupt priority and its effects on this state do not
  depend on what happens under it, so it is one step. `Dispatch*` are the handlers of
  all modules for one event, in the order of `ble_evt_dispatch`, including the restart of
  advertising.
* `draining` is set while the SoftDevice interrupt takes events, one `Take` after the
  other. During that time the interrupt of the timer does not come: `ops` grows with
  each event, and a fifth operation resets the device (`TimerQueueFull`).
* `TimerListUpdate` is `timer_list_handler`. It deletes first and inserts afterwards, so
  a start followed by a stop leaves the timer running. `app_timer_stop` also clears
  `is_running` at once, which is `timer' = FALSE` in `DispatchDisconnected`.
* The timer expires at any time; 5 s and 30 s are not distinguished.
* `UpdateTimeoutLate`, `UpdateTimeoutAsks` and `UpdateTimeoutGivesUp` are the three branches of
  `update_timeout_handler`, the last one with `on_conn_params_evt`. Any error of the
  SoftDevice is a reset.
* `SetParam` stores the value in `conn_params` before the SoftDevice is asked, and in
  `current_conn_params` only for the field named, if it accepts. `Units` and `Ms` are the
  conversions of the code. `GetParams` overwrites `conn_params` with the PPCP.
* A write of the peer is made up when it is dispatched, while `connHandle` is set: the
  events dispatched before it may have been posted before or after the write.
* `ButtonDisconnect` and `ButtonSleep` are guarded by what `bsp_btn_ble.c` assigns to the
  buttons while connected and while not.

`UpdateResult` and `Valid` are the SoftDevice as `ble_gap.h` documents it: a request on a link
that is down or closing, during another request, or outside the limits is refused.

### How Parser corresponds to the code

A position in the message is a pointer of the code, and one step is one turn of a loop.
`Frame` is the test for `s` and `e`; `WordGoesOn`, `NoWordOpen`, `CloseWord` and
`CloseEmptyWord` are a turn of the loop of `parse` up to `i += skip`; `OpenWord` and
`TooManyWords` are the rest of that turn. `Skip` is what `skip_separator` returns, the number
of separators modulo the 256 of its `uint8_t` (`SkipWidth`).
`CheckWord` is a turn of `check_input_word_exist` with `check_argument_number`; `RunWord` and
`RunWithAttributes` are turns of `communication_run`, as far as it moves its index, and
`RunEnds` is any of its returns, which `SpeedTest` has with their conditions.

* `check_input_word_exist` admits a command whose attribute would lie one word behind the last.
  `TypeAt` is what the code finds there: a word not begun is zero by `memset`; behind the
  array lies `nWord`. `MaxWordAssumption` is why that is no type; 16 of the code satisfies it.
* A name is compared as a whole: `strcmp` of a word that `parse` has terminated. A message
  contains no zero byte.
* Letters are already lower case. MCParser gives one letter to each name.
* `Grammar` says what a command is without reading it from left to right: the words are
  the maximal stretches without separators, those that begin with `-`, and the first, begin a
  phrase, and each phrase is a name with just its attributes. `AcceptsGrammar` compares them
  for messages whose stretches of separators can be counted (`Countable`); what happens to
  the others is finding `claim_accepted`.

### How UartBridge and Bench correspond to the code

`UartByte` is `APP_UART_DATA_READY`: a byte is gathered, and a line that ends, or fills the
array, is sent. The interrupt of the UART has the priority of the SoftDevice's events, so it
comes only between handlers. `LineFails` is `APP_ERROR_CHECK` on any answer but success and
`NRF_ERROR_INVALID_STATE`; `Reset` is the error handler: everything begins again, and the
link is gone. `SpeedTest` has one result, "error", for everything a send may be refused
with that is neither missing packets nor a state of the program; both outcomes are allowed
for it.

In `Bench` the tests are numbered in the order in which they open. A line stands for its
text and for the tests its value was taken from, which is what the properties compare.
`timeOf` is what `timestamp` was made of, and `KeepsTime` follows it: no test after a reset, the
running test from its first data or its end on, and, for an UP test that closes without data,
this test and all that the time stamp was made of before (`communication.c` 357 subtracts the
start of one test from the time stamp of another). The time and the debit of a report
are of these tests and of the last one opened (`Line`). `bare` is history: the UP tests closed
with a time stamp of others. `airq` has the lines in flight, next to the packets `SpeedTest` counts.
`Reads` is the body of the script's loop over the log; a row is what the loop holds between
two "Stop timer". `untold` and `unclosed` are history: the tests whose "Start timer" or
"Stop timer" the phone did not get. `RowOfOneTest` says in which two cases a row has values of
two tests: the phone was not told of the second, or the row is of a `bare` test and the
value is a time.

### How TimerPacket corresponds to the code

`now` is true time in ticks, and the code sees `now % Counter`: the repeated timer that
`main.c` starts keeps the counter running. `Start`, `Continue`, `Data`, `StopDelay`,
`StopRefused` and `StopNotified` take their time stamps where `communication.c` does. A CONTINUE
starts the clock again while `byte_number` is 0, and `byte_number` is recomputed by every
suspended transfer, so the counts are here too: `Continue` and `Resume` do the whole arithmetic of
the code on `byte_number`, `remaining_byte` and `total_byte`, with one step for each call of
`send_dummy_data`. `Transfer` is what such a call can leave behind, all of it sent or any debt at
which the loop can be refused a packet (`Rests`); `SpeedTest` has its steps.

`from`, `to`, `counted` and `plain` are history: when the test began, which a CONTINUE may say anew
as long as no byte of it was counted, when it ended, whether bytes were counted, and whether its
requests are plain. `TimeRight` compares what GET_TIME reports with `from` and `to`, for a test that is

* `Measurable`: not longer than 536870 ticks (131 s), where the product exceeds 32 bits, and
  not across a wrap of the counter, which shifts the result by 98304 ms. An UP test without
  data is left out;
* `plain`, if it is a DOWN test: no request follows a completed one, and the sums made of its
  requests stay within `NoWrap`. The phone's macro keeps to that: it asks for 512 bytes once. Without
  this limit `byte_number` can come back to 0 after bytes went out, and the next CONTINUE
  starts the clock again: finding `claim_time`.

### How LongWrite corresponds to the code

`m_queued` is the buffer. The SoftDevice's part is external: it asks for the buffer
with the first piece, puts each piece behind the last, a header of three 16-bit fields
before it and a handle of zero behind it, and gives the buffer back when the phone executes or
cancels the write or the link is lost. That layout is what `long_packet.c` relies on, and the
zero behind the last piece is what its loop ends on; a piece is refused when there is no
room for it. `ByteSize`, 256 in reality, is what makes a 16-bit field of two bytes. `Walk` is one
turn of the loop over the buffer, `Return` the end of the handler that was given the bytes.

* The phone writes a value from its beginning without gaps, as long writes are defined. The
  code does not look at it: an offset beyond the buffer would be written to.
* A cancelled or interrupted write is handed over like any other, with the pieces that
  arrived. If they happen to be a framed command it is run.

## 3. The runs

The runs named `speed_test_*`, `meter_bytes` and `bench` are about the throughput test.

Packets have 3 bytes instead of 20 and the SoftDevice has 2 transmit packets.
What the code distinguishes about a length is whether it has odd bytes, is less than,
equal to or more than a packet, and whether it needs more packets than are free:
lengths up to 10 show all of it. Two packets are enough for the odd bytes and the
loop to compete, and for "Stop timer" to find none. `MaxWrites` bounds the writes of
the phone and `MaxEvents` the SoftDevice's queue; every other action is unbounded.

| run | checks | bounds and reasons |
|---|---|---|
| `speed_test_safety` | types, `HandlerInv`, `OwedOnlyInDownTest`, `ClosesPaid`, `LateEventsHarmless`, `ResumeShrinks`, `ResumeAccounts`, `ControlSpec`, `HandlersRunOut`, `SendReturns` under `FairSpec` | link losses and CCCD writes allowed; counters modulo 8, so that they wrap and a request of 7 exceeds the largest countable length 6; three writes of all commands; start ticks 0 and 1; deadlock checked |
| `speed_test_live` | `WaitingIsWoken`, `StopServed`, `ControlFairSpec` under `FairSpec` | no faults, because a link that is lost takes the waking event with it (finding `claim_stop`); start tick 1, because a test that starts at tick 0 is not resumed (see below); four writes; three queued events; counters modulo 32 so that no length wraps |
| `meter_bytes` | `CountWithinTwoPackets` | one request per test, lengths 3, 7 and 8 (one packet, odd bytes 1 and 2); link losses; both bounds are reached; the commands are `SingleRequests`, as the theorem asks |
| `connection` | types, `EventsInOrder`, `CaughtUp`, `ReportedLegal`, `ResetNeedsRace`, `GivesUpAfterAll`, `NegotiationEnds`, `StaysReachable` under `HistoryFairSpec` | the parameters of `def.h`, one acceptable interval and one that is not, three requests and four timer operations as in the code; commands with values that are taken alone or only together, and one that is never taken; three waiting events, so that a connection, its update and its end wait together; no bound on the number of connections, commands or updates; deadlock checked |
| `bench` | `BenchTypeOK`, `RowOfOneTest`, `RowsInOrder`, `ClosedIsTold` | packets of 2 bytes, two of them; tests of both kinds and GET_TIME in three writes, one event waiting at a time (link losses and acknowledgements still come between the steps of a handler), so that values of two tests can meet in a row; an UP test may be begun and stopped by two writes, with data between them. Both exceptions of `RowOfOneTest` are reached; the report of an UP test with data would be a fourth write: that its row is unmixed too is what `RowsUnmixed` proves. UART lines of one and two bytes; UART errors and link losses; deadlock checked |
| `parser` | types, `CursorInMessage`, `WordsInArray`, `AttributesFilled`, `AcceptsGrammar`, `StepsRunOut`, `Ends` under `FairSpec` | some 17000 messages: all of up to four characters, all framed ones of up to seven, lists of up to seven words of an alphabet of names, empty names and junk, and words with one to seven separators between them; separators counted modulo 3; an array of five words; deadlock off, because a message is dealt with once |
| `timer` | types, `TimeRight` | counter modulo 12 and word modulo 30 with a factor of 3, so that a product wraps within one turn of the counter; 15 ticks, more than a turn; packets of 2 bytes and counts modulo 8; requests of 0, 3, 4 and 7 bytes: with and without odd bytes, and beyond the largest length the loop counts, 6; deadlock off, because time ends at `MaxNow` |
| `long_write` | types, `ReadWhenGivenBack`, `HandedIsWritten`, `HeadersAligned`, `EveryWriteHandled` under `FairSpec` | bytes of 3 bits; a buffer of 32 bytes and pieces of 4; values of one, two and three pieces, one that just fills the buffer and one a byte too long; an offset needs both bytes of its field; three waiting events; deadlock checked |
| `claim_*` | one claim each | expected to fail, see Findings |

Deadlock is not checked in the run without link losses, nor in `claim_stop`: a phone that stays
connected and writes no more leaves the program waiting, which is not an error.

`WaitingIsWoken` is the invariant behind the liveness properties: a transfer that is
suspended, or a stop that was put off, always has a packet in flight or a transmit
event in the queue. It holds although the same event resumes the data and retries
the stop, because a send that finds no packet shows that packets are in flight.

### Fairness

`FairSpec` assumes: a handler that has begun takes its next step (nothing of lower
priority runs before it returns); an event in the queue is dispatched (the SoftDevice
event interrupt stays pending, `intern_softdevice_events_execute` loops until the
queue is empty); packets in flight on a link are acknowledged. Neither the phone nor
a fault is fair. `RadioSends` is disabled when the queue is at its bound, which
the fairness of dispatch ends.

For `Connection`, `Fairness` assumes: the SoftDevice interrupt takes its events and the
timer interrupt performs its operations (weak fairness); a timer that runs expires and its
handler is called even if events keep coming (strong fairness: its interrupt stays
pending, and is served before the next SoftDevice interrupt); the central answers a
request (`ble_gap.h` 1135-1138 promises the event, a silent central being a refusal);
a disconnection asked for is carried out; and events come slower than they are handled
(`[]<>~draining`), without which nothing else could ever run. The central's own
updates, its connections, losses, commands and buttons are not fair.

For `Parser`, weak fairness of `Next` says that a handler runs to its end. For `LongWrite`,
a handler that has begun goes on, and waiting events are dispatched; the phone owes nothing,
it may leave a write unfinished for ever.

### Findings

Each is a run that finds the quoted statement false; details and lines are in
`PROJECT.json`.

* `claim_stop`: after a reconnection a put-off stop is never served.
* `claim_time`: a CONTINUE suspended at its first packet after another one completed brings
  `byte_number` back to 0, so the next CONTINUE starts the clock of the test again and the time
  reported is too short.
* `claim_accepted`: a command is accepted without its attribute when more than 256 separators
  follow it.
* `claim_closed`: a connection whose interval has become acceptable is closed for it.

Seen in the same code while modelling it; the models do what the code does, no run is
kept for these:

* `byte_number` of a DOWN test falls when a CONTINUE is suspended after another one completed: it is
  `total_byte - remaining_byte`, and `total_byte` is the last request alone, so what the first one
  sent is no longer counted (`long_packet.c` 105-106, `communication.c` 382-384), while
  `communication.h` 107 calls it the bytes of a complete test. `ResumeAccounts` holds of the sum
  of count and debt for the request being served; the trace of `claim_time` is one in which
  the count falls.
* An UP test without data has no elapsed time: its time and debit are made of the time stamp of
  another test (`communication.h` 105, `communication.c` 357). `RowOfOneTest` names the case.
* CONTINUE N while R of T bytes are owed owes T + N - R, not R + N (`communication.h` 109,
  `communication.c` 386).
* `timestamp_start` is tested against zero as a flag, and zero is a legal tick count
  (`communication.c` 503-507).
* An update timer stopped by a disconnection runs on if its start was queued by an event of the
  same drain (`ble_conn_params.c` 215-218, `app_timer.c` 763-776).
* Each refused "Stop timer" has waited a second, and one second is subtracted
  (`communication.c` 346, 361); `TrueTime` counts the others as part of the test.
* "Start timer" may find no packet, and the test begins nevertheless: the script then fills the row
  of the test before with values of this one (`communication.c` 327). `RowOfOneTest` says
  that only this, and the UP test without data, mixes rows.
* `data_send` holds 16 characters and "DOWN get time>" takes 14 of them: with two digits or more
  the terminating zero lies behind the array (`communication.c` 295, 429).
* START clears the counts of the last result although a comment says that the old result
  stays available (`communication.h` 112, `communication.c` 323-326).
* A rest of exactly one packet is counted but not sent, and the packet with the odd bytes
  is counted although it was refused (`long_packet.c` 94-98). `CountWithinTwoPackets` says how
  far the count of bytes can be wrong; both ends are reached.
* `m_update_count` is not cleared by a successful negotiation, so a later one on the same
  connection has fewer attempts (`ble_conn_params.c` 59, 72, 199, 216; `main.c` 65).
* A SET_PARAM request under way when the update timer fires resets the device, while
  `ble_gap.h` 1163 says to wait and retry (`ble_conn_params.c` 64-68).
* GET_PARAMS prints the minimal interval as the maximal one (`communication.c` 462).
* SET_PARAM converts the time-out and the latency with the unit of the interval
  (`communication.c` 410).

`NoWrap`, 65520 in the code, is a limit of `send_dummy_data`: for a longer request the
16-bit index can wrap, and if every send fails for another reason than missing packets
the loop does not end. The properties that need the limit name it.

## 4. The proofs

`SpeedTest_proofs` proves for every packet size, counter width, number of transmit
packets, set of commands and bound (assumptions `SizeAssumption`, `TxAssumption`,
`CommandAssumption`, `UpLengthAssumption`, `BoundAssumption`, `TickAssumption`, all
declared in `SpeedTest`):

| theorem | statement |
|---|---|
| `TypeCorrect` | `Spec => []TypeOK` |
| `Invariance` | `Spec => []IInv` |
| `HandlersRelyOn`, `DebtInDownTest` | `HandlerInv`, `OwedOnlyInDownTest` are invariants |
| `NeverClosesInDebt` | `ClosesPaid` |
| `ResultsSettle` | `LateEventsHarmless` |
| `ImplementsControl` | `Spec => Control!Spec` |
| `LoopCounts` | `LoopInv` is an invariant |
| `DebtShrinks` | `ResumeShrinks` |
| `BytesAddUp` | `ResumeAccounts` |
| `HandlersEnd` | `HandlersRunOut` |

Types come first: one lemma for each group of actions. Counters stay in 16 bits
because each result is taken modulo W, transmit packets do not exceed their
number because a send succeeds only below it.

`OwedOnlyInDownTest` is not inductive. When `send_dummy_data` is suspended it writes
`remaining_byte`, and nothing in that function says that a DOWN test is open; when
the stop notification succeeds, the test closes and nothing there says that it owes
nothing. `HandlerInv` carries this across the steps of a handler: while
sending, a DOWN test is open and its debt is the length being sent; during the delay,
the running test is the command's and owes nothing. The inductive invariant is
`IInv == TypeOK /\ HandlerInv /\ OwedOnlyInDownTest /\ BytesAccounted`, with one
step per kind of action. Its last part says that, while bytes are owed, count and debt make up
`total_byte`; it is the reason why a resumed transfer, which computes the count from `total_byte`
and the debt from its length, keeps their sum (`ResumeAccounts`). It says nothing of requests that
completed before: their bytes are lost from the count (Findings). The same invariant gives the action properties and the
refinement: `SendDone` and `SendSuspend` are `Transfer`, `RunStopNotify` is `Close`
exactly when the debt is zero, which is what `HandlerInv` says.

`LoopCounts` adds `LoopInv`, which is inductive over `TypeOK` with arithmetic lemmas on
multiples of the packet size (`Division` to `MultipleBelow`). `DebtShrinks` follows:
`i` below `len` and not wrapped, so `len - extra - i` is at most `len`.

`HandlersEnd` is the part of termination that needs no fairness. What a handler has still to
do is measured by three things, the first that differs counting: a stop it may retry as a command
of its own (`WillRetry`), the words it may still take (`WordsToRun`), and the steps within one word
or one call of `send_dummy_data` (`StepsToRun`). Every step of a handler makes that less
(`HandlerLess`), though radio, link and phone act between two of them; `LoopInv` is
what keeps the loop from going back, and `ReportInv` what bounds the lines of a report.

`Waiting_proofs` proves `WaitingWoken`: without the faults that `WaitingIsWoken` excludes
(`NoFaults`: the link stands, the CCCDs stay on, no clock reads zero) it is an invariant for
every number of transmit packets and every order of commands and events. `LinkInv` and
`BusyInv` follow what the program knows: a running test, or a handler that may send, has a
connection with notifications, so a text fails to be sent only when all packets are in flight
(`OnlyPacketsFail`) and the packets themselves will wake the stop. `WakeInv` strengthens the property
to the middle of a handler: between the transmit event that is taken from the queue and the
stop that is retried nothing may be in flight, but then the handler is still on its way there
(`Retrying`). Each of the three faults breaks a step of this proof, which is why the property
needs all three exclusions.

`Meter_proofs` proves `CountCorrect`: `CountWithinTwoPackets` for every packet size, counter
width, number of transmit packets and bound, and for every set of commands in which a test
has one request (`SingleRequests`, which `MCMeter` asserts of its instance). The theorem is about
these because the reference is the history `sentBytes`, which starts with the test: a second
request of the same test throws away the whole count of a completed one if it is suspended (see
Findings), so there is no such bound for several requests. What must be carried is where the difference comes
from (`ByteInv`). While a transfer waits, the debt is a multiple of the packet size and the count is
less than a packet ahead (`Waits`): only the odd bytes of the first call can be counted without
having been sent, because a call that is resumed has none. While the loop runs (`Loops`), the
difference plus the loop index, which already counts what the SoftDevice took, is that of the
call's beginning if there are no odd bytes, and otherwise zero or minus the odd bytes. At the end the loop may have sent one packet more than the length, or
not a rest of exactly one packet; that gives the two bounds. `WordInv` says why a request
meets a test that has counted nothing: the word before it was the START, and that one was
taken or there is no test.

`Bench_proofs` proves the properties of `Bench` for every size, command set and bound, on top of
`IInv`, which a reset and a line from the UART keep as well (`ResetTyped`, `BridgeStep`):

| theorem | statement |
|---|---|
| `BenchInvariance` | `BenchSpec => []BenchInv` |
| `BenchTypes`, `RowsCorrect`, `RowsUnmixed`, `ClosedToldCorrect` | `BenchTypeOK`, `RowsInOrder`, `RowOfOneTest`, `ClosedIsTold` are invariants |

None of these is inductive: the table depends on lines that were sent long before they are
read. `BenchInv` has these parts over `IInv`: `Numbers` (the last test closed is not
behind the last one opened, and before it while that one runs), and in `Tables` `QueueOK`, which says how the lines in
flight follow each other and which tests' lines are among them, and `ScriptOK`, which says what table
and row are when n of the lines in flight have been read; and `TimeInv`, which says of which tests the
time stamp can still be made: if it is made of test u, every test closed since u was an UP test without
data. That is why a value that comes behind the end of a test is not older than it, but for the
times of such tests (`After`). A radio event reads several lines at
once and may drop the others, so a step of the script is not a step of the specification:
`ReadsAll` is a recursive function, and `ReadsAllOK` is an induction over the lines read. It is
done with a set of naturals (`SetInduction`, from the library's least-element theorem), which needs
no operator as a parameter. `Arrive` and `Lose` then say that what is left in flight, and what was
lost, still fits the table.

`Connection_proofs` proves for all preferred parameters the SoftDevice would accept, numbers
of requests, intervals, commands and queue sizes (the assumptions declared in
`Connection`):

| theorem | statement |
|---|---|
| `TypeCorrect` | `Spec => []TypeOK` |
| `OrderCorrect` | `EventsInOrder` is an invariant |
| `CaughtUpCorrect` | `CaughtUp` is an invariant |
| `NoResetWithoutRace` | `ResetNeedsRace` |
| `ReportedLegalCorrect` | `ReportedLegal` is an invariant |
| `GivesUpCorrect` | `HistorySpec => GivesUpAfterAll` (`Negotiation`) |

`CaughtUp` speaks of an empty queue only and so is not inductive: what holds when the last
event has been taken depends on what the queue held before. `EventsInOrder` says that:
waiting events are those of one connection in order, the first one fits what the
program knows, the last one tells the state of the link. The inductive invariant
is `TypeOK /\ EventsInOrder /\ CaughtUp`. Its two halves are `PostOrder` (an event is put
behind the others) and `TakeOrder` (what is left when the first is taken); the key fact is
`WhenAdvertising`: a new connection can only begin when every event of the last one has been
handled, because it is the handler of the disconnection that starts advertising.
`NoResetWithoutRace` is about what the connection can do: a line on the UART can reset the device at any
time (`main.c` 447-463), which is in `UartBridge` and not in this module. The proof
uses the invariant to know that the device is on; that the preferred
parameters are valid is the assumption `PreferredValidAssumption`, which the numbers of
`def.h` satisfy. `ReportedLegal` is inductive over the types: an accepted request is within the
limits in every field, so the field copied from it is. `GivesUpCorrect` carries `AttemptsCounted`: the
history and `update_count` agree except after giving up (`GaveUp`), which sets the count back
while the connection still stands; the link is then closing, and no path leads from there to
another request of the same connection.

`Parser_proofs` proves for all messages, tables and array sizes `TypeCorrect`, `CursorSafe`
(`CursorInMessage`), `WordsSafe` (`WordsInArray`) and `AttributesSafe` (`AttributesFilled`). `ParseInv`
adds what is between the lines of `parse`: inside the loop the message is framed, so
that the `e` stops `skip_separator` (`SkipInMessage`), and a word is open behind every type but the
first. `AttributesFilled` needs what `check_input_word_exist` leaves behind (`Complete`): each word
it has given a name is followed by as many attributes as the table says, because the
word one behind the last has no type (`ArgumentsAreWords`).

It also proves `GrammarCorrect` (`AcceptsGrammar`): in both directions, a message whose stretches of
separators fit the byte of `skip_separator` has its effect exactly if it is a sentence of
`Grammar`. The two sides have nothing in common: the parser reads from left to right and stops at
the first error, the reference speaks of the whole message and numbers its words by counting
those up to each. The invariant is `Understood`. While `parse` runs, the words cut so far
are the words of the message left of the cursor, in order (`FirstWords`), with the types of
their places (`Typed`); each word closed is one more of them (`OneWordMore`). Because they are in
order, the l-th word cut is the l-th word by the count (`CutIsSpan`, a bijection with `1 .. l`), and
they are all when no word is right of the cursor (`CutsAndMore`, `AllWords`). While the words are
looked up, those left of the `k`-th are whole phrases (`Phrases`), so in a sentence the `k`-th
begins one (`WalkAtHead`), and what `WordOk` refuses is none (`RefusalIsRight`). Each early return
has a lemma that says why no sentence ends there: a word behind the full array begins at the
cursor and is a word of the message if a separator precedes the frame (`TooManyIsRight`), and a `-`
alone would need an empty name, which `TableAssumption` excludes as `m_def_input` does
(`EmptyIsRight`).

`StepsCorrect` (`StepsRunOut`) bounds the work: `StepsLeft`, `2 * End + 2 * MaxWord + 3` at the
beginning, is a natural number that every step makes smaller, because the cursor only goes forward,
the parts of `parse` between two characters are two at most, and `WalkInWords` keeps the two
walks over the words within one word of the last.

`TimerPacket_proofs` proves for all widths, rates and delays `TypeCorrect` and `TimeCorrect`
(`TimeRight`). The clock of a plain test starts with its first request that counts bytes, and is not
started again: `CountInv` says that then `byte_number` is not 0, because what was counted and what is owed
make up the requests, which stay within the width (`Debt`, `ContinueCounts`), and a request on top of a
debt cannot bring the count back to 0. `StampInv` relates each stamp to the moment it was taken, modulo the counter;
two moments in the same turn of the counter differ by what it shows (`SameTurn`), and
a product below the width is not changed by it (`SmallMilliseconds`). The second of
the delay goes through the division because it is a whole number of milliseconds and of ticks
(`DelayAssumption`, `DivShift`).

`LongWrite_proofs` proves for all sizes, values and queues `TypeCorrect`, `LendingSafe`
(`ReadWhenGivenBack`), `HandedRight` (`HandedIsWritten`) and, for full pieces of an even size,
`Aligned` (`HeadersAligned`); `WalksForward` (`WalkForward`) says that each turn of the walk takes a
piece of this write and that it ends behind the last, so that no zero within a piece
and no length left over misleads it. Two invariants carry it. `LendInv` is the order of events: while the
SoftDevice has the buffer no handler runs and no event waits that makes the program read or
lend it; while it asks for it, its request is the last such event. `BufferInv` says
that the buffer is a chain of pieces: a set of records, each held by the memory at its position,
where the end of one is the beginning of the next or the tail, and at the tail there is a zero.
So a walk that begins at the first piece is always at a piece or at the tail (`WalkAt`), and
the bytes copied so far are the beginning of the value. What an earlier write left behind the tail
is never read. The assumption on `SIZE_QUEUED`, at most `ByteSize * ByteSize`, is that an
offset fits its field (`OffsetField`).

Only model-checked: everything under fairness (`StopServed`, `SendReturns`,
`ControlFairSpec`, `NegotiationEnds`, `StaysReachable`, `Ends`, `EveryWriteHandled`), which is
out of the prover's reach. Of the three that say that a handler ends (`SendReturns`, `Ends`,
`EveryWriteHandled`) the part without fairness is proved: each step leaves less to do
(`HandlersEnd`, `StepsCorrect`, `WalksForward`). Every invariant and every action property of the passing runs is a
theorem.

## 5. Not modelled

* The vendored SDK, nearly all of the lines of the repository: drivers and libraries the
  program does not use, or uses as a service whose promise the models state. Modelled of it are
  `ble_conn_params.c`, the advertising module, the operations of `app_timer.c` and the UART
  FIFO, as far as the program reaches them. Among its examples is an older copy of the program.
* Text: wording and formatting of reports, parsing of numbers. Number, order and
  origin of the notifications are modelled.
* `security_mode.c` (never called), `communication_error.c` (debug output),
  `send_long_packet` (never called, and its body sends nothing), `timer_stop` and
  `timer_restart` (never called), initialisation, which is straight-line code, and the
  macro of the phone, a fixed list of writes.
* Directed and slow advertising and the whitelist, which the program does not configure;
  `ble_conn_params_change_conn_params` and the negotiation that a CCCD starts, which it does
  not use; the periods of the timers.
* SYS_ATTR_MISSING as an answer of the SoftDevice apart from its other errors: it is part of
  "error".

## 6. Plan

What is left:

1. A bound on the events of one drain, under which `TimerQueueFull` cannot happen.
