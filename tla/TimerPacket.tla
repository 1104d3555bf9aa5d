---------------------------- MODULE TimerPacket ----------------------------
(***************************************************************************)
(* How long a test took: the tick counter read by timer_packet.c, the time *)
(* stamps communication.c takes of it, and the milliseconds it makes of    *)
(* them in 32-bit arithmetic.  The repeated timer started in main keeps the*)
(* counter running, so it shows the ticks since the start modulo Counter.  *)
(* CONTINUE starts the clock again while byte_number is 0, so the transfer *)
(* of a DOWN test is here too, each call of send_dummy_data in one step.   *)
(***************************************************************************)
EXTENDS Integers

CONSTANTS
    Counter,     \* 2^24: the counter of RTC1 has 24 bits
    Word,        \* 2^32: time stamps are uint32_t
    Mul,         \* (APP_TIMER_PRESCALER + 1) * 1000
    Clock,       \* APP_TIMER_CLOCK_FREQ
    Delay,       \* DELAY_NOTIF_STOP, in milliseconds
    DelayTicks,  \* the same in ticks
    SIZE,        \* BLE_NUS_MAX_DATA_LEN
    W,           \* 2^16: byte counters are uint16_t
    Lengths,     \* attributes of CONTINUE and lengths of dummy-data writes
    MaxNow       \* bound: ticks in a behaviour

ASSUME WidthAssumption == /\ Counter \in Nat \ {0} /\ Word \in Nat \ {0}
                          /\ Counter <= Word
ASSUME RateAssumption == Mul \in Nat \ {0} /\ Clock \in Nat \ {0}
ASSUME DelayAssumption == /\ Delay \in Nat /\ DelayTicks \in Nat
                          /\ DelayTicks * Mul = Delay * Clock
ASSUME SizeAssumption == /\ SIZE \in Nat \ {0} /\ W \in Nat /\ W > SIZE
                         /\ Lengths \subseteq 0 .. W-1
ASSUME BoundAssumption == MaxNow \in Nat

VARIABLES
    now,         \* ticks since the device started
    running, timerName, available,
    byteNumber, remaining, total,
    timestampStart, timestamp,
    pc,          \* "idle", or "delay" while STOP waits
    until,       \* when that wait may end, at the earliest
    \* history, read by the properties only
    from, to,    \* when the test began, and when it ended or, in an UP test,
                 \* got its last data; to = -1 as long as it got none
    counted,     \* bytes of the test have been counted
    plain        \* no request of the test followed a completed one, and the
                 \* sums made of its requests stayed within NoWrap

settings == <<running, timerName, available>>
counts == <<byteNumber, remaining, total>>
stamps == <<timestampStart, timestamp>>
requests == <<counted, plain>>
history == <<from, to, requests>>
vars == <<now, settings, counts, stamps, pc, until, history>>

U32(x) == x % Word

\* timer_get_ticks.
Ticks == now % Counter

\* timer_ticks_to_ms.
Milliseconds(ticks) == U32(ticks * Mul) \div Clock

Init ==
    /\ now = 0 /\ running = FALSE /\ timerName = "tsd" /\ available = FALSE
    /\ byteNumber = 0 /\ remaining = 0 /\ total = 0
    /\ timestampStart = 0 /\ timestamp = 0
    /\ pc = "idle" /\ until = 0
    /\ from = 0 /\ to = -1 /\ counted = FALSE /\ plain = TRUE

Idle == pc = "idle"

TimePasses ==
    /\ now < MaxNow /\ now' = now + 1
    /\ UNCHANGED <<settings, counts, stamps, pc, until, history>>

\* START.
Start(kind) ==
    /\ Idle /\ ~running
    /\ running' = TRUE /\ timerName' = kind /\ byteNumber' = 0
    /\ timestampStart' = Ticks
    /\ from' = now /\ to' = -1 /\ counted' = FALSE /\ plain' = TRUE
    /\ UNCHANGED <<now, available, remaining, total, timestamp, pc, until>>

\* The largest length send_dummy_data counts without its index wrapping.
NoWrap == (W - 1) - ((W - 1) % SIZE)

\* What send_dummy_data(len) may leave when a packet of SIZE is refused: the
\* length less the odd bytes and the packets before.  Beyond NoWrap the index
\* wraps, and anything may be left.
Rests(len) ==
    IF len > NoWrap THEN 0 .. W-1
    ELSE {r \in 0 .. len : /\ len > SIZE /\ r % SIZE = 0
                           /\ r # 0 \/ len % SIZE # 0}

\* send_dummy_data(len): all of it goes out, or it is suspended.
Transfer(len) ==
    \/ /\ remaining' = 0 /\ byteNumber' = (byteNumber + len) % W
    \/ /\ remaining' \in Rests(len) /\ byteNumber' = (total' - remaining') % W

\* Whether the test stays plain when n more bytes are asked for.
StillPlain(n) ==
    IF remaining = 0 THEN ~counted /\ n <= NoWrap
    ELSE /\ n + total <= NoWrap
         /\ byteNumber + (n + total - remaining) <= NoWrap

\* CONTINUE n of a DOWN test: the clock starts again if byte_number is 0.  The
\* test began with the last CONTINUE before any of its bytes was counted.
Continue(n) ==
    /\ Idle /\ running /\ timerName = "tsd"
    /\ timestampStart' = IF byteNumber = 0 THEN Ticks ELSE timestampStart
    /\ total' = IF remaining # 0 THEN (n + total) % W ELSE n
    /\ LET debt == (total' - remaining) % W
       IN  IF debt # 0 THEN Transfer(debt) ELSE remaining' = 0 /\ UNCHANGED byteNumber
    /\ from' = IF counted THEN from ELSE now
    /\ counted' = (counted \/ byteNumber' # 0)
    /\ plain' = (plain /\ StillPlain(n))
    /\ UNCHANGED <<now, settings, timestamp, pc, until, to>>

\* BLE_EVT_TX_COMPLETE: continue_send_byte_up resumes the transfer.  The stop
\* it then sends itself is a STOP like that of the phone.
Resume ==
    /\ Idle /\ timestampStart # 0 /\ timerName = "tsd" /\ remaining # 0
    /\ total' = total /\ Transfer(remaining)
    /\ counted' = (counted \/ byteNumber' # 0)
    /\ UNCHANGED <<now, settings, stamps, pc, until, from, to, plain>>

\* Faulty variant: dummy data is stamped whether or not a test runs.
DataUnchecked(n) ==
    /\ Idle /\ timerName = "tsu"
    /\ timestamp' = Ticks /\ byteNumber' = (byteNumber + n) % W
    /\ to' = IF running THEN now ELSE to
    /\ UNCHANGED <<now, settings, remaining, total, timestampStart, pc, until,
                   from, requests>>

\* Dummy data of an UP test.
Data(n) ==
    /\ Idle /\ running /\ timerName = "tsu"
    /\ timestamp' = Ticks /\ byteNumber' = (byteNumber + n) % W /\ to' = now
    /\ UNCHANGED <<now, settings, remaining, total, timestampStart, pc, until,
                   from, requests>>

\* STOP waits for a second, and possibly a bit more; with bytes owed it is put
\* off, which leaves all of this alone.
StopDelay ==
    /\ Idle /\ running /\ remaining = 0
    /\ pc' = "delay" /\ until' = now + DelayTicks
    /\ UNCHANGED <<now, settings, counts, stamps, history>>

\* "Stop timer" finds no transmit packet: the test stays open.
StopRefused ==
    /\ pc = "delay" /\ now >= until
    /\ pc' = "idle"
    /\ UNCHANGED <<now, settings, counts, stamps, until, history>>

\* The time of an UP test ends with its last data, that of a DOWN test with
\* the STOP.
Elapsed == IF timerName = "tsu" THEN U32(timestamp - timestampStart)
                                ELSE U32(Ticks - timestampStart)

\* Faulty variant: the delay is taken off without regard to the width.
StopNotifiedWide ==
    /\ pc = "delay" /\ now >= until
    /\ pc' = "idle" /\ running' = FALSE /\ available' = TRUE
    /\ timestamp' = IF timerName = "tsu" THEN Milliseconds(Elapsed)
                    ELSE Milliseconds(Elapsed) - Delay
    /\ to' = IF timerName = "tsu" THEN to ELSE now
    /\ UNCHANGED <<now, timerName, counts, timestampStart, until, from, requests>>

\* The test closes.
StopNotified ==
    /\ pc = "delay" /\ now >= until
    /\ pc' = "idle" /\ running' = FALSE /\ available' = TRUE
    /\ timestamp' = IF timerName = "tsu" THEN Milliseconds(Elapsed)
                    ELSE U32(Milliseconds(Elapsed) - Delay)
    /\ to' = IF timerName = "tsu" THEN to ELSE now
    /\ UNCHANGED <<now, timerName, counts, timestampStart, until, from, requests>>

Next ==
    \/ TimePasses
    \/ \E kind \in {"tsd", "tsu"} : Start(kind)
    \/ \E n \in Lengths : Continue(n) \/ Data(n)
    \/ Resume \/ StopDelay \/ StopRefused \/ StopNotified

Spec == Init /\ [][Next]_vars

-----------------------------------------------------------------------------
TypeOK ==
    /\ now \in Nat /\ until \in Nat /\ from \in Nat /\ to \in Nat \cup {-1}
    /\ running \in BOOLEAN /\ timerName \in {"tsd", "tsu"} /\ available \in BOOLEAN
    /\ byteNumber \in 0 .. W-1 /\ remaining \in 0 .. W-1 /\ total \in 0 .. W-1
    /\ pc \in {"idle", "delay"} /\ counted \in BOOLEAN /\ plain \in BOOLEAN
    /\ timestampStart \in 0 .. Counter - 1 /\ timestamp \in 0 .. Word - 1

\* No wrap of the counter lies in the test, and its ticks can be multiplied:
\* in the code a test of up to 131 s that does not cross a multiple of 4096 s.
Measurable ==
    /\ from \div Counter = to \div Counter
    /\ (to - from) * Mul < Word

\* The true milliseconds of the test, a DOWN test without the second before
\* the "Stop timer" that closed it; a wait that ended in a refusal is counted.
TrueTime == IF timerName = "tsu" THEN ((to - from) * Mul) \div Clock
            ELSE ((to - from - DelayTicks) * Mul) \div Clock

\* The closed test got data, if it was an UP test, and its time can be measured.
Reported == available /\ ~running /\ to # -1 /\ Measurable

\* timestamp is the "valeur du timestamp entre start et stop": what GET_TIME
\* reports of a closed test is the time it took, to the millisecond, however
\* often a CONTINUE started the clock again, added to a debt or "Stop timer"
\* was refused, as long as byte_number cannot come back to 0 under way.
TimeRight == Reported /\ plain => timestamp = TrueTime

\* communication.h:105 says that of every test, also of one whose requests
\* follow each other: a CONTINUE suspended at once brings byte_number back to
\* 0, and the next one starts the clock again.  A run refutes it.
TimeOfEveryTest == Reported => timestamp = TrueTime
=============================================================================
