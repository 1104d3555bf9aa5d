-------------------------- MODULE TimerPacket_proofs --------------------------
(***************************************************************************)
(* Theorems about TimerPacket, for all widths and rates.                   *)
(***************************************************************************)
EXTENDS TimerPacket, TLAPS

-----------------------------------------------------------------------------
(* Arithmetic.                                                             *)

\* A number below the width is not changed by it.
LEMMA SmallMod ==
    ASSUME NEW w \in Nat \ {0}, NEW x \in 0 .. w-1
    PROVE  x % w = x
OBVIOUS

\* A remainder is a number below the divisor.
LEMMA ModRange ==
    ASSUME NEW w \in Nat \ {0}, NEW x \in Int
    PROVE  x % w \in 0 .. w-1
OBVIOUS

\* ... so a 32-bit number is one.
LEMMA U32Range ==
    ASSUME NEW x \in Int
    PROVE  U32(x) \in 0 .. Word - 1
BY ModRange, WidthAssumption DEF U32

\* Quotient and remainder make up the number.
LEMMA Division ==
    ASSUME NEW w \in Nat \ {0}, NEW x \in Int
    PROVE  x = w * (x \div w) + (x % w)
OBVIOUS

\* Of two moments in the same turn of a counter, the later one shows the time
\* between them.
LEMMA SameTurn ==
    ASSUME NEW w \in Nat \ {0}, NEW a \in Nat, NEW b \in Nat,
           a <= b, a \div w = b \div w
    PROVE  (b % w) - (a % w) = b - a /\ b - a \in 0 .. w-1
<1> DEFINE q == w * (a \div w)
<1>1. a = q + (a % w) /\ b = q + (b % w)
    BY Division
<1>2. a % w \in 0 .. w-1 /\ b % w \in 0 .. w-1
    BY ModRange
<1>3. q \in Int
    BY <1>1, <1>2
<1> HIDE DEF q
<1> QED
    BY <1>1, <1>2, <1>3

\* A multiple of the divisor goes through a division.
LEMMA DivShift ==
    ASSUME NEW c \in Nat \ {0}, NEW x \in Nat, NEW k \in Nat
    PROVE  (x + k * c) \div c = (x \div c) + k
OBVIOUS

\* A difference lies between 0 and the larger number, and is 0 only of equals.
LEMMA Difference ==
    ASSUME NEW a \in Nat, NEW b \in Nat, NEW m \in Nat, b <= a, a < m
    PROVE  a - b \in 0 .. m - 1 /\ (b < a => a - b # 0)
OBVIOUS

\* Widths and rates keep a product of naturals a natural.
LEMMA ProductNat ==
    ASSUME NEW x \in Nat, NEW y \in Nat
    PROVE  x * y \in Nat
OBVIOUS

\* What timer_ticks_to_ms makes of ticks whose product fits.
LEMMA SmallMilliseconds ==
    ASSUME NEW x \in Nat, x * Mul < Word
    PROVE  /\ Milliseconds(x) = (x * Mul) \div Clock
           /\ Milliseconds(x) \in 0 .. Word - 1
<1>1. x * Mul \in 0 .. Word - 1
    BY ProductNat, WidthAssumption, RateAssumption
<1>2. U32(x * Mul) = x * Mul
    BY <1>1, SmallMod, WidthAssumption DEF U32
<1>3. ASSUME NEW y \in 0 .. Word - 1 PROVE y \div Clock \in 0 .. y
    BY RateAssumption
<1> QED
    BY <1>1, <1>2, <1>3, WidthAssumption DEF Milliseconds

\* Milliseconds fit the word whatever is converted.
LEMMA MillisecondsRange ==
    ASSUME NEW x \in Int
    PROVE  Milliseconds(x) \in 0 .. Word - 1
<1>1. U32(x * Mul) \in 0 .. Word - 1
    BY ModRange, WidthAssumption, RateAssumption DEF U32
<1>2. ASSUME NEW y \in 0 .. Word - 1 PROVE y \div Clock \in 0 .. y
    BY RateAssumption
<1> QED
    BY <1>1, <1>2, WidthAssumption DEF Milliseconds

-----------------------------------------------------------------------------
(* The inductive invariant.  The counts of a plain DOWN test never come    *)
(* back to 0, because what is counted and what is owed make up the request *)
(* and stay within NoWrap.  So a running test's stamps show its history,   *)
(* and of a closed one TimeRight holds.                                    *)

\* While a debt stands, counted and owed bytes are the request.
Debt == remaining # 0 => remaining <= total /\ byteNumber = total - remaining

CountInv ==
    /\ remaining # 0 => running /\ timerName = "tsd"
    /\ pc = "delay" => remaining = 0
    /\ running /\ timerName = "tsu" => plain
    /\ running /\ timerName = "tsd" /\ plain =>
          /\ counted <=> byteNumber # 0
          /\ Debt
          /\ remaining # 0 => total <= NoWrap

StampInv ==
    /\ from <= now
    /\ to # -1 => from <= to /\ to <= now
    /\ running /\ plain => timestampStart = from % Counter
    /\ running /\ timerName = "tsu" /\ to # -1 => timestamp = to % Counter
    /\ running /\ timerName = "tsd" => to = -1
    /\ pc = "delay" => running /\ from + DelayTicks <= until

Inv == TypeOK /\ CountInv /\ StampInv /\ TimeRight

LEMMA InitInv == Init => Inv
<1> SUFFICES ASSUME Init PROVE Inv
    OBVIOUS
<1>1. TypeOK
    <2>1. 0 \in 0 .. Counter - 1 /\ 0 \in 0 .. Word - 1 /\ 0 \in 0 .. W - 1
        BY WidthAssumption, SizeAssumption
    <2> QED
        BY <2>1 DEF Init, TypeOK
<1>2. StampInv
    BY DelayAssumption DEF Init, StampInv
<1>3. TimeRight
    BY DEF Init, TimeRight, Reported
<1>4. CountInv
    BY DEF Init, CountInv
<1> QED
    BY <1>1, <1>2, <1>3, <1>4 DEF Inv

\* The counter shows a number of Counter bits.
LEMMA TicksRange == ASSUME NEW n \in Nat PROVE n % Counter \in 0 .. Counter - 1
    BY ModRange, WidthAssumption

\* NoWrap is a 16-bit number.
LEMMA NoWrapRange == NoWrap \in 0 .. W - 1
<1>1. (W - 1) % SIZE \in 0 .. W - 1
    BY SizeAssumption
<1> QED
    BY <1>1, SizeAssumption DEF NoWrap

\* What is left is a 16-bit number, within NoWrap no more than what was asked.
LEMMA RestsRange ==
    ASSUME NEW l \in 0 .. W - 1, NEW r \in Rests(l)
    PROVE  r \in 0 .. W - 1 /\ (l <= NoWrap => r <= l)
<1>1. CASE l > NoWrap
    BY <1>1, NoWrapRange, SizeAssumption DEF Rests
<1>2. CASE ~(l > NoWrap)
    <2>1. r \in 0 .. l
        BY <1>2 DEF Rests
    <2> QED
        BY <2>1, SizeAssumption
<1> QED
    BY <1>1, <1>2

\* send_dummy_data keeps the counts in their width.
LEMMA TransferType ==
    ASSUME TypeOK, NEW l \in 0 .. W - 1, Transfer(l), total' \in 0 .. W - 1
    PROVE  byteNumber' \in 0 .. W - 1 /\ remaining' \in 0 .. W - 1
<1>1. CASE remaining' = 0 /\ byteNumber' = (byteNumber + l) % W
    <2>1. byteNumber + l \in Int /\ 0 \in 0 .. W - 1
        BY SizeAssumption DEF TypeOK
    <2> QED
        BY <1>1, <2>1, ModRange, SizeAssumption
<1>2. CASE remaining' \in Rests(l) /\ byteNumber' = (total' - remaining') % W
    <2>1. remaining' \in 0 .. W - 1
        BY <1>2, RestsRange
    <2>2. total' - remaining' \in Int /\ W \in Nat \ {0}
        BY <2>1, SizeAssumption
    <2>3. (total' - remaining') % W \in 0 .. W - 1
        BY <2>2, ModRange
    <2> QED
        BY <1>2, <2>1, <2>3
<1> QED
    BY <1>1, <1>2 DEF Transfer

\* ... and so do the sums of CONTINUE.
LEMMA ContinueType ==
    ASSUME TypeOK, NEW n \in Lengths, Continue(n)
    PROVE  /\ total' \in 0 .. W - 1 /\ byteNumber' \in 0 .. W - 1
           /\ remaining' \in 0 .. W - 1
<1>1. n \in 0 .. W - 1
    BY SizeAssumption
<1>2. total' \in 0 .. W - 1
    <2>1. n + total \in Int
        BY <1>1, SizeAssumption DEF TypeOK
    <2>2. (n + total) % W \in 0 .. W - 1
        BY <2>1, ModRange, SizeAssumption
    <2> QED
        BY <1>1, <2>2 DEF Continue
<1> DEFINE debt == (total' - remaining) % W
<1>3. debt \in 0 .. W - 1
    <2>1. total' - remaining \in Int
        BY <1>2, SizeAssumption DEF TypeOK
    <2> QED
        BY <2>1, ModRange, SizeAssumption
<1>4. IF debt # 0 THEN Transfer(debt) ELSE remaining' = 0 /\ UNCHANGED byteNumber
    BY DEF Continue
<1> HIDE DEF debt
<1>5. CASE debt # 0
    BY <1>2, <1>3, <1>4, <1>5, TransferType
<1>6. CASE debt = 0
    BY <1>2, <1>4, <1>6, SizeAssumption DEF TypeOK
<1> QED
    BY <1>5, <1>6

LEMMA StepType == TypeOK /\ Next => TypeOK'
<1> SUFFICES ASSUME TypeOK, Next PROVE TypeOK'
    OBVIOUS
<1> USE DEF TypeOK
<1> DEFINE CountsOK == /\ byteNumber \in 0 .. W - 1 /\ remaining \in 0 .. W - 1
                       /\ total \in 0 .. W - 1
<1>0. Ticks \in 0 .. Counter - 1 /\ Ticks \in 0 .. Word - 1
    BY TicksRange, WidthAssumption DEF Ticks
<1>1. CASE TimePasses
    BY <1>1 DEF TimePasses, settings, counts, stamps, history, requests
<1>2. ASSUME NEW kind \in {"tsd", "tsu"}, Start(kind) PROVE TypeOK'
    <2>1. CountsOK' /\ timestampStart' \in 0 .. Counter - 1
        BY <1>0, <1>2, SizeAssumption DEF Start
    <2>2. running' \in BOOLEAN /\ counted' \in BOOLEAN /\ plain' \in BOOLEAN
        BY <1>2 DEF Start
    <2>3. UNCHANGED <<now, available, timestamp, pc, until>> /\ timerName' = kind
          /\ from' = now /\ to' = -1
        BY <1>2 DEF Start
    <2> QED
        BY <2>1, <2>2, <2>3
<1>3. ASSUME NEW n \in Lengths, Continue(n) PROVE TypeOK'
    <2>1. timestampStart' \in 0 .. Counter - 1 /\ from' \in Nat
        BY <1>0, <1>3 DEF Continue
    <2>2. CountsOK'
        BY <1>3, ContinueType
    <2>3. counted' \in BOOLEAN /\ plain' \in BOOLEAN
        BY <1>3 DEF Continue
    <2>4. UNCHANGED <<now, settings, timestamp, pc, until, to>>
        BY <1>3 DEF Continue
    <2> QED
        BY <2>1, <2>2, <2>3, <2>4 DEF settings
<1>4. ASSUME NEW n \in Lengths, Data(n) PROVE TypeOK'
    <2>1. byteNumber + n \in Int
        BY SizeAssumption
    <2>2. byteNumber' \in 0 .. W - 1
        BY <1>4, <2>1, ModRange, SizeAssumption DEF Data
    <2> QED
        BY <1>0, <1>4, <2>2 DEF Data, settings, requests
<1>8. CASE Resume
    <2>1. CountsOK'
        BY <1>8, TransferType DEF Resume
    <2> QED
        BY <1>8, <2>1 DEF Resume, settings, stamps
<1>5. CASE StopDelay
    BY <1>5, DelayAssumption DEF StopDelay, settings, counts, stamps, history, requests
<1>6. CASE StopRefused
    BY <1>6 DEF StopRefused, settings, counts, stamps, history, requests
<1>7. CASE StopNotified
    <2>1. Elapsed \in Int
        BY <1>0, ModRange, WidthAssumption DEF Elapsed, U32
    <2>2. Milliseconds(Elapsed) \in 0 .. Word - 1
        BY <2>1, MillisecondsRange
    <2>3. U32(Milliseconds(Elapsed) - Delay) \in 0 .. Word - 1
        <3>1. Milliseconds(Elapsed) - Delay \in Int
            BY <2>2, WidthAssumption, DelayAssumption
        <3> QED
            BY <3>1, U32Range
    <2>4. timestamp' \in 0 .. Word - 1
        BY <1>7, <2>2, <2>3 DEF StopNotified
    <2>5. to' \in Nat \cup {-1}
        BY <1>7 DEF StopNotified
    <2> QED
        BY <1>7, <2>4, <2>5 DEF StopNotified, counts, requests
<1> QED
    BY <1>1, <1>2, <1>3, <1>4, <1>5, <1>6, <1>7, <1>8 DEF Next

\* A call of send_dummy_data that may not wrap the index, made when all but its
\* bytes of the request are counted, leaves the request made up of counted and
\* owed bytes; the count does not come back to 0.
LEMMA TransferCounts ==
    ASSUME TypeOK, NEW l \in 1 .. NoWrap, Transfer(l), total' \in 0 .. NoWrap,
           l <= total', byteNumber + l <= NoWrap, byteNumber # 0 => l < total'
    PROVE  /\ Debt'
           /\ byteNumber # 0 => byteNumber' # 0
<1>1. NoWrap \in 0 .. W - 1 /\ W \in Nat \ {0} /\ byteNumber \in Nat
    BY NoWrapRange, SizeAssumption DEF TypeOK
<1>2. /\ l \in 0 .. W - 1 /\ l \in Nat /\ l # 0 /\ l <= NoWrap
      /\ total' \in Nat /\ total' <= NoWrap /\ NoWrap <= W - 1 /\ NoWrap \in Nat
    BY <1>1
<1>3. CASE remaining' = 0 /\ byteNumber' = (byteNumber + l) % W
    <2>1. byteNumber + l \in 0 .. W - 1
        BY <1>1
    <2>2. byteNumber' = byteNumber + l
        BY <1>1, <1>3, <2>1, SmallMod
    <2> QED
        BY <1>1, <1>3, <2>2 DEF Debt
<1>4. CASE remaining' \in Rests(l) /\ byteNumber' = (total' - remaining') % W
    <2>1. remaining' \in 0 .. l
        BY <1>1, <1>2, <1>4, RestsRange
    <2>2. remaining' \in Nat /\ remaining' <= l /\ remaining' <= total'
        BY <1>2, <2>1
    <2>3. total' \in Nat /\ W \in Nat /\ total' < W
        BY <1>1, <1>2
    <2>4. /\ total' - remaining' \in 0 .. W - 1
          /\ remaining' < total' => total' - remaining' # 0
        BY <2>2, <2>3, Difference
    <2>5. byteNumber' = total' - remaining'
        BY <1>1, <1>4, <2>4, SmallMod
    <2>6. byteNumber # 0 => remaining' < total'
        BY <1>2, <2>2
    <2> QED
        BY <2>2, <2>4, <2>5, <2>6 DEF Debt
<1> QED
    BY <1>3, <1>4 DEF Transfer

\* CONTINUE of a plain DOWN test that stays plain.
LEMMA ContinueCounts ==
    ASSUME TypeOK, CountInv, plain, running, timerName = "tsd",
           NEW n \in Lengths, Continue(n), StillPlain(n)
    PROVE  /\ Debt'
           /\ byteNumber # 0 => byteNumber' # 0
           /\ remaining' # 0 => total' <= NoWrap
<1> DEFINE debt == (total' - remaining) % W
<1>1. NoWrap \in 0 .. W - 1 /\ W \in Nat \ {0} /\ n \in Nat
    BY NoWrapRange, SizeAssumption
<1>2. byteNumber \in Nat /\ remaining \in Nat /\ total \in Nat
    BY SizeAssumption DEF TypeOK
<1>3. IF debt # 0 THEN Transfer(debt) ELSE remaining' = 0 /\ UNCHANGED byteNumber
    BY DEF Continue
<1>4. CASE remaining = 0
    <2>1. byteNumber = 0 /\ n \in 0 .. NoWrap
        BY <1>1, <1>4 DEF StillPlain, CountInv
    <2>2. total' = n
        BY <1>4 DEF Continue
    <2>3. debt = n
        <3>1. n - remaining = n /\ n \in 0 .. W - 1
            BY <1>1, <1>4, <2>1
        <3> QED
            BY <1>1, <2>2, <3>1, SmallMod
    <2> HIDE DEF debt
    <2>4. CASE n = 0
        BY <1>3, <2>1, <2>3, <2>4 DEF Debt
    <2>5. CASE n # 0
        <3>1. Transfer(n) /\ n \in 1 .. NoWrap /\ byteNumber + n <= NoWrap
            BY <1>1, <1>3, <2>1, <2>3, <2>5
        <3> QED
            BY <1>1, <2>1, <2>2, <3>1, TransferCounts
    <2> QED
        BY <2>4, <2>5
<1>5. CASE remaining # 0
    <2>1. byteNumber = total - remaining /\ remaining <= total
        BY <1>5 DEF CountInv, Debt
    <2>2. /\ n + total <= NoWrap
          /\ byteNumber + (n + total - remaining) <= NoWrap
        BY <1>5 DEF StillPlain
    <2>3. total' = n + total
        <3>1. n + total \in 0 .. W - 1
            BY <1>1, <1>2, <2>2
        <3> QED
            BY <1>1, <1>5, <3>1, SmallMod DEF Continue
    <2>4. debt = n + byteNumber
        <3>1. total' - remaining = n + byteNumber /\ n + byteNumber \in 0 .. W - 1
            BY <1>1, <1>2, <2>1, <2>2, <2>3
        <3> QED
            BY <1>1, <3>1, SmallMod
    <2> HIDE DEF debt
    <2>5. CASE n + byteNumber = 0
        BY <1>1, <1>2, <1>3, <2>4, <2>5 DEF Debt
    <2>6. CASE n + byteNumber # 0
        <3>1. Transfer(n + byteNumber)
            BY <1>3, <2>4, <2>6
        <3>2. /\ n + byteNumber \in 1 .. NoWrap /\ total' \in 0 .. NoWrap
              /\ n + byteNumber < total' /\ byteNumber + (n + byteNumber) <= NoWrap
            BY <1>1, <1>2, <1>5, <2>1, <2>2, <2>3, <2>6
        <3> QED
            BY <1>1, <3>1, <3>2, TransferCounts
    <2> QED
        BY <2>5, <2>6
<1> QED
    BY <1>4, <1>5

LEMMA StepCount == TypeOK /\ CountInv /\ Next => CountInv'
<1> SUFFICES ASSUME TypeOK, CountInv, Next PROVE CountInv'
    OBVIOUS
<1> DEFINE Same == UNCHANGED <<running, timerName, counts, requests>>
<1>1. CASE TimePasses \/ StopDelay \/ StopRefused
    <2>1. Same /\ (pc' = pc \/ pc' = "idle" \/ remaining = 0)
        BY <1>1 DEF TimePasses, StopDelay, StopRefused, settings, history
    <2> QED
        BY <2>1 DEF CountInv, Debt, counts, requests
<1>2. ASSUME NEW kind \in {"tsd", "tsu"}, Start(kind) PROVE CountInv'
    BY <1>2 DEF Start, Idle, CountInv, Debt
<1>3. ASSUME NEW n \in Lengths, Continue(n) PROVE CountInv'
    <2>1. running' /\ timerName' = "tsd" /\ pc' = "idle"
        BY <1>3 DEF Continue, Idle, settings
    <2>2. running /\ timerName = "tsd"
        BY <1>3 DEF Continue
    <2>3. CASE ~plain'
        BY <2>1, <2>3 DEF CountInv
    <2>4. CASE plain'
        <3>1. plain /\ StillPlain(n)
            BY <1>3, <2>4 DEF Continue
        <3>2. /\ Debt'
              /\ byteNumber # 0 => byteNumber' # 0
              /\ remaining' # 0 => total' <= NoWrap
            BY <1>3, <2>2, <3>1, ContinueCounts
        <3>3. counted' <=> byteNumber' # 0
            BY <1>3, <2>2, <3>1, <3>2 DEF Continue, CountInv
        <3> QED
            BY <2>1, <3>2, <3>3 DEF CountInv
    <2> QED
        BY <2>3, <2>4
<1>4. ASSUME NEW n \in Lengths, Data(n) PROVE CountInv'
    BY <1>4 DEF Data, Idle, CountInv, Debt, settings, requests
<1>5. CASE Resume
    <2>1. /\ running /\ timerName = "tsd" /\ remaining # 0
          /\ UNCHANGED <<running, timerName>> /\ pc' = "idle"
        BY <1>5 DEF Resume, Idle, settings, CountInv
    <2>2. CASE ~plain
        BY <1>5, <2>1, <2>2 DEF Resume, CountInv
    <2>3. CASE plain
        <3>1. /\ remaining <= total /\ byteNumber = total - remaining
              /\ total <= NoWrap /\ total' = total /\ Transfer(remaining)
            BY <1>5, <2>1, <2>3 DEF Resume, CountInv, Debt
        <3>2. NoWrap \in Nat /\ remaining \in Nat /\ total \in Nat
            BY NoWrapRange, SizeAssumption DEF TypeOK
        <3>3. /\ remaining \in 1 .. NoWrap /\ byteNumber + remaining <= NoWrap
              /\ total' \in 0 .. NoWrap /\ (byteNumber # 0 => remaining < total')
            BY <2>1, <3>1, <3>2
        <3>4. Debt' /\ (byteNumber # 0 => byteNumber' # 0)
            BY <3>1, <3>3, TransferCounts
        <3>5. counted' <=> byteNumber' # 0
            BY <1>5, <2>1, <2>3, <3>4 DEF Resume, CountInv
        <3> QED
            BY <2>1, <3>1, <3>4, <3>5 DEF CountInv
    <2> QED
        BY <2>2, <2>3
<1>6. CASE StopNotified
    <2>1. ~running' /\ remaining' = remaining
        BY <1>6 DEF StopNotified, counts
    <2>2. remaining = 0
        BY <1>6 DEF StopNotified, CountInv
    <2>3. pc' = "idle"
        BY <1>6 DEF StopNotified
    <2> QED
        BY <2>1, <2>2, <2>3 DEF CountInv
<1> QED
    BY <1>1, <1>2, <1>3, <1>4, <1>5, <1>6 DEF Next

LEMMA StepStamp == TypeOK /\ CountInv /\ StampInv /\ Next => StampInv'
<1> SUFFICES ASSUME TypeOK, CountInv, StampInv, Next PROVE StampInv'
    OBVIOUS
<1> USE DEF TypeOK, StampInv
<1>1. CASE TimePasses
    BY <1>1 DEF TimePasses, settings, counts, stamps, history, requests
<1>2. ASSUME NEW kind \in {"tsd", "tsu"}, Start(kind) PROVE StampInv'
    BY <1>2 DEF Start, Idle, Ticks
<1>3. ASSUME NEW n \in Lengths, Continue(n) PROVE StampInv'
    <2>1. /\ pc = "idle" /\ running /\ timerName = "tsd"
          /\ UNCHANGED <<now, running, timerName, timestamp, pc, to>>
          /\ timestampStart' = IF byteNumber = 0 THEN now % Counter ELSE timestampStart
          /\ from' = IF counted THEN from ELSE now
          /\ plain' => plain
        BY <1>3 DEF Continue, Idle, Ticks, settings
    <2>2. plain' => timestampStart' = from' % Counter
        BY <2>1 DEF CountInv
    <2> QED
        BY <2>1, <2>2
<1>4. ASSUME NEW n \in Lengths, Data(n) PROVE StampInv'
    BY <1>4 DEF Data, Idle, Ticks, settings, requests
<1>8. CASE Resume
    <2>1. pc' # "delay" /\ UNCHANGED <<now, running, timerName, timestampStart, timestamp,
                                       from, to, plain>>
        BY <1>8 DEF Resume, Idle, settings, stamps
    <2> QED
        BY <2>1
<1>5. CASE StopDelay
    BY <1>5, DelayAssumption DEF StopDelay, settings, counts, stamps, history, requests
<1>6. CASE StopRefused
    BY <1>6 DEF StopRefused, settings, counts, stamps, history, requests
<1>7. CASE StopNotified
    BY <1>7, DelayAssumption DEF StopNotified
<1> QED
    BY <1>1, <1>2, <1>3, <1>4, <1>5, <1>6, <1>7, <1>8 DEF Next

\* The result of an UP test, computed from the stamp of its last data.
LEMMA UpResult ==
    ASSUME TypeOK, StampInv, running, plain, timerName = "tsu", to # -1, Measurable
    PROVE  Milliseconds(Elapsed) = TrueTime
<1>1. timestamp = to % Counter /\ timestampStart = from % Counter
      /\ from \in Nat /\ to \in Nat /\ from <= to
    BY DEF TypeOK, StampInv
<1>2. timestamp - timestampStart = to - from /\ to - from \in 0 .. Counter - 1
    BY <1>1, SameTurn, WidthAssumption DEF Measurable
<1>3. to - from \in Nat /\ to - from \in 0 .. Word - 1
    BY <1>2, WidthAssumption
<1>4. Elapsed = to - from
    BY <1>2, <1>3, SmallMod, WidthAssumption DEF Elapsed, U32
<1> QED
    BY <1>3, <1>4, SmallMilliseconds DEF Measurable, TrueTime

\* The result of a DOWN test: taking off the delay's milliseconds takes off
\* its ticks.
LEMMA DownResult ==
    ASSUME TypeOK, StampInv, running, plain, timerName = "tsd", pc = "delay", now >= until,
           from \div Counter = now \div Counter, (now - from) * Mul < Word
    PROVE  U32(Milliseconds(Elapsed) - Delay)
               = ((now - from - DelayTicks) * Mul) \div Clock
<1> DEFINE d == now - from - DelayTicks
<1>1. /\ timestampStart = from % Counter /\ from \in Nat /\ now \in Nat
      /\ from <= now /\ d \in Nat
    BY DelayAssumption DEF TypeOK, StampInv
<1>2. Ticks - timestampStart = now - from /\ now - from \in 0 .. Counter - 1
    BY <1>1, SameTurn, WidthAssumption DEF Ticks
<1>3. now - from \in Nat /\ now - from \in 0 .. Word - 1
    BY <1>2, WidthAssumption
<1>4. Elapsed = now - from
    BY <1>2, <1>3, SmallMod, WidthAssumption DEF Elapsed, U32
<1>5. /\ Milliseconds(Elapsed) = ((now - from) * Mul) \div Clock
      /\ Milliseconds(Elapsed) \in 0 .. Word - 1
    BY <1>3, <1>4, SmallMilliseconds
<1>6. (now - from) * Mul = d * Mul + Delay * Clock
    <2>1. now - from = d + DelayTicks
        BY <1>1, DelayAssumption
    <2> HIDE DEF d
    <2>2. (d + DelayTicks) * Mul = d * Mul + DelayTicks * Mul
        BY <1>1, DelayAssumption, RateAssumption
    <2> QED
        BY <2>1, <2>2, DelayAssumption
<1> HIDE DEF d
<1>7. d * Mul \in Nat
    BY <1>1, ProductNat, RateAssumption
<1>8. Milliseconds(Elapsed) = ((d * Mul) \div Clock) + Delay
    <2> DEFINE p == d * Mul
    <2>1. p \in Nat /\ Clock \in Nat \ {0} /\ Delay \in Nat
        BY <1>7, RateAssumption, DelayAssumption
    <2> HIDE DEF p
    <2>2. (p + Delay * Clock) \div Clock = (p \div Clock) + Delay
        BY <2>1, DivShift
    <2> QED
        BY <1>5, <1>6, <2>2 DEF p
<1>9. (d * Mul) \div Clock \in Nat
    BY <1>7, RateAssumption
<1>10. (d * Mul) \div Clock \in 0 .. Word - 1
    BY <1>5, <1>8, <1>9, DelayAssumption, WidthAssumption
<1>11. Milliseconds(Elapsed) - Delay = (d * Mul) \div Clock
    BY <1>8, <1>9, DelayAssumption
<1>12. U32(Milliseconds(Elapsed) - Delay) = (d * Mul) \div Clock
    BY <1>10, <1>11, SmallMod, WidthAssumption DEF U32
<1> QED
    BY <1>12 DEF d

LEMMA StepTime == Inv /\ Next => TimeRight'
<1> SUFFICES ASSUME Inv, Next, Reported', plain' PROVE timestamp' = TrueTime'
    BY DEF TimeRight
<1> USE DEF Reported
<1> USE DEF Inv
<1>1. CASE StopNotified
    <2>1. running /\ pc = "delay" /\ now >= until /\ plain
        BY <1>1 DEF StampInv, StopNotified, requests
    <2>2. timerName' = timerName /\ from' = from /\ now' = now
        BY <1>1 DEF StopNotified
    <2>3. CASE timerName = "tsu"
        <3>1. to' = to /\ timestamp' = Milliseconds(Elapsed)
            BY <1>1, <2>3 DEF StopNotified
        <3>2. Measurable /\ TrueTime' = TrueTime
            BY <2>2, <3>1 DEF Measurable, TrueTime
        <3> QED
            BY <2>1, <2>3, <3>1, <3>2, UpResult
    <2>4. CASE timerName = "tsd"
        <3>1. to' = now /\ timestamp' = U32(Milliseconds(Elapsed) - Delay)
            BY <1>1, <2>4 DEF StopNotified
        <3>2. from \div Counter = now \div Counter /\ (now - from) * Mul < Word
            BY <2>2, <3>1 DEF Measurable
        <3>3. TrueTime' = ((now - from - DelayTicks) * Mul) \div Clock
            BY <2>2, <2>4, <3>1 DEF TrueTime
        <3> QED
            BY <2>1, <2>4, <3>1, <3>2, <3>3, DownResult
    <2> QED
        BY <2>3, <2>4 DEF TypeOK
<1>2. CASE TimePasses \/ StopDelay \/ StopRefused
    <2>1. UNCHANGED <<settings, stamps, history>>
        BY <1>2 DEF TimePasses, StopDelay, StopRefused
    <2>2. TimeRight'
        BY <2>1 DEF TimeRight, TrueTime, Measurable, settings, stamps, history, requests
    <2> QED
        BY <2>2 DEF TimeRight
<1>3. ASSUME NEW kind \in {"tsd", "tsu"}, Start(kind) PROVE FALSE
    BY <1>3 DEF Start
<1>4. ASSUME NEW n \in Lengths, Continue(n) \/ Data(n) PROVE FALSE
    <2>1. running /\ running' = running
        BY <1>4 DEF Continue, Data, settings
    <2> QED
        BY <2>1
<1>5. CASE Resume
    BY <1>5 DEF Resume, CountInv, settings
<1> QED
    BY <1>1, <1>2, <1>3, <1>4, <1>5 DEF Next

-----------------------------------------------------------------------------

\* The types, the counts of a plain test and what the stamps show are kept by
\* every step of the timer and of the code that reads it.
THEOREM Invariance == Spec => []Inv
<1>1. Inv /\ [Next]_vars => Inv'
    <2>1. CASE Next
        BY <2>1, StepType, StepCount, StepStamp, StepTime DEF Inv
    <2>2. ASSUME Inv, UNCHANGED vars PROVE Inv'
        BY <2>2 DEF Inv, TypeOK, CountInv, Debt, StampInv, TimeRight, Reported,
                    TrueTime, Measurable, vars, settings, counts, stamps, history, requests
    <2> QED
        BY <2>1, <2>2
<1> QED
    BY <1>1, InitInv, PTL DEF Spec

\* Time stamps keep to 24 and to 32 bits, whatever is subtracted.
THEOREM TypeCorrect == Spec => []TypeOK
    BY Invariance, PTL DEF Inv

\* The time reported of a test within the limits of the arithmetic is the time
\* it took, for every width, rate, delay and packet size, unless a request of
\* it followed a completed one or its sums passed NoWrap.
THEOREM TimeCorrect == Spec => []TimeRight
    BY Invariance, PTL DEF Inv
=============================================================================
