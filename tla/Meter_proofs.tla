---------------------------- MODULE Meter_proofs ----------------------------
(***************************************************************************)
(* Proofs about Meter, for every packet size, counter width, number of     *)
(* transmit packets and bound, and every set of commands in which a test   *)
(* has one request: how far byte_number is from what the SoftDevice got.   *)
(***************************************************************************)
EXTENDS Meter, SpeedTest_proofs

-----------------------------------------------------------------------------
(* The invariant.                                                          *)

\* A request comes right behind a START, or is the first word left, and is small.
AfterStart(ws) ==
    \A k \in 1 .. Len(ws) : ws[k].name = "continue" =>
        ws[k].n + SIZE < W /\ (k > 1 => ws[k - 1].name = "start")

Asks(ws) == ws # <<>> /\ Head(ws).name = "continue"

\* When communication_run comes to a request, the test has just been opened.
Opened ==
    /\ timerName = "tsd" /\ remaining = 0
    /\ byteNumber = 0 /\ sentBytes = 0

WordInv ==
    cmd = "tsd" =>
        /\ AfterStart(words)
        /\ pc # "report"
        /\ pc = "delay" => Head(words).name = "stop"
        /\ pc \in Sending /\ caller = "run" => ~Asks(words)
        /\ pc = "run" /\ running /\ Asks(words) => Opened

\* How much more is counted than was handed over.
Ahead == byteNumber - sentBytes

\* A suspended transfer, one that is called again, and one that is under way: only
\* the odd bytes of the first call can be counted without having been sent.
Request(rest) == byteNumber = total - rest /\ total + SIZE < W
Waits == Request(remaining) /\ remaining % SIZE = 0 /\ Ahead \in 0 .. SIZE - 1
Called == Request(len) /\ Ahead \in 0 .. SIZE - 1 /\ (Extra # 0 => Ahead = 0)
Loops ==
    /\ Request(len) /\ i % SIZE = 0
    /\ pc = "sent" => i = 0 /\ len <= SIZE
    /\ i <= len - Extra + (IF Extra = 0 THEN 0 ELSE SIZE)
    /\ Extra = 0 => Ahead + i \in 0 .. SIZE - 1
    /\ Extra # 0 => Ahead + i \in {0, -Extra}

ByteInv ==
    timerName = "tsd" /\ ~refused =>
        /\ pc \notin Sending /\ remaining # 0 => Waits
        /\ pc \notin Sending /\ remaining = 0 => Ahead \in -SIZE .. 2*SIZE - 1
        /\ pc = "extra" => Called
        /\ pc \in {"full", "sent"} => Loops

MeterInv == IInv /\ sentBytes \in Uint16 /\ refused \in BOOLEAN /\ WordInv /\ ByteInv

-----------------------------------------------------------------------------
(* The words.                                                              *)

\* What is behind the first word.
LEMMA WordsBehind ==
    ASSUME NEW ws \in Seq(Words), ws # <<>>, AfterStart(ws)
    PROVE  /\ AfterStart(Tail(ws))
           /\ Head(ws).name # "start" => ~Asks(Tail(ws))
           /\ Head(ws).name = "continue" => Head(ws).n + SIZE < W
<1> DEFINE t == Tail(ws)
<1>1. /\ Len(ws) \in Nat \ {0} /\ Head(ws) = ws[1] /\ 1 \in 1 .. Len(ws)
      /\ Len(t) = Len(ws) - 1 /\ \A k \in 1 .. Len(t) : t[k] = ws[k + 1]
    BY HeadTailProperties
<1>2. t # <<>> => 1 \in 1 .. Len(t) /\ Head(t) = t[1]
    BY HeadTailProperties
<1> HIDE DEF t
<1>3. ASSUME NEW k \in 1 .. Len(t), t[k].name = "continue"
      PROVE  t[k].n + SIZE < W /\ ws[k].name = "start"
    <2>1. k + 1 \in 1 .. Len(ws) /\ k + 1 > 1 /\ (k + 1) - 1 = k
        BY <1>1
    <2> QED
        BY <1>1, <1>3, <2>1 DEF AfterStart
<1>4. ASSUME NEW k \in 1 .. Len(t), k > 1 PROVE t[k - 1] = ws[k]
    <2>1. k - 1 \in 1 .. Len(t) /\ (k - 1) + 1 = k
        BY <1>1, <1>4
    <2> QED
        BY <1>1, <2>1
<1>5. AfterStart(t)
    BY <1>3, <1>4 DEF AfterStart
<1>6. Asks(t) => ws[1].name = "start"
    BY <1>2, <1>3 DEF Asks
<1> QED
    BY <1>1, <1>5, <1>6 DEF AfterStart, t

\* The words stay, and no request is come to.
LEMMA WordsKept ==
    ASSUME WordInv, UNCHANGED <<cmd, words>>,
           \/ pc' \in {"idle", "tx_complete"}
           \/ pc' \in Sending /\ caller' = "tx_complete"
           \/ pc \in Sending /\ pc' \in Sending /\ caller' = caller
           \/ cmd # "tsd"
    PROVE  WordInv'
BY DEF WordInv, Sending

\* Neither the handler nor the test moves.
LEMMA WordsStill ==
    ASSUME WordInv, UNCHANGED <<info, handler, sentBytes>>
    PROVE  WordInv'
BY DEF WordInv, Opened, info, test, counts, handler, call

\* The next word: a request only behind a START that opens a test.
LEMMA WordsNext ==
    ASSUME WordInv, words \in Seq(Words), words # <<>>, words' = Tail(words), cmd' = cmd,
           pc' = "run", cmd = "tsd" /\ Head(words).name = "start" => Opened'
    PROVE  WordInv'
<1> SUFFICES ASSUME cmd = "tsd" PROVE WordInv'
    BY DEF WordInv
<1>1. AfterStart(words') /\ (Head(words).name # "start" => ~Asks(words'))
    BY WordsBehind DEF WordInv
<1>2. Opened' \/ ~Asks(words')
    BY <1>1
<1> QED
    BY <1>1, <1>2 DEF WordInv, Sending

\* A command of the peer, or the stop the program sends itself.
LEMMA WordsBegin ==
    ASSUME SingleRequests, NEW c \in Commands \cup {StopDownCommand},
           pc' = "run", cmd' = c.cmd, words' = c.words
    PROVE  WordInv'
<1>1. CASE c \in Commands
    <2>1. c.words \in Seq(Words)
        BY <1>1, WordsOfCommand
    <2>2. c.words # <<>> => 1 \in 1 .. Len(c.words) /\ Head(c.words) = c.words[1]
        BY <2>1
    <2>3. c.cmd = "tsd" => AfterStart(c.words) /\ ~Asks(c.words)
        BY <1>1, <2>2 DEF SingleRequests, AfterStart, Asks
    <2> QED
        BY <2>3 DEF WordInv, Sending
<1>2. CASE c = StopDownCommand
    <2>1. /\ c.words = <<StopWord>> /\ Len(<<StopWord>>) = 1 /\ Head(<<StopWord>>) = StopWord
          /\ \A k \in 1 .. 1 : <<StopWord>>[k] = StopWord
        BY <1>2 DEF StopDownCommand
    <2>2. StopWord.name = "stop"
        BY DEF StopWord
    <2>3. AfterStart(c.words) /\ ~Asks(c.words)
        BY <2>1, <2>2 DEF AfterStart, Asks
    <2> QED
        BY <2>3 DEF WordInv, Sending
<1> QED
    BY <1>1, <1>2

-----------------------------------------------------------------------------
(* What is measured.                                                       *)

\* Only the sends of dummy data, and the beginning of a test, move the history.
LEMMA NotMeasured ==
    ASSUME MeterInv, Measure, running' => running,
           \/ pc \notin {"extra", "full"}
           \/ UNCHANGED nPacket /\ inFlight' <= inFlight
    PROVE  sentBytes' = sentBytes /\ (refused' <=> refused)
<1>1. ~Opens /\ ~Accepts /\ ~Refuses
    <2>1. inFlight \in Nat
        BY TxAssumption DEF MeterInv, IInv, TypeOK, SoftDeviceOK
    <2>2. ~Accepts
        BY <2>1 DEF Accepts
    <2>3. ~Opens /\ ~Refuses
        BY Zenon DEF Opens, Refuses
    <2> QED
        BY <2>2, <2>3
<1>2. sentBytes' = sentBytes
    BY <1>1 DEF Measure
<1>3. refused' <=> refused
    BY <1>1, Zenon DEF Measure
<1> QED
    BY <1>2, <1>3

\* The numbers keep their types.
LEMMA MeasureTyped ==
    ASSUME MeterInv, Measure
    PROVE  sentBytes' \in Uint16 /\ refused' \in BOOLEAN
<1>1. 0 \in Uint16 /\ sentBytes \in Nat /\ SIZE \in Nat /\ Extra \in Nat
    BY SizeAssumption DEF MeterInv, Uint16, Extra, IInv, TypeOK, HandlerOK
<1>2. (sentBytes + (IF pc = "extra" THEN Extra ELSE SIZE)) % W \in Uint16
    BY <1>1, ModIsUint16
<1>3. sentBytes' \in Uint16
    BY <1>1, <1>2 DEF Measure, MeterInv
<1>4. refused' \in BOOLEAN
    BY DEF Measure, MeterInv
<1> QED
    BY <1>3, <1>4

\* Nothing of a test or its transfer moves.
LEMMA BytesKept ==
    ASSUME MeterInv, sentBytes' = sentBytes, refused' <=> refused,
           UNCHANGED <<timerName, byteNumber, remaining, total>>,
           \/ pc \notin Sending /\ pc' \notin Sending
           \/ UNCHANGED <<pc, len, i>>
    PROVE  ByteInv'
BY DEF MeterInv, ByteInv, Waits, Called, Loops, Request, Ahead, Extra, Sending

\* A transfer that waits is called again.
LEMMA BytesCalled ==
    ASSUME MeterInv, sentBytes' = sentBytes, refused' <=> refused,
           UNCHANGED <<timerName, byteNumber, remaining, total>>,
           pc \notin Sending, remaining # 0, pc' = "extra", len' = remaining
    PROVE  ByteInv'
BY DEF MeterInv, ByteInv, Waits, Called, Request, Ahead, Extra, Sending

\* A test of this kind begins, or one of the other kind goes on.
LEMMA BytesBegin ==
    ASSUME pc' \notin Sending, remaining' = 0, byteNumber' = 0, sentBytes' = 0
    PROVE  ByteInv'
<1>1. (byteNumber - sentBytes)' \in -SIZE .. 2 * SIZE - 1
    BY SizeAssumption
<1> QED
    BY <1>1 DEF ByteInv, Ahead, Sending

-----------------------------------------------------------------------------
(* send_dummy_data.                                                        *)

\* A number below the width is not changed by it.
LEMMA InWidth ==
    ASSUME NEW x \in Int, 0 <= x, x < W
    PROVE  x % W = x
<1>1. W \in Nat \ {0} /\ x \in 0 .. W - 1
    BY SizeAssumption
<1> QED
    BY <1>1

\* Two multiples are apart by a multiple.
LEMMA MultipleMinus ==
    ASSUME NEW s \in Nat \ {0}, NEW a \in Int, NEW b \in Int, b % s = 0
    PROVE  (a - (a % s) - b) % s = 0
<1>1. a - (a % s) = s * (a \div s) /\ b = s * (b \div s) /\ a \div s \in Int /\ b \div s \in Int
    BY Division
<1>2. a - (a % s) - b = ((a \div s) - (b \div s)) * s
    BY <1>1
<1>3. (((a \div s) - (b \div s)) * s) % s = 0
    BY <1>1, ProductMod
<1> QED
    BY <1>2, <1>3

\* A packet that was tried is counted.
LEMMA PacketCounted ==
    ASSUME nPacket \in Uint16
    PROVE  (nPacket + 1) % W # nPacket
<1>1. W \in Nat /\ W > 1 /\ nPacket \in 0 .. W - 1
    BY SizeAssumption DEF Uint16
<1>2. CASE nPacket + 1 < W
    BY <1>1, <1>2, InWidth
<1>3. CASE nPacket + 1 = W
    <2>1. W % W = 0
        BY <1>1
    <2> QED
        BY <1>1, <1>3, <2>1
<1> QED
    BY <1>1, <1>2, <1>3

\* What the steps of send_dummy_data know.
LEMMA SendFacts ==
    ASSUME MeterInv, pc \in Sending
    PROVE  /\ running /\ timerName = "tsd" /\ len # 0 /\ remaining = len
           /\ SIZE \in Nat \ {0} /\ W \in Nat /\ len \in Nat /\ total \in Nat /\ i \in Nat
           /\ byteNumber \in Nat /\ sentBytes \in Nat
           /\ Extra \in 0 .. SIZE - 1 /\ Extra <= len
<1>1. /\ SIZE \in Nat \ {0} /\ W \in Nat /\ len \in Nat /\ total \in Nat /\ i \in Nat
      /\ byteNumber \in Nat /\ sentBytes \in Nat
    BY SizeAssumption DEF MeterInv, IInv, TypeOK, InfoOK, HandlerOK, Uint16
<1>2. Extra \in 0 .. SIZE - 1 /\ Extra <= len
    <2>1. len % SIZE \in 0 .. SIZE - 1
        BY <1>1, Division
    <2>2. CASE len < SIZE
        BY <1>1, <2>1, <2>2 DEF Extra
    <2>3. CASE len >= SIZE
        BY <1>1, <2>1, <2>3 DEF Extra
    <2> QED
        BY <1>1, <2>2, <2>3, <2>1 DEF Extra
<1> QED
    BY <1>1, <1>2 DEF MeterInv, IInv, HandlerInv

\* While the loop runs there is room for another packet.
LEMMA LoopRoom ==
    ASSUME MeterInv, pc \in Sending, i % SIZE = 0, i < len
    PROVE  i <= len - Extra /\ (Extra = 0 => i + SIZE <= len)
<1>1. SIZE \in Nat \ {0} /\ len \in Int /\ i \in Int
    BY SendFacts
<1>2. i <= len - (len % SIZE) /\ (len % SIZE = 0 => i + SIZE <= len)
    BY <1>1, MultipleBelow, Zenon
<1> QED
    BY <1>2 DEF Extra

\* The odd bytes.
LEMMA BytesExtra == MeterInv /\ SendExtra /\ Measure => ByteInv'
<1> SUFFICES ASSUME MeterInv, SendExtra, Measure, ~refused' PROVE Loops'
    BY DEF ByteInv, SendExtra, Sending
<1> USE SendFacts DEF Sending
<1>0. pc = "extra" /\ timerName = "tsd" /\ UNCHANGED <<running, len, total, byteNumber>>
    BY DEF SendExtra, test
<1>1. ~Opens /\ ~refused /\ ~Refuses
    <2>1. ~Opens
        BY <1>0 DEF Opens
    <2> QED
        BY <2>1, Zenon DEF Measure
<1>2. Called
    BY <1>0, <1>1 DEF MeterInv, ByteInv
<1>3. Extra' = Extra /\ i' = 0 /\ 0 % SIZE = 0 /\ (pc' = "sent" => len <= SIZE)
    BY <1>0 DEF Extra, SendExtra
<1>4. sentBytes' = IF Extra # 0 /\ inFlight' = inFlight + 1 THEN sentBytes + Extra ELSE sentBytes
    <2>1. CASE Extra = 0
        <3>1. inFlight' = inFlight /\ inFlight \in Nat
            BY <2>1, TxAssumption DEF SendExtra, MeterInv, IInv, TypeOK, SoftDeviceOK
        <3>2. ~Accepts
            BY <3>1 DEF Accepts
        <3> QED
            BY <1>1, <2>1, <3>2 DEF Measure
    <2>2. CASE Extra # 0
        <3>1. sentBytes = total - len /\ sentBytes + Extra < W /\ sentBytes + Extra \in Nat
            BY <1>0, <1>2, <2>2 DEF Called, Request, Ahead
        <3>2. (sentBytes + Extra) % W = sentBytes + Extra
            BY <3>1, InWidth
        <3> QED
            BY <1>0, <1>1, <2>2, <3>2 DEF Measure, Accepts
    <2> QED
        BY <2>1, <2>2
<1>5. Ahead' = byteNumber - sentBytes'
    BY <1>0 DEF Ahead
<1>6. Extra = 0 => Ahead' + i' \in 0 .. SIZE - 1
    BY <1>0, <1>2, <1>3, <1>4, <1>5 DEF Called, Ahead
<1>7. Extra # 0 => Ahead' + i' \in {0, -Extra}
    BY <1>0, <1>2, <1>3, <1>4, <1>5 DEF Called, Ahead
<1>8. i' <= len - Extra + (IF Extra = 0 THEN 0 ELSE SIZE)
    BY <1>0, <1>3
<1>9. Request(len)'
    BY <1>0, <1>2 DEF Called, Request
<1> QED
    BY <1>0, <1>3, <1>6, <1>7, <1>8, <1>9 DEF Loops

\* A full packet of the loop.
LEMMA BytesFull == MeterInv /\ SendFull /\ Measure => ByteInv'
<1> SUFFICES ASSUME MeterInv, SendFull, Measure, ~refused' PROVE Loops'
    BY DEF ByteInv, SendFull, Sending
<1> USE SendFacts DEF Sending
<1>0. /\ pc = "full" /\ pc' = "full" /\ timerName = "tsd" /\ i < len
      /\ UNCHANGED <<running, len, total, byteNumber>> /\ i' = (i + SIZE) % W
    BY DEF SendFull, test
<1>1. ~Opens /\ ~refused /\ ~Refuses
    <2>1. ~Opens
        BY <1>0 DEF Opens
    <2> QED
        BY <2>1, Zenon DEF Measure
<1>2. Loops
    BY <1>0, <1>1 DEF MeterInv, ByteInv
<1>3. Accepts
    <2>1. nPacket' # nPacket
        BY PacketCounted DEF SendFull, MeterInv, IInv, TypeOK, InfoOK
    <2>2. StringSend(TRUE) = "success"
        BY <1>0, <1>1, <2>1 DEF Refuses, SendFull
    <2> QED
        BY <1>0, <2>2 DEF Accepts, SendFull, Take
<1>4. i % SIZE = 0 /\ i <= len - Extra /\ (Extra = 0 => i + SIZE <= len)
    BY <1>0, <1>2, LoopRoom DEF Loops
<1>5. len <= total /\ total + SIZE < W
    BY <1>0, <1>2 DEF Loops, Request
<1>6. i' = i + SIZE
    BY <1>0, <1>4, <1>5, InWidth
<1>7. sentBytes' = sentBytes + SIZE
    <2>1. sentBytes + SIZE < W
        BY <1>0, <1>2, <1>4, <1>5 DEF Loops, Request, Ahead
    <2>2. (sentBytes + SIZE) % W = sentBytes + SIZE
        BY <1>0, <2>1, InWidth
    <2> QED
        BY <1>0, <1>1, <1>3, <2>2 DEF Measure
<1>8. Ahead' + i' = Ahead + i /\ Extra' = Extra
    BY <1>0, <1>6, <1>7 DEF Ahead, Extra
<1>9. i' % SIZE = 0
    BY <1>0, <1>4, <1>6, MultipleNext
<1>10. i' <= len - Extra + (IF Extra = 0 THEN 0 ELSE SIZE)
    BY <1>0, <1>4, <1>6
<1> QED
    BY <1>0, <1>2, <1>8, <1>9, <1>10 DEF Loops, Request

\* The SoftDevice has no packet left.
LEMMA BytesSuspend == MeterInv /\ SendSuspend /\ Measure => ByteInv'
<1> SUFFICES ASSUME MeterInv, SendSuspend, Measure, ~refused' PROVE ByteInv'
    BY DEF ByteInv
<1> USE SendFacts DEF Sending
<1>0. /\ pc = "full" /\ pc' \notin Sending /\ timerName = "tsd" /\ i < len
      /\ UNCHANGED <<running, len, total, nPacket, inFlight>>
      /\ remaining' = (len - Extra - i) % W /\ byteNumber' = (total - remaining') % W
    BY DEF SendSuspend, test, sd, call, MeterInv, IInv, TypeOK, HandlerOK
<1>1. sentBytes' = sentBytes /\ ~refused
    <2>1. inFlight' <= inFlight
        BY <1>0, TxAssumption DEF MeterInv, IInv, TypeOK, SoftDeviceOK
    <2> QED
        BY <1>0, <2>1, NotMeasured
<1>2. Loops
    BY <1>0, <1>1 DEF MeterInv, ByteInv
<1>3. i % SIZE = 0 /\ i <= len - Extra
    BY <1>0, <1>2, LoopRoom DEF Loops
<1>4. byteNumber = total - len /\ len <= total /\ total + SIZE < W
    BY <1>0, <1>2 DEF Loops, Request
<1>5. remaining' = len - Extra - i
    BY <1>0, <1>3, <1>4, InWidth
<1>6. byteNumber' = total - remaining'
    BY <1>0, <1>3, <1>4, <1>5, InWidth
<1>7. remaining' % SIZE = 0
    <2>1. SIZE \in Nat \ {0} /\ len \in Int /\ i \in Int
        BY <1>0
    <2>2. (len - (len % SIZE) - i) % SIZE = 0
        BY <1>3, <2>1, MultipleMinus, Zenon
    <2> QED
        BY <1>5, <2>2 DEF Extra
<1>8. Ahead' = Ahead + i + Extra
    BY <1>0, <1>1, <1>4, <1>5, <1>6 DEF Ahead
<1>9. Ahead' \in 0 .. SIZE - 1
    BY <1>0, <1>2, <1>8 DEF Loops
<1>10. Waits'
    BY <1>0, <1>4, <1>6, <1>7, <1>9 DEF Waits, Request
<1>11. Ahead' \in -SIZE .. 2 * SIZE - 1
    BY <1>0, <1>9
<1> QED
    BY <1>0, <1>10, <1>11 DEF ByteInv

\* The call ends.
LEMMA BytesDone == MeterInv /\ SendDone /\ Measure => ByteInv'
<1> SUFFICES ASSUME MeterInv, SendDone, Measure, ~refused' PROVE ByteInv'
    BY DEF ByteInv
<1> USE SendFacts DEF Sending
<1>0. /\ pc \in {"full", "sent"} /\ pc' \notin Sending /\ timerName = "tsd"
      /\ pc = "full" => i >= len
      /\ UNCHANGED <<running, len, total, nPacket, inFlight>>
      /\ remaining' = 0 /\ byteNumber' = (byteNumber + len) % W
    BY DEF SendDone, test, sd, call, MeterInv, IInv, TypeOK, HandlerOK
<1>1. sentBytes' = sentBytes /\ ~refused
    <2>1. inFlight' <= inFlight
        BY <1>0, TxAssumption DEF MeterInv, IInv, TypeOK, SoftDeviceOK
    <2> QED
        BY <1>0, <2>1, NotMeasured
<1>2. Loops
    BY <1>0, <1>1 DEF MeterInv, ByteInv
<1>3. byteNumber' = byteNumber + len
    BY <1>0, <1>2, InWidth DEF Loops, Request
<1>4. Ahead' = (Ahead + i) + (len - i) /\ Ahead \in Int
    BY <1>0, <1>1, <1>3 DEF Ahead
<1>5. CASE Extra = 0
    <2>1. Ahead + i \in 0 .. SIZE - 1 /\ len - i \in 0 .. SIZE
        BY <1>0, <1>2, <1>5 DEF Loops
    <2> QED
        BY <1>0, <1>4, <2>1 DEF ByteInv
<1>6. CASE Extra # 0
    <2>1. Ahead + i \in {0, -Extra} /\ len - i \in Extra - SIZE .. SIZE
        BY <1>0, <1>2, <1>6 DEF Loops
    <2> QED
        BY <1>0, <1>4, <2>1 DEF ByteInv
<1> QED
    BY <1>5, <1>6

-----------------------------------------------------------------------------
(* Every step.                                                             *)

\* CONTINUE: the one request of the test.
LEMMA RequestStep == MeterInv /\ RunContinue /\ Measure => WordInv' /\ ByteInv'
<1> SUFFICES ASSUME MeterInv, RunContinue, Measure PROVE WordInv' /\ ByteInv'
    OBVIOUS
<1> DEFINE n == Head(words).n
<1>0. /\ pc = "run" /\ cmd = "tsd" /\ cmd' = cmd /\ running /\ words # <<>>
      /\ words \in Seq(Words) /\ Head(words).name = "continue" /\ words' = Tail(words)
      /\ UNCHANGED <<running, timerName, byteNumber>> /\ n \in Nat
    BY WordsLeft, SizeAssumption
    DEF RunContinue, AtTestWord, AtWord, test, MeterInv, IInv, TypeOK, HandlerOK, Words, Uint16
<1>1. sentBytes' = sentBytes /\ (refused' <=> refused)
    BY <1>0, NotMeasured
<1>2. Opened /\ AfterStart(words) /\ Head(words).name # "start"
    BY <1>0 DEF MeterInv, WordInv, Asks
<1>3. n + SIZE < W /\ AfterStart(words') /\ ~Asks(words')
    BY <1>0, <1>2, WordsBehind
<1>4. total' = n /\ remaining' = n
    <2>1. total' = n /\ remaining' = (total' - 0) % W
        BY <1>2 DEF RunContinue, Opened
    <2>2. n % W = n
        BY <1>0, <1>3, SizeAssumption, InWidth
    <2> HIDE DEF n
    <2> QED
        BY <1>0, <2>1, <2>2
<1>5. byteNumber' = 0 /\ sentBytes' = 0 /\ 0 - 0 = 0
    BY <1>0, <1>1, <1>2 DEF Opened
<1> HIDE DEF n
<1>6. CASE n # 0
    <2>1. pc' = "extra" /\ len' = n /\ caller' = "run"
        BY <1>4, <1>6 DEF RunContinue, CallSend
    <2>2. WordInv'
        BY <1>3, <2>1 DEF WordInv
    <2>3. Request(len)' /\ Ahead' = 0 /\ 0 \in 0 .. SIZE - 1
        BY <1>0, <1>3, <1>4, <1>5, <2>1, SizeAssumption DEF Request, Ahead
    <2>4. Called'
        BY <2>3 DEF Called
    <2> QED
        BY <2>1, <2>2, <2>4 DEF ByteInv, Sending
<1>7. CASE n = 0
    <2>1. pc' = "run"
        BY <1>4, <1>7 DEF RunContinue
    <2>2. WordInv'
        BY <1>0, <1>2, <2>1, WordsNext DEF MeterInv
    <2>3. ByteInv'
        BY <1>4, <1>5, <1>7, <2>1, BytesBegin DEF Sending
    <2> QED
        BY <2>2, <2>3
<1> QED
    BY <1>6, <1>7

\* The steps that leave test, transfer and words to themselves.
LEMMA SideStep ==
    ASSUME MeterInv, Measure, UNCHANGED <<info, handler>>,
           inFlight' <= inFlight \/ pc \notin {"extra", "full"}
    PROVE  WordInv' /\ ByteInv'
<1>1. sentBytes' = sentBytes /\ (refused' <=> refused)
    BY NotMeasured DEF info, test, counts
<1>2. WordInv'
    BY <1>1, WordsStill DEF MeterInv
<1>3. ByteInv'
    BY <1>1, BytesKept DEF info, test, counts, handler, call
<1> QED
    BY <1>2, <1>3

\* The environment.
LEMMA EnvironmentStep == MeterInv /\ Environment /\ Measure => WordInv' /\ ByteInv'
<1> SUFFICES ASSUME MeterInv, Environment, Measure PROVE WordInv' /\ ByteInv'
    OBVIOUS
<1>1. inFlight \in Nat
    BY TxAssumption DEF MeterInv, IInv, TypeOK, SoftDeviceOK
<1>2. UNCHANGED <<info, handler>> /\ inFlight' <= inFlight
    BY <1>1 DEF Environment, PeerConnects, LinkLost, RadioSends, PeerWritesRxCccd,
       PeerWritesUpCccd, air
<1> QED
    BY <1>2, SideStep

\* Events, writes and texts.
LEMMA EventStep ==
    ASSUME SingleRequests, MeterInv, Measure, Inputs \/ Dispatch
    PROVE  WordInv' /\ ByteInv'
<1>1. ASSUME NEW n \in UpLengths, DispatchDummyData(n) PROVE WordInv' /\ ByteInv'
    <2>1. /\ pc = "idle" /\ pc' = "idle" /\ UNCHANGED <<cmd, words, running, timerName, remaining, total>>
          /\ (running /\ timerName = "tsu") \/ UNCHANGED byteNumber
        BY <1>1 DEF DispatchDummyData, Idle, test, handler
    <2>2. sentBytes' = sentBytes /\ (refused' <=> refused)
        BY <2>1, NotMeasured
    <2>3. WordInv'
        BY <2>1, WordsKept DEF MeterInv
    <2>4. ByteInv'
        <3>1. CASE timerName = "tsu"
            BY <2>1, <3>1 DEF ByteInv
        <3>2. CASE UNCHANGED byteNumber
            BY <2>1, <2>2, <3>2, BytesKept DEF Sending
        <3> QED
            BY <2>1, <3>1, <3>2
    <2> QED
        BY <2>3, <2>4
<1>2. ASSUME NEW c \in Commands, DispatchCommand(c) PROVE WordInv' /\ ByteInv'
    <2>1. pc = "idle" /\ pc' \in {"idle", "run"} /\ UNCHANGED info
        BY <1>2 DEF DispatchCommand, Run, Idle
    <2>2. sentBytes' = sentBytes /\ (refused' <=> refused)
        BY <2>1, NotMeasured DEF info, test
    <2>3. ByteInv'
        BY <2>1, <2>2, BytesKept DEF info, test, counts, Sending
    <2>4. WordInv'
        <3>1. CASE pc' = "run"
            BY <1>2, <3>1, WordsBegin DEF DispatchCommand, Run
        <3>2. CASE pc' = "idle"
            BY <1>2, <3>2, WordsKept DEF DispatchCommand, Run, MeterInv
        <3> QED
            BY <2>1, <3>1, <3>2
    <2> QED
        BY <2>3, <2>4
<1>3. CASE NotifyUpdate \/ DispatchLink \/ DispatchCccd
    BY <1>3, SideStep DEF NotifyUpdate, DispatchLink, DispatchCccd, Idle
<1>4. CASE DispatchTxComplete
    <2>1. /\ pc = "idle" /\ UNCHANGED <<info, cmd, words>>
          /\ \/ pc' = "extra" /\ len' = remaining /\ caller' = "tx_complete" /\ remaining # 0
             \/ pc' \in {"idle", "tx_complete"}
        BY <1>4 DEF DispatchTxComplete, CallSend, Idle
    <2>2. sentBytes' = sentBytes /\ (refused' <=> refused)
        BY <2>1, NotMeasured DEF info, test
    <2>3. WordInv'
        BY <2>1, WordsKept DEF MeterInv, Sending
    <2>4. ByteInv'
        <3>1. CASE pc' = "extra" /\ len' = remaining /\ remaining # 0
            BY <2>1, <2>2, <3>1, BytesCalled DEF info, test, counts, Sending
        <3>2. CASE pc' \in {"idle", "tx_complete"}
            BY <2>1, <2>2, <3>2, BytesKept DEF info, test, counts, Sending
        <3> QED
            BY <2>1, <3>1, <3>2
    <2> QED
        BY <2>3, <2>4
<1> QED
    BY <1>1, <1>2, <1>3, <1>4 DEF Inputs, Dispatch

\* The words of communication_run but CONTINUE, and the stop that is sent again.
LEMMA RunStep ==
    ASSUME SingleRequests, MeterInv, Measure,
           \/ RetryStop \/ RunEnd \/ RunWrongTimer \/ RunStart \/ RunStartAgain
           \/ RunStopNotRunning \/ RunStopLater \/ RunStopDelay \/ RunStopNotify
           \/ RunContinueIgnored \/ RunReport \/ ReportLine
    PROVE  WordInv' /\ ByteInv'
<1> USE DEF Return, Abandon, NextWord, AtWord, AtTestWord
<1>0. words \in Seq(Words) /\ (pc \in {"delay", "report"} => words # <<>>)
    BY DEF MeterInv, IInv, TypeOK, HandlerOK, Words
<1>1. CASE RunStart
    <2>1. pc' = "run" /\ cmd' = cmd /\ words # <<>> /\ words' = Tail(words) /\ timerName' = cmd
        BY <1>1 DEF RunStart
    <2>2. remaining' = 0 /\ byteNumber' = 0
        BY <1>1 DEF RunStart, MeterInv, IInv, OwedOnlyInDownTest
    <2>3. sentBytes' = 0
        BY <1>1 DEF RunStart, Measure, Opens
    <2>4. WordInv'
        BY <1>0, <2>1, <2>2, <2>3, WordsNext DEF Opened, MeterInv
    <2>5. ByteInv'
        BY <2>1, <2>2, <2>3, BytesBegin DEF Sending
    <2> QED
        BY <2>4, <2>5
<1>2. CASE ~RunStart
    <2>1. /\ pc \in {"run", "delay", "report", "tx_complete"}
          /\ pc' \in {"run", "delay", "report", "idle"}
          /\ UNCHANGED <<timerName, byteNumber, remaining, total>> /\ (running' => running)
        <3>1. CASE RetryStop
            BY <3>1 DEF RetryStop, Run, info, test, counts
        <3>2. CASE RunEnd \/ RunWrongTimer \/ RunStartAgain \/ RunStopNotRunning \/ RunContinueIgnored
            BY <3>2 DEF RunEnd, RunWrongTimer, RunStartAgain, RunStopNotRunning,
               RunContinueIgnored, info, test, counts
        <3>3. CASE RunStopLater \/ RunStopDelay \/ RunStopNotify
            BY <3>3 DEF RunStopLater, RunStopDelay, RunStopNotify, info, test, counts
        <3>4. CASE RunReport
            BY <3>4 DEF RunReport, info, test, counts
        <3>5. CASE ReportLine
            <4>1. pc = "report" /\ UNCHANGED info /\ pc' \in {"run", "report"}
                BY <3>5 DEF ReportLine
            <4> QED
                BY <4>1 DEF info, test, counts
        <3> QED
            BY <1>2, <3>1, <3>2, <3>3, <3>4, <3>5
    <2>2. sentBytes' = sentBytes /\ (refused' <=> refused)
        BY <2>1, NotMeasured
    <2>3. ByteInv'
        BY <2>1, <2>2, BytesKept DEF Sending
    <2>4. WordInv'
        <3>1. CASE RetryStop
            <4>1. CASE pc' = "run"
                BY <3>1, <4>1, WordsBegin DEF RetryStop, Run
            <4>2. CASE pc' = "idle"
                BY <3>1, <4>2, WordsKept DEF RetryStop, Run, MeterInv
            <4> QED
                BY <3>1, <4>1, <4>2 DEF RetryStop, Run
        <3>2. CASE RunEnd \/ RunWrongTimer \/ RunStartAgain \/ RunStopNotRunning \/ RunStopLater
            BY <3>2, WordsKept DEF RunEnd, RunWrongTimer, RunStartAgain, RunStopNotRunning,
               RunStopLater, MeterInv
        <3>3. CASE RunStopDelay
            BY <3>3 DEF RunStopDelay, WordInv, MeterInv, Sending
        <3>4. CASE RunStopNotify
            <4>1. CASE pc' = "idle" /\ UNCHANGED words
                BY <3>4, <4>1, WordsKept DEF RunStopNotify, MeterInv
            <4>2. CASE pc' = "run" /\ words' = Tail(words)
                <5>1. cmd = "tsd" => Head(words).name = "stop"
                    BY <3>4 DEF RunStopNotify, MeterInv, WordInv
                <5>2. words # <<>> /\ cmd' = cmd
                    BY <1>0, <3>4 DEF RunStopNotify
                <5> QED
                    BY <1>0, <4>2, <5>1, <5>2, WordsNext DEF MeterInv
            <4> QED
                BY <3>4, <4>1, <4>2 DEF RunStopNotify
        <3>5. CASE RunContinueIgnored
            BY <1>0, <3>5, WordsNext DEF RunContinueIgnored, MeterInv
        <3>6. CASE RunReport
            BY <3>6 DEF RunReport, WordInv
        <3>7. CASE ReportLine
            BY <3>7 DEF ReportLine, WordInv, MeterInv
        <3> QED
            BY <1>2, <3>1, <3>2, <3>3, <3>4, <3>5, <3>6, <3>7
    <2> QED
        BY <2>3, <2>4
<1> QED
    BY <1>1, <1>2

\* send_dummy_data.
LEMMA SendStep ==
    ASSUME MeterInv, Measure, SendExtra \/ SendFull \/ SendSuspend \/ SendDone
    PROVE  WordInv' /\ ByteInv'
<1>1. ByteInv'
    BY BytesExtra, BytesFull, BytesSuspend, BytesDone
<1>2. CASE SendExtra \/ SendFull
    BY <1>1, <1>2, WordsKept DEF SendExtra, SendFull, Sending, MeterInv
<1>3. CASE SendSuspend \/ SendDone
    <2>1. /\ UNCHANGED <<cmd, words>> /\ pc' = caller /\ pc \in Sending
          /\ caller \in {"run", "tx_complete"}
        BY <1>3 DEF SendSuspend, SendDone, Sending, call, MeterInv, IInv, TypeOK, HandlerOK
    <2>2. CASE caller = "tx_complete"
        BY <1>1, <2>1, <2>2, WordsKept DEF MeterInv
    <2>3. CASE caller = "run"
        BY <1>1, <2>1, <2>3 DEF MeterInv, WordInv, Sending
    <2> QED
        BY <2>1, <2>2, <2>3
<1> QED
    BY <1>2, <1>3

\* The invariant is one.
LEMMA MeterStep ==
    ASSUME SingleRequests
    PROVE  MeterInv /\ [MeterNext]_meterVars => MeterInv'
<1> SUFFICES ASSUME MeterInv, [MeterNext]_meterVars PROVE MeterInv'
    OBVIOUS
<1>1. CASE MeterNext
    <2>1. IInv' /\ sentBytes' \in Uint16 /\ refused' \in BOOLEAN
        BY <1>1, InvariantStep, MeasureTyped DEF MeterNext, MeterInv
    <2>2. WordInv' /\ ByteInv'
        BY <1>1, EnvironmentStep, EventStep, RunStep, RequestStep, SendStep
        DEF MeterNext, Next, HandlerStep
    <2> QED
        BY <2>1, <2>2 DEF MeterInv
<1>2. CASE UNCHANGED meterVars
    <2>1. IInv'
        BY <1>2, InvariantStep DEF meterVars, MeterInv
    <2>2. UNCHANGED <<info, handler, sentBytes, refused>>
        BY <1>2 DEF meterVars, vars
    <2>3. WordInv'
        BY <2>2, WordsStill DEF MeterInv
    <2>4. ByteInv'
        BY <2>2, BytesKept DEF info, test, counts, handler, call
    <2> QED
        BY <2>1, <2>2, <2>3, <2>4 DEF MeterInv
<1> QED
    BY <1>1, <1>2

\* Nothing is counted and nothing sent.
LEMMA MeterBegins == MeterInit => MeterInv
<1> SUFFICES ASSUME MeterInit PROVE MeterInv
    OBVIOUS
<1>1. IInv /\ sentBytes \in Uint16 /\ refused \in BOOLEAN
    BY InitInv, ZeroTyped DEF MeterInit
<1>2. WordInv
    BY DEF MeterInit, Init, WordInv, AfterStart, Sending
<1>3. ByteInv
    <2>1. byteNumber - sentBytes \in -SIZE .. 2 * SIZE - 1
        BY SizeAssumption DEF MeterInit, Init
    <2> QED
        BY <2>1 DEF MeterInit, Init, ByteInv, Ahead, Sending
<1> QED
    BY <1>1, <1>2, <1>3 DEF MeterInv

\* However often the transfer of a test with one request was suspended and taken
\* up again, the bytes communication.h:107 calls exchanged are less than two
\* packets more, and at most one packet less, than what the SoftDevice accepted.
THEOREM CountCorrect == ASSUME SingleRequests PROVE MeterSpec => []CountWithinTwoPackets
<1>1. MeterInv => CountWithinTwoPackets
    <2> SUFFICES ASSUME MeterInv, DownResult PROVE byteNumber - sentBytes \in -SIZE .. 2 * SIZE - 1
        BY DEF CountWithinTwoPackets
    <2>1. remaining = 0 /\ pc \notin Sending
        BY DEF DownResult, MeterInv, IInv, OwedOnlyInDownTest, HandlerInv
    <2> QED
        BY <2>1 DEF DownResult, MeterInv, ByteInv, Ahead
<1> QED
    BY <1>1, MeterBegins, MeterStep, PTL DEF MeterSpec
=============================================================================
