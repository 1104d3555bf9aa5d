-------------------------- MODULE SpeedTest_proofs --------------------------
(***************************************************************************)
(* Proofs about SpeedTest, for every packet size, counter width, number of *)
(* transmit packets, set of commands and bound.                            *)
(***************************************************************************)
EXTENDS SpeedTest, SequenceTheorems, TLAPS

-----------------------------------------------------------------------------
(* Division: the index of send_dummy_data advances by multiples of SIZE.   *)

\* A number is its quotient times the divisor, and a remainder.
LEMMA Division ==
    ASSUME NEW a \in Int, NEW s \in Nat \ {0}
    PROVE  a % s = a - s * (a \div s) /\ a \div s \in Int /\ a % s \in 0 .. s-1
<1>1. a % s = a - s * (a \div s)
    OBVIOUS
<1>2. a \div s \in Int /\ a % s \in 0 .. s-1
    OBVIOUS
<1> QED
    BY <1>1, <1>2

\* A product leaves no remainder.
LEMMA ProductMod ==
    ASSUME NEW s \in Nat \ {0}, NEW q \in Int
    PROVE  (q * s) % s = 0
OBVIOUS

\* Two different multiples of s are at least s apart.
LEMMA Ordered ==
    ASSUME NEW s \in Nat \ {0}, NEW p \in Int, NEW q \in Int, s * p < s * q
    PROVE  s * p + s <= s * q
<1>1. p + 1 <= q
    OBVIOUS
<1>2. s * (p + 1) <= s * q
    BY <1>1
<1> QED
    BY <1>2

\* The multiple of s after a.
LEMMA MultipleNext ==
    ASSUME NEW s \in Nat \ {0}, NEW a \in Int, a % s = 0
    PROVE  (a + s) % s = 0
<1>1. a = s * (a \div s) /\ a \div s \in Int
    BY Division
<1>2. a + s = ((a \div s) + 1) * s
    BY <1>1
<1>3. (((a \div s) + 1) * s) % s = 0
    BY <1>1, ProductMod
<1> QED
    BY <1>2, <1>3

\* A multiple of s below b leaves room for another one up to b's rounding up.
LEMMA MultipleBelow ==
    ASSUME NEW s \in Nat \ {0}, NEW a \in Int, NEW b \in Int, a % s = 0, a < b
    PROVE  a <= b - (b % s) /\ (b % s = 0 => a + s <= b)
<1>1. a = s * (a \div s) /\ a \div s \in Int
    BY Division
<1>2. b - (b % s) = s * (b \div s) /\ b \div s \in Int /\ b % s \in 0 .. s-1
    BY Division
<1>3. s * (a \div s) < s * ((b \div s) + 1)
    BY <1>1, <1>2
<1>4. s * (a \div s) + s <= s * ((b \div s) + 1)
    BY <1>1, <1>2, <1>3, Ordered
<1>5. a <= b - (b % s)
    BY <1>1, <1>2, <1>4
<1>6. ASSUME b % s = 0 PROVE a + s <= b
    <2>1. b = s * (b \div s)
        BY <1>2, <1>6
    <2>2. s * (a \div s) < s * (b \div s)
        BY <1>1, <2>1
    <2>3. s * (a \div s) + s <= s * (b \div s)
        BY <1>1, <1>2, <2>2, Ordered
    <2> QED
        BY <1>1, <2>1, <2>3
<1> QED
    BY <1>5, <1>6

Words == TestWord \cup ReportWord

\* The words of a command, and what is left of them, are words.
LEMMA WordsOfCommand ==
    ASSUME NEW c \in Commands
    PROVE  c.cmd \in TestNames \cup {"gt", "gp"} /\ c.words \in Seq(Words)
<1>1. c \in Command
    BY CommandAssumption
<1>2. CASE c \in [cmd : TestNames, words : Seq(TestWord)]
    <2>1. c.words \in Seq(TestWord)
        BY <1>2
    <2>2. c.words \in Seq(Words)
        BY <2>1, SeqDef DEF Words
    <2> QED
        BY <1>2, <2>2
<1>3. CASE c \in [cmd : {"gt", "gp"}, words : Seq(ReportWord)]
    <2>1. c.words \in Seq(ReportWord)
        BY <1>3
    <2>2. c.words \in Seq(Words)
        BY <2>1, SeqDef DEF Words
    <2> QED
        BY <1>3, <2>2
<1> QED
    BY <1>1, <1>2, <1>3 DEF Command

\* What is brought back modulo W fits in 16 bits.
LEMMA ModIsUint16 ==
    \A x \in Int : x % W \in Uint16
BY SizeAssumption DEF Uint16

\* 16-bit sums and differences of 16-bit values.
LEMMA Arith16 ==
    ASSUME NEW a \in Uint16, NEW b \in Uint16
    PROVE  (a + b) % W \in Uint16 /\ (a - b) % W \in Uint16 /\ (a + 1) % W \in Uint16
<1>1. a + b \in Int /\ a - b \in Int /\ a + 1 \in Int
    BY SizeAssumption DEF Uint16
<1> QED
    BY <1>1, ModIsUint16

\* The first word of a command, and the words left after it, are well typed.
LEMMA WordsLeft ==
    ASSUME words \in Seq(Words), words # <<>>
    PROVE  Tail(words) \in Seq(Words) /\ Head(words) \in Words /\ Head(words).n \in Uint16
<1>1. Tail(words) \in Seq(Words) /\ Head(words) \in Words
    OBVIOUS
<1>2. Head(words).n \in Uint16
    BY <1>1, SizeAssumption DEF Words, TestWord, ReportWord, Uint16
<1> QED
    BY <1>1, <1>2

\* Taking the head of the event queue leaves a queue of events.
LEMMA EventsLeft ==
    ASSUME evq \in Seq(Events), evq # <<>>
    PROVE  Tail(evq) \in Seq(Events) /\ Head(evq) \in Events
OBVIOUS

\* A send takes a packet only while one is left.
LEMMA TakeTyped ==
    ASSUME SoftDeviceOK, NEW up \in BOOLEAN, Take(StringSend(up))
    PROVE  inFlight' \in 0 .. TxPackets
BY TxAssumption DEF SoftDeviceOK, Take, StringSend, Hvx

\* The values variables are reset to.
LEMMA ZeroTyped == 0 \in Uint16 /\ 0 \in 0 .. TxPackets /\ 0 \in 0 .. MaxWrites
BY SizeAssumption, TxAssumption, BoundAssumption DEF Uint16

USE DEF Words, Sending

\* The program starts with every variable of its type.
LEMMA InitTyped == Init => TypeOK
<1> SUFFICES ASSUME Init PROVE TypeOK
    OBVIOUS
<1>1. <<>> \in Seq(Events) /\ <<>> \in Seq(TestWord \cup ReportWord)
    OBVIOUS
<1>2. InfoOK
    BY ZeroTyped DEF Init, InfoOK, TestNames, Stamps
<1>3. NusOK
    BY DEF Init, NusOK
<1>4. SoftDeviceOK
    BY <1>1, ZeroTyped DEF Init, SoftDeviceOK
<1>5. HandlerOK
    BY <1>1, ZeroTyped DEF Init, HandlerOK, TestNames
<1> QED
    BY <1>2, <1>3, <1>4, <1>5 DEF TypeOK

\* Posting an event leaves a queue of events.
LEMMA PostTyped ==
    ASSUME SoftDeviceOK, NEW e \in Events, Post(e)
    PROVE  evq' \in Seq(Events)
BY DEF SoftDeviceOK, Post

\* What a step leaves alone stays typed.
LEMMA InfoUnchanged == InfoOK /\ UNCHANGED info => InfoOK'
BY DEF InfoOK, info, test, counts, times
\* ... of the Nordic UART service,
LEMMA NusUnchanged == NusOK /\ UNCHANGED nus => NusOK'
BY DEF NusOK, nus
\* ... of the SoftDevice,
LEMMA SoftDeviceUnchanged == SoftDeviceOK /\ UNCHANGED sd => SoftDeviceOK'
BY DEF SoftDeviceOK, sd, air
\* ... and of the handler.
LEMMA HandlerUnchanged == HandlerOK /\ UNCHANGED <<handler, writes>> => HandlerOK'
BY DEF HandlerOK, handler, call

\* Radio, link and CCCD actions keep the types.
LEMMA EnvironmentTyped == TypeOK /\ Environment => TypeOK'
<1> SUFFICES ASSUME TypeOK, Environment PROVE TypeOK'
    OBVIOUS
<1>1. UNCHANGED info /\ UNCHANGED nus /\ UNCHANGED <<handler, writes>>
    BY DEF Environment, PeerConnects, LinkLost, RadioSends, PeerWritesRxCccd,
           PeerWritesUpCccd
<1>2. SoftDeviceOK'
    <2> USE PostTyped DEF TypeOK, SoftDeviceOK, air
    <2>1. CASE PeerConnects
        BY <2>1, ZeroTyped DEF PeerConnects, Events
    <2>2. CASE LinkLost
        BY <2>2, ZeroTyped DEF LinkLost, Events
    <2>3. CASE RadioSends
        BY <2>3, TxAssumption DEF RadioSends, Events
    <2>4. ASSUME NEW b \in BOOLEAN, PeerWritesRxCccd(b) PROVE SoftDeviceOK'
        BY <2>4 DEF PeerWritesRxCccd, Events
    <2>5. ASSUME NEW b \in BOOLEAN, PeerWritesUpCccd(b) PROVE SoftDeviceOK'
        BY <2>5 DEF PeerWritesUpCccd
    <2> QED
        BY <2>1, <2>2, <2>3, <2>4, <2>5 DEF Environment
<1> QED
    BY <1>1, <1>2, InfoUnchanged, NusUnchanged, HandlerUnchanged DEF TypeOK

\* Dispatching a write of the peer, or a module's message, keeps the types.
LEMMA InputsTyped == TypeOK /\ Inputs => TypeOK'
<1> SUFFICES ASSUME TypeOK, Inputs PROVE TypeOK'
    OBVIOUS
<1> USE DEF TypeOK, Idle
<1>1. ASSUME NEW n \in UpLengths, DispatchDummyData(n) PROVE TypeOK'
    <2>1. InfoOK'
        <3>1. n \in Nat
            BY UpLengthAssumption, SizeAssumption DEF Uint16
        <3>2. (byteNumber + n) % W \in Uint16 /\ (nPacket + 1) % W \in Uint16
            BY <3>1, ModIsUint16, SizeAssumption DEF InfoOK, Uint16
        <3> QED
            BY <1>1, <3>2 DEF DispatchDummyData, InfoOK, test, Stamps
    <2>2. NusOK'
        BY <1>1, NusUnchanged DEF DispatchDummyData
    <2>3. SoftDeviceOK'
        BY <1>1, SoftDeviceUnchanged DEF DispatchDummyData
    <2>4. HandlerOK'
        BY <1>1, BoundAssumption DEF DispatchDummyData, HandlerOK, handler, call
    <2> QED
        BY <2>1, <2>2, <2>3, <2>4
<1>2. ASSUME NEW c \in Commands, DispatchCommand(c) PROVE TypeOK'
    <2>1. HandlerOK'
        BY <1>2, WordsOfCommand, BoundAssumption
           DEF DispatchCommand, Run, HandlerOK, call
    <2> QED
        BY <1>2, <2>1, InfoUnchanged, NusUnchanged, SoftDeviceUnchanged
           DEF DispatchCommand
<1>3. CASE NotifyUpdate
    <2>1. SoftDeviceOK'
        BY <1>3, TakeTyped DEF NotifyUpdate, SoftDeviceOK, air
    <2>2. HandlerOK'
        BY <1>3, BoundAssumption DEF NotifyUpdate, HandlerOK, handler, call
    <2> QED
        BY <1>3, <2>1, <2>2, InfoUnchanged, NusUnchanged DEF NotifyUpdate
<1> QED
    BY <1>1, <1>2, <1>3 DEF Inputs

\* Dispatching an event of the queue keeps the types.
LEMMA DispatchTyped == TypeOK /\ Dispatch => TypeOK'
<1> SUFFICES ASSUME TypeOK, Dispatch PROVE TypeOK'
    OBVIOUS
<1> USE DEF TypeOK
<1>1. UNCHANGED info
    BY DEF Dispatch, DispatchLink, DispatchCccd, DispatchTxComplete
<1>2. NusOK'
    BY DEF Dispatch, DispatchLink, DispatchCccd, DispatchTxComplete, NusOK, nus
<1>3. SoftDeviceOK'
    BY EventsLeft DEF Dispatch, DispatchLink, DispatchCccd, DispatchTxComplete,
       SoftDeviceOK, air
<1>4. HandlerOK'
    <2>1. CASE DispatchLink
        BY <2>1, HandlerUnchanged DEF DispatchLink
    <2>2. CASE DispatchCccd
        BY <2>2, HandlerUnchanged DEF DispatchCccd
    <2>3. CASE DispatchTxComplete
        BY <2>3 DEF DispatchTxComplete, CallSend, HandlerOK, InfoOK
    <2> QED
        BY <2>1, <2>2, <2>3 DEF Dispatch
<1> QED
    BY <1>1, <1>2, <1>3, <1>4, InfoUnchanged

\* The steps of a handler that leave the SoftDevice and m_info_t alone, or
\* send a line at most.
LEMMA RunTyped ==
    ASSUME TypeOK,
           \/ RetryStop \/ RunEnd \/ RunWrongTimer \/ RunStartAgain
           \/ RunStopNotRunning \/ RunStopDelay \/ RunContinueIgnored
           \/ RunReport
    PROVE  TypeOK'
<1> USE DEF TypeOK
<1>1. UNCHANGED info /\ UNCHANGED nus /\ UNCHANGED sd
    BY DEF RetryStop, RunEnd, RunWrongTimer, RunStartAgain, RunStopNotRunning,
           RunStopDelay, RunContinueIgnored, RunReport
<1>2. HandlerOK'
    <2> USE DEF HandlerOK, call, Return, Abandon, NextWord, AtWord, AtTestWord
    <2>1. CASE RetryStop
        <3>1. StopDownCommand.cmd \in TestNames
              /\ StopDownCommand.words \in Seq(TestWord \cup ReportWord)
            BY ZeroTyped DEF StopDownCommand, StopWord, TestNames, TestWord
        <3>2. /\ UNCHANGED <<len, i, caller, writes>>
              /\ \/ pc' = "run" /\ cmd' = StopDownCommand.cmd
                    /\ words' = StopDownCommand.words
                 \/ pc' = "idle" /\ UNCHANGED <<cmd, words>>
            BY <2>1 DEF RetryStop, Run
        <3> QED
            BY <3>1, <3>2
    <2>2. CASE RunEnd \/ RunWrongTimer \/ RunStartAgain \/ RunStopNotRunning \/ RunStopDelay
        BY <2>2 DEF RunEnd, RunWrongTimer, RunStartAgain, RunStopNotRunning, RunStopDelay
    <2>3. CASE RunContinueIgnored \/ RunReport
        <3>1. Tail(words) \in Seq(TestWord \cup ReportWord)
            BY <2>3, WordsLeft DEF RunContinueIgnored, RunReport
        <3>2. CASE RunContinueIgnored
            BY <3>1, <3>2 DEF RunContinueIgnored
        <3>3. CASE RunReport
            BY <3>1, <3>3 DEF RunReport
        <3> QED
            BY <2>3, <3>2, <3>3
    <2> QED
        BY <2>1, <2>2, <2>3
<1> QED
    BY <1>1, <1>2, InfoUnchanged, NusUnchanged, SoftDeviceUnchanged


\* The steps that change m_info_t.
LEMMA StartTyped == TypeOK /\ RunStart => TypeOK'
<1> SUFFICES ASSUME TypeOK, RunStart PROVE TypeOK'
    OBVIOUS
<1> USE DEF TypeOK, RunStart, AtTestWord, AtWord, NextWord
<1>1. InfoOK'
    BY ZeroTyped DEF InfoOK
<1>2. SoftDeviceOK'
    BY TakeTyped DEF SoftDeviceOK, air
<1>3. HandlerOK'
    BY WordsLeft DEF HandlerOK, call
<1> QED
    BY <1>1, <1>2, <1>3, NusUnchanged

\* STOP, put off or served, keeps the types.
LEMMA StopTyped == TypeOK /\ (RunStopLater \/ RunStopNotify) => TypeOK'
<1> SUFFICES ASSUME TypeOK, RunStopLater \/ RunStopNotify PROVE TypeOK'
    OBVIOUS
<1> USE DEF TypeOK, RunStopLater, RunStopNotify, AtTestWord, AtWord, NextWord,
            Abandon, Return
<1>1. InfoOK'
    BY DEF InfoOK, counts, times, Stamps
<1>2. SoftDeviceOK'
    <2>1. CASE RunStopLater
        BY <2>1, SoftDeviceUnchanged
    <2>2. CASE RunStopNotify
        BY <2>2, TakeTyped DEF SoftDeviceOK, air
    <2> QED
        BY <2>1, <2>2
<1>3. HandlerOK'
    <2>1. CASE RunStopLater
        BY <2>1 DEF HandlerOK, call
    <2>2. CASE RunStopNotify
        BY <2>2, WordsLeft DEF HandlerOK, call
    <2> QED
        BY <2>1, <2>2
<1> QED
    BY <1>1, <1>2, <1>3, NusUnchanged

\* CONTINUE keeps the types: its sums and differences stay 16-bit.
LEMMA ContinueTyped == TypeOK /\ RunContinue => TypeOK'
<1> SUFFICES ASSUME TypeOK, RunContinue PROVE TypeOK'
    OBVIOUS
<1> USE DEF TypeOK, RunContinue, AtTestWord, AtWord, CallSend
<1>1. Tail(words) \in Seq(TestWord \cup ReportWord) /\ Head(words).n \in Uint16
    BY WordsLeft DEF HandlerOK
<1>2. total' \in Uint16
    BY <1>1, Arith16 DEF InfoOK
<1>3. remaining' \in Uint16
    BY <1>2, Arith16 DEF InfoOK
<1>4. InfoOK'
    BY <1>2, <1>3 DEF InfoOK, test
<1>5. HandlerOK'
    BY <1>1, <1>3 DEF HandlerOK
<1> QED
    BY <1>4, <1>5, NusUnchanged, SoftDeviceUnchanged

\* A line of GET_TIME or GET_PARAMS keeps the types.
LEMMA ReportTyped == TypeOK /\ ReportLine => TypeOK'
<1> SUFFICES ASSUME TypeOK, ReportLine PROVE TypeOK'
    OBVIOUS
<1> USE DEF TypeOK, ReportLine, NextWord
<1>1. SoftDeviceOK'
    BY TakeTyped DEF SoftDeviceOK, air
<1>2. HandlerOK'
    BY WordsLeft DEF HandlerOK
<1> QED
    BY <1>1, <1>2, InfoUnchanged, NusUnchanged

\* The steps of send_dummy_data keep the types.
LEMMA SendTyped ==
    ASSUME TypeOK, SendExtra \/ SendFull \/ SendSuspend \/ SendDone
    PROVE  TypeOK'
<1> USE DEF TypeOK
<1>1. len \in Nat /\ i \in Nat /\ Extra \in Nat
    BY SizeAssumption DEF HandlerOK, Uint16, Extra
<1>2. (nPacket + 1) % W \in Uint16 /\ (byteNumber + len) % W \in Uint16
    BY Arith16 DEF InfoOK, HandlerOK
<1>3. (len - Extra - i) % W \in Uint16
    BY <1>1, ModIsUint16
<1>4. (i + SIZE) % W \in Uint16
    BY <1>1, ModIsUint16, SizeAssumption
<1>5. (i + SIZE) % W \in Nat
    BY <1>4, SizeAssumption DEF Uint16
<1>6. CASE SendExtra
    BY <1>6, <1>2, TakeTyped, NusUnchanged
       DEF SendExtra, InfoOK, SoftDeviceOK, HandlerOK, test, times, air
<1>7. CASE SendFull
    BY <1>7, <1>2, <1>5, TakeTyped, NusUnchanged
       DEF SendFull, InfoOK, SoftDeviceOK, HandlerOK, test, times, air
<1>8. CASE SendSuspend
    <2>1. remaining' \in Uint16
        BY <1>8, <1>3 DEF SendSuspend
    <2>2. byteNumber' \in Uint16
        BY <1>8, <2>1, Arith16 DEF SendSuspend, InfoOK
    <2>3. InfoOK'
        BY <1>8, <2>1, <2>2 DEF SendSuspend, InfoOK, test, times
    <2>4. HandlerOK'
        BY <1>8 DEF SendSuspend, HandlerOK, call
    <2> QED
        BY <1>8, <2>3, <2>4, NusUnchanged, SoftDeviceUnchanged DEF SendSuspend
<1>9. CASE SendDone
    BY <1>9, <1>2, ZeroTyped, NusUnchanged, SoftDeviceUnchanged
       DEF SendDone, InfoOK, HandlerOK, test, times, call
<1> QED
    BY <1>6, <1>7, <1>8, <1>9

-----------------------------------------------------------------------------
(* The inductive invariant: the debt belongs to the open DOWN test, what a *)
(* transfer has counted is its request less the debt, and a handler between*)
(* two of its steps still holds what it read before (nothing else runs).   *)

\* A debt, except one that CONTINUE has just made, and the bytes counted make up
\* total_byte.  That is the last request made while nothing was owed and what
\* was added to it since, not all the test asked for.
BytesAccounted ==
    remaining # 0 /\ ~(pc \in Sending /\ caller = "run") =>
        byteNumber = (total - remaining) % W

IInv == TypeOK /\ HandlerInv /\ OwedOnlyInDownTest /\ BytesAccounted

\* The invariant holds at reset: m_info_t is zero and no handler runs.
LEMMA InitInv == Init => IInv
BY InitTyped DEF Init, IInv, HandlerInv, OwedOnlyInDownTest, BytesAccounted

\* Every step of the program keeps the types.
LEMMA TypeStep == TypeOK /\ [Next]_vars => TypeOK'
<1> SUFFICES ASSUME TypeOK, [Next]_vars PROVE TypeOK'
    OBVIOUS
<1>1. CASE Environment
    BY <1>1, EnvironmentTyped
<1>2. CASE Inputs
    BY <1>2, InputsTyped
<1>3. CASE Dispatch
    BY <1>3, DispatchTyped
<1>4. CASE HandlerStep
    BY <1>4, RunTyped, StartTyped, StopTyped, ContinueTyped, ReportTyped,
       SendTyped DEF HandlerStep
<1>5. CASE UNCHANGED vars
    BY <1>5, InfoUnchanged, NusUnchanged, SoftDeviceUnchanged, HandlerUnchanged
       DEF vars, TypeOK
<1> QED
    BY <1>1, <1>2, <1>3, <1>4, <1>5 DEF Next

\* Every variable keeps its type, whatever the sizes, counters and commands.
THEOREM TypeCorrect == Spec => []TypeOK
BY InitTyped, TypeStep, PTL DEF Spec

\* A step that leaves m_info_t alone and neither begins nor ends a send or
\* the delay of a stop keeps the invariant.
LEMMA InfoKept ==
    ASSUME IInv, UNCHANGED info,
           \/ UNCHANGED <<pc, cmd, len, caller>>
           \/ pc \notin Sending /\ pc' \notin Sending \cup {"delay"}
    PROVE  (HandlerInv /\ OwedOnlyInDownTest /\ BytesAccounted)'
BY DEF IInv, HandlerInv, OwedOnlyInDownTest, BytesAccounted, info, test, counts

\* Every step keeps the invariant: one step per kind of action, of which only the
\* words of communication_run and send_dummy_data disturb it.
LEMMA InvariantStep == IInv /\ [Next]_vars => IInv'
<1> USE DEF Return, Abandon, NextWord, AtWord, AtTestWord, RightTimer, Idle
<1> SUFFICES ASSUME IInv, [Next]_vars
             PROVE  (HandlerInv /\ OwedOnlyInDownTest /\ BytesAccounted)'
    BY TypeStep DEF IInv
<1>1. CASE Environment
    BY <1>1, InfoKept DEF Environment, PeerConnects, LinkLost, RadioSends,
       PeerWritesRxCccd, PeerWritesUpCccd, handler, call
<1>2. ASSUME NEW n \in UpLengths, DispatchDummyData(n)
      PROVE  (HandlerInv /\ OwedOnlyInDownTest /\ BytesAccounted)'
    BY <1>2 DEF DispatchDummyData, IInv, HandlerInv, OwedOnlyInDownTest,
       BytesAccounted, test, handler, call
<1>3. ASSUME NEW c \in Commands, DispatchCommand(c)
      PROVE  (HandlerInv /\ OwedOnlyInDownTest /\ BytesAccounted)'
    BY <1>3, InfoKept DEF DispatchCommand, Run
<1>4. CASE NotifyUpdate
    BY <1>4, InfoKept DEF NotifyUpdate, handler, call
<1>5. CASE DispatchLink \/ DispatchCccd
    BY <1>5, InfoKept DEF DispatchLink, DispatchCccd, handler, call
<1>6. CASE DispatchTxComplete
    BY <1>6 DEF DispatchTxComplete, CallSend, IInv, HandlerInv,
       OwedOnlyInDownTest, BytesAccounted, info, test, counts
<1>7. CASE \/ RetryStop \/ RunEnd \/ RunWrongTimer \/ RunStartAgain
           \/ RunStopNotRunning \/ RunContinueIgnored \/ RunReport \/ ReportLine
    BY <1>7, InfoKept DEF RetryStop, RunEnd, RunWrongTimer, RunStartAgain,
       RunStopNotRunning, RunContinueIgnored, RunReport, ReportLine, Run
<1>8. CASE RunStart
    BY <1>8 DEF RunStart, IInv, HandlerInv, OwedOnlyInDownTest, BytesAccounted
<1>9. CASE RunStopLater
    BY <1>9 DEF RunStopLater, IInv, TypeOK, InfoOK, HandlerOK, HandlerInv,
       OwedOnlyInDownTest, BytesAccounted, counts
<1>10. CASE RunStopDelay
    BY <1>10 DEF RunStopDelay, IInv, HandlerInv, OwedOnlyInDownTest,
       BytesAccounted, info, test, counts
<1>11. CASE RunStopNotify
    BY <1>11 DEF RunStopNotify, IInv, HandlerInv, OwedOnlyInDownTest,
       BytesAccounted, counts
<1>12. CASE RunContinue
    BY <1>12 DEF RunContinue, CallSend, IInv, HandlerInv, OwedOnlyInDownTest,
       BytesAccounted, test
<1>13. CASE SendExtra \/ SendFull
    BY <1>13 DEF SendExtra, SendFull, IInv, HandlerInv, OwedOnlyInDownTest,
       BytesAccounted, test
<1>14. CASE SendSuspend
    BY <1>14 DEF SendSuspend, IInv, TypeOK, HandlerOK, HandlerInv,
       OwedOnlyInDownTest, BytesAccounted, test
<1>15. CASE SendDone
    BY <1>15 DEF SendDone, IInv, TypeOK, HandlerOK, HandlerInv,
       OwedOnlyInDownTest, BytesAccounted, test
<1>16. CASE UNCHANGED vars
    BY <1>16, InfoKept DEF vars, handler, call
<1> QED
    BY <1>1, <1>2, <1>3, <1>4, <1>5, <1>6, <1>7, <1>8, <1>9, <1>10, <1>11,
       <1>12, <1>13, <1>14, <1>15, <1>16 DEF Next, Inputs, Dispatch, HandlerStep

\* The invariant holds in every behaviour.
THEOREM Invariance == Spec => []IInv
BY InitInv, InvariantStep, PTL DEF Spec

(* Corollaries: the safety invariants the runs check.                      *)

\* A handler that waits or sends still finds what it relied on: the debt is
\* the length it sends, and the test it is closing is the running one.
THEOREM HandlersRelyOn == Spec => []HandlerInv
<1>1. IInv => HandlerInv
    BY DEF IInv
<1> QED
    BY <1>1, Invariance, PTL

\* Bytes are owed and stops are put off only in an open DOWN test.
THEOREM DebtInDownTest == Spec => []OwedOnlyInDownTest
<1>1. IInv => OwedOnlyInDownTest
    BY DEF IInv
<1> QED
    BY <1>1, Invariance, PTL

-----------------------------------------------------------------------------
(* Action properties.                                                      *)

\* Only the end of the delay of a stop closes a test.
LEMMA ClosingStep ==
    ASSUME IInv, [Next]_vars, running, ~running'
    PROVE  RunStopNotify /\ StringSend(FALSE) = "success"
BY DEF Next, Environment, PeerConnects, LinkLost, RadioSends, PeerWritesRxCccd,
   PeerWritesUpCccd, Inputs, DispatchDummyData, DispatchCommand, NotifyUpdate,
   Dispatch, DispatchLink, DispatchCccd, DispatchTxComplete, HandlerStep, RetryStop,
   RunEnd, RunWrongTimer, RunStart, RunStartAgain, RunStopNotRunning, RunStopLater,
   RunStopDelay, RunStopNotify, RunContinue, RunContinueIgnored, RunReport,
   ReportLine, SendExtra, SendFull, SendSuspend, SendDone, info, test, vars

\* A test closes with nothing owed.
THEOREM NeverClosesInDebt == Spec => ClosesPaid
<1>1. IInv /\ [Next]_vars => (running /\ ~running' => remaining = 0 /\ remaining' = 0)
    BY ClosingStep DEF RunStopNotify, IInv, HandlerInv, counts
<1> QED
    BY <1>1, Invariance, PTL DEF Spec, ClosesPaid

\* Nothing touches a result while no test runs.
THEOREM ResultsSettle == Spec => LateEventsHarmless
<1> DEFINE R == <<timerName, byteNumber, nPacket, remaining, total, stamp>>
<1>1. ASSUME IInv, [Next]_vars, ~running, ~running' PROVE UNCHANGED R
    <2>1. CASE Environment
        BY <2>1 DEF Environment, PeerConnects, LinkLost, RadioSends,
           PeerWritesRxCccd, PeerWritesUpCccd, info, test, counts, times
    <2>2. CASE Inputs
        BY <1>1, <2>2 DEF Inputs, DispatchDummyData, DispatchCommand, NotifyUpdate,
           info, test, counts, times
    <2>3. CASE Dispatch
        BY <2>3 DEF Dispatch, DispatchLink, DispatchCccd, DispatchTxComplete, info,
           test, counts, times
    <2>4. CASE SendExtra \/ SendFull \/ SendSuspend \/ SendDone
        BY <1>1, <2>4 DEF SendExtra, SendFull, SendSuspend, SendDone, IInv, HandlerInv
    <2>5. CASE RunStart \/ RunStopLater \/ RunStopNotify \/ RunContinue
        BY <1>1, <2>5 DEF RunStart, RunStopLater, RunStopNotify, RunContinue, IInv,
           HandlerInv, counts, times
    <2>6. CASE \/ RetryStop \/ RunEnd \/ RunWrongTimer \/ RunStartAgain
               \/ RunStopNotRunning \/ RunStopDelay \/ RunContinueIgnored
               \/ RunReport \/ ReportLine
        BY <2>6 DEF RetryStop, RunEnd, RunWrongTimer, RunStartAgain, RunStopNotRunning,
           RunStopDelay, RunContinueIgnored, RunReport, ReportLine, info, test,
           counts, times
    <2>7. CASE UNCHANGED vars
        BY <2>7 DEF vars, info, test, counts, times
    <2> QED
        BY <1>1, <2>1, <2>2, <2>3, <2>4, <2>5, <2>6, <2>7 DEF Next, HandlerStep
<1> QED
    BY <1>1, Invariance, PTL DEF Spec, LateEventsHarmless

-----------------------------------------------------------------------------
(* Refinement: every step of the program is a step of TestControl or none. *)

\* A step that leaves test and remaining alone is none.
LEMMA Stutter == UNCHANGED test /\ UNCHANGED remaining => UNCHANGED Control!vars
BY DEF test, Control!vars

\* The steps of send_dummy_data, and CONTINUE, transfer.
LEMMA TransferStep ==
    ASSUME running, timerName = "tsd", UNCHANGED test
    PROVE  Control!Transfer
BY DEF Control!Transfer, test

\* Every step of the program is a step of TestControl or leaves it alone: the
\* words START, CONTINUE and STOP of communication_run and the debt of
\* send_dummy_data are its actions Open, Transfer, PutOff and Close.
THEOREM ImplementsControl == Spec => ControlSpec
<1>1. Init => Control!Init
    BY DEF Init, Control!Init
<1>2. IInv /\ [Next]_vars => [Control!Next]_(Control!vars)
    <2> SUFFICES ASSUME IInv, [Next]_vars PROVE [Control!Next]_(Control!vars)
        OBVIOUS
    <2> USE DEF IInv, HandlerInv, OwedOnlyInDownTest
    <2>1. CASE Environment
        BY <2>1, Stutter DEF Environment, PeerConnects, LinkLost, RadioSends,
           PeerWritesRxCccd, PeerWritesUpCccd, info, test, counts
    <2>2. CASE Inputs
        BY <2>2, Stutter DEF Inputs, DispatchDummyData, DispatchCommand, NotifyUpdate,
           info, test, counts
    <2>3. CASE Dispatch
        BY <2>3, Stutter DEF Dispatch, DispatchLink, DispatchCccd, DispatchTxComplete,
           info, test, counts
    <2>4. CASE \/ RetryStop \/ RunEnd \/ RunWrongTimer \/ RunStartAgain
               \/ RunStopNotRunning \/ RunStopDelay \/ RunContinueIgnored
               \/ RunReport \/ ReportLine
        BY <2>4, Stutter DEF RetryStop, RunEnd, RunWrongTimer, RunStartAgain,
           RunStopNotRunning, RunStopDelay, RunContinueIgnored, RunReport, ReportLine,
           info, test, counts
    <2>5. CASE RunStart
        <3>1. cmd \in TestNames /\ Control!Open(cmd)
            BY <2>5 DEF RunStart, AtTestWord, Control!Open
        <3> QED
            BY <3>1 DEF Control!Next
    <2>6. CASE RunStopLater
        <3>1. stopDown \/ Control!PutOff
            BY <2>6 DEF RunStopLater, counts, Control!PutOff
        <3>2. stopDown => UNCHANGED Control!vars
            BY <2>6 DEF RunStopLater, counts, TypeOK, InfoOK, Control!vars
        <3> QED
            BY <3>1, <3>2 DEF Control!Next
    <2>7. CASE RunStopNotify
        <3>1. CASE StringSend(FALSE) = "success"
            <4>1. Control!Close
                BY <2>7, <3>1 DEF RunStopNotify, counts, Control!Close
            <4> QED
                BY <4>1 DEF Control!Next
        <3>2. CASE StringSend(FALSE) # "success"
            BY <2>7, <3>2, Stutter DEF RunStopNotify, counts, test
        <3> QED
            BY <3>1, <3>2
    <2>8. CASE RunContinue
        BY <2>8, TransferStep DEF RunContinue, AtTestWord, RightTimer, Control!Next
    <2>9. CASE SendExtra \/ SendFull \/ SendSuspend \/ SendDone
        BY <2>9, TransferStep DEF SendExtra, SendFull, SendSuspend, SendDone,
           Control!Next
    <2>10. CASE UNCHANGED vars
        BY <2>10, Stutter DEF vars, info, test, counts
    <2> QED
        BY <2>1, <2>2, <2>3, <2>4, <2>5, <2>6, <2>7, <2>8, <2>9, <2>10
           DEF Next, HandlerStep
<1> QED
    BY <1>1, <1>2, Invariance, PTL DEF Spec, ControlSpec, Control!Spec

-----------------------------------------------------------------------------
(* The loop of send_dummy_data, up to the length its index can count.      *)

\* NoWrap is the largest 16-bit multiple of the packet size.
LEMMA NoWrapBound == NoWrap \in Nat /\ NoWrap < W /\ NoWrap % SIZE = 0
<1> DEFINE w == W - 1
<1>1. w \in Nat /\ w >= SIZE /\ SIZE \in Nat \ {0}
    BY SizeAssumption
<1>2. NoWrap = w - (w % SIZE)
    BY DEF NoWrap
<1> HIDE DEF w
<1>3. w % SIZE = w - SIZE * (w \div SIZE) /\ w \div SIZE \in Int
      /\ w % SIZE \in 0 .. SIZE-1
    <2>1. w \in Int
        BY <1>1
    <2> QED
        BY <1>1, <2>1, Division, Zenon
<1>4. NoWrap = (w \div SIZE) * SIZE
    BY <1>1, <1>2, <1>3
<1>5. ((w \div SIZE) * SIZE) % SIZE = 0
    BY <1>1, <1>3, ProductMod
<1>6. NoWrap \in Nat /\ NoWrap <= w
    BY <1>1, <1>2, <1>3
<1>7. w < W
    BY SizeAssumption DEF w
<1> QED
    BY <1>1, <1>4, <1>5, <1>6, <1>7, SizeAssumption

\* The index of send_dummy_data's loop counts whole packets and does not wrap
\* for a length up to NoWrap.
THEOREM LoopCounts == Spec => []LoopInv
<1>1. Init => LoopInv
    BY DEF Init, LoopInv
<1>2. IInv /\ LoopInv /\ [Next]_vars => LoopInv'
    <2> SUFFICES ASSUME IInv, LoopInv, [Next]_vars PROVE LoopInv'
        OBVIOUS
    <2> USE DEF LoopInv
    <2>1. CASE SendFull
        <3> SUFFICES ASSUME len <= NoWrap PROVE i' % SIZE = 0 /\ i' <= NoWrap
            BY <2>1 DEF SendFull
        <3>1. i \in Int /\ len \in Int /\ i < len /\ i % SIZE = 0
            BY <2>1, SizeAssumption DEF SendFull, IInv, TypeOK, HandlerOK, Uint16
        <3>2. i + SIZE <= NoWrap
            <4>1. NoWrap \in Int /\ NoWrap % SIZE = 0 /\ i < NoWrap /\ SIZE \in Nat \ {0}
                BY <3>1, NoWrapBound, SizeAssumption
            <4> QED
                BY <3>1, <4>1, MultipleBelow
        <3>3. i' = i + SIZE
            BY <2>1, <3>1, <3>2, NoWrapBound, SizeAssumption
               DEF SendFull, IInv, TypeOK, HandlerOK
        <3> QED
            BY <3>1, <3>2, <3>3, MultipleNext, SizeAssumption
    <2>2. CASE SendExtra
        BY <2>2, NoWrapBound, SizeAssumption DEF SendExtra
    <2>3. CASE ~SendFull /\ ~SendExtra
        <3>1. pc' = "full" => UNCHANGED <<pc, len, i>>
            BY <2>3 DEF Next, Environment, PeerConnects, LinkLost, RadioSends,
               PeerWritesRxCccd, PeerWritesUpCccd, Inputs, DispatchDummyData,
               DispatchCommand, NotifyUpdate, Dispatch, DispatchLink, DispatchCccd,
               DispatchTxComplete, HandlerStep, RetryStop, RunEnd, RunWrongTimer,
               RunStart, RunStartAgain, RunStopNotRunning, RunStopLater, RunStopDelay,
               RunStopNotify, RunContinue, RunContinueIgnored, RunReport, ReportLine,
               SendSuspend, SendDone, IInv, TypeOK, HandlerOK, Run, CallSend, Return,
               Abandon, NextWord, handler, call, vars
        <3> QED
            BY <3>1 DEF NoWrap
    <2> QED
        BY <2>1, <2>2, <2>3
<1> QED
    BY <1>1, <1>2, Invariance, PTL DEF Spec

\* Within that length a call of send_dummy_data never leaves a greater debt
\* than it was given.
THEOREM DebtShrinks == Spec => ResumeShrinks
<1>1. ASSUME IInv, LoopInv, [Next]_vars, len <= NoWrap, pc \in Sending
      PROVE  remaining' <= remaining
    <2>1. remaining \in Nat /\ remaining = len /\ len < W
        BY <1>1, SizeAssumption
           DEF IInv, TypeOK, InfoOK, HandlerOK, HandlerInv, Uint16
    <2>2. CASE SendSuspend
        <3>1. i \in Nat /\ i < len /\ i % SIZE = 0 /\ len \in Nat
            BY <1>1, <2>1, <2>2 DEF SendSuspend, LoopInv, IInv, TypeOK, HandlerOK
        <3>2. Extra \in Nat /\ i <= len - Extra
            <4>1. i \in Int /\ len \in Int /\ SIZE \in Nat \ {0}
                BY <3>1, SizeAssumption
            <4>2. i <= len - (len % SIZE)
                BY <3>1, <4>1, MultipleBelow
            <4>3. len % SIZE \in Nat
                BY <4>1
            <4> QED
                BY <4>2, <4>3 DEF Extra
        <3>3. len - Extra - i \in 0 .. len
            BY <3>1, <3>2
        <3>4. (len - Extra - i) % W = len - Extra - i
            BY <2>1, <3>1, <3>3, SizeAssumption
        <3> QED
            BY <2>1, <2>2, <3>3, <3>4 DEF SendSuspend
    <2>3. CASE SendDone
        BY <2>1, <2>3 DEF SendDone
    <2>4. CASE ~SendSuspend /\ ~SendDone
        <3>1. UNCHANGED remaining
            BY <1>1, <2>4 DEF Next, Environment, PeerConnects, LinkLost, RadioSends,
               PeerWritesRxCccd, PeerWritesUpCccd, Inputs, DispatchDummyData,
               DispatchCommand, NotifyUpdate, Dispatch, DispatchLink, DispatchCccd,
               DispatchTxComplete, HandlerStep, RetryStop, RunEnd, RunWrongTimer,
               RunStart, RunStartAgain, RunStopNotRunning, RunStopLater, RunStopDelay,
               RunStopNotify, RunContinue, RunContinueIgnored, RunReport, ReportLine,
               SendExtra, SendFull, AtTestWord, AtWord, Idle, info, test, counts, vars
        <3> QED
            BY <2>1, <3>1
    <2> QED
        BY <2>2, <2>3, <2>4
<1> QED
    BY <1>1, Invariance, LoopCounts, PTL DEF Spec, ResumeShrinks

\* A multiple of the divisor does not change the remainder.
LEMMA ModShift ==
    ASSUME NEW w \in Nat \ {0}, NEW a \in Int, NEW k \in Int
    PROVE  (a + k * w) % w = a % w
<1>1. (a + k * w) \div w = (a \div w) + k
    OBVIOUS
<1>2. a = w * (a \div w) + (a % w) /\ a \div w \in Int /\ a % w \in Int
    OBVIOUS
<1>3. k * w \in Int
    OBVIOUS
<1>4. a + k * w = w * ((a + k * w) \div w) + ((a + k * w) % w)
      /\ (a + k * w) % w \in Int
    BY <1>3
<1>5. w * ((a \div w) + k) = w * (a \div w) + k * w
    BY <1>2
<1> QED
    BY <1>1, <1>2, <1>3, <1>4, <1>5

\* Taking a number off and adding it again, in counters of the same width.
LEMMA OffAndOn ==
    ASSUME NEW w \in Nat \ {0}, NEW a \in Int, NEW b \in Int
    PROVE  (((a - b) % w) + b) % w = a % w
<1> DEFINE q == (a - b) \div w
<1>1. q \in Int /\ (a - b) % w \in Int /\ a - b = w * q + ((a - b) % w)
    OBVIOUS
<1> HIDE DEF q
<1> DEFINE r == (a - b) % w
<1>2. q \in Int /\ r \in Int /\ a - b = w * q + r
    BY <1>1
<1> HIDE DEF r
<1>3. r + b = a + (-q) * w /\ -q \in Int
    BY <1>2
<1> QED
    BY <1>3, ModShift DEF r

\* A resumed transfer moves bytes from the debt to the count, and none are lost
\* between them.
THEOREM BytesAddUp == Spec => ResumeAccounts
<1>1. ASSUME IInv, [Next]_vars, pc \in Sending, caller = "tx_complete"
      PROVE  UNCHANGED CountedAndOwed
    <2> USE DEF CountedAndOwed
    <2>1. /\ W \in Nat \ {0} /\ byteNumber \in Int /\ total \in Int
          /\ remaining \in Int /\ remaining # 0 /\ remaining = len
        BY <1>1, SizeAssumption DEF IInv, TypeOK, InfoOK, HandlerInv, Uint16
    <2>2. byteNumber = (total - remaining) % W
        BY <1>1, <2>1 DEF IInv, BytesAccounted
    <2>3. CASE SendSuspend
        <3>1. byteNumber' = (total - remaining') % W /\ remaining' \in Int
            BY <1>1, <2>1, <2>3, TypeStep DEF SendSuspend, IInv, TypeOK, InfoOK, Uint16
        <3>2. (byteNumber' + remaining') % W = total % W
            BY <2>1, <3>1, OffAndOn
        <3>3. (byteNumber + remaining) % W = total % W
            BY <2>1, <2>2, OffAndOn
        <3> QED
            BY <3>2, <3>3
    <2>4. CASE SendDone
        <3>1. byteNumber' = (byteNumber + remaining) % W /\ remaining' = 0
            BY <2>1, <2>4 DEF SendDone
        <3>2. ASSUME NEW w \in Nat \ {0}, NEW x \in Int
              PROVE  ((x % w) + 0) % w = x % w
            OBVIOUS
        <3>3. byteNumber + remaining \in Int
            BY <2>1
        <3>4. (((byteNumber + remaining) % W) + 0) % W = (byteNumber + remaining) % W
            BY <2>1, <3>2, <3>3
        <3> QED
            BY <3>1, <3>4
    <2>5. CASE ~SendSuspend /\ ~SendDone
        <3>1. UNCHANGED <<byteNumber, remaining>>
            BY <1>1, <2>5 DEF Next, Environment, PeerConnects, LinkLost, RadioSends,
               PeerWritesRxCccd, PeerWritesUpCccd, Inputs, DispatchDummyData,
               DispatchCommand, NotifyUpdate, Dispatch, DispatchLink, DispatchCccd,
               DispatchTxComplete, HandlerStep, RetryStop, RunEnd, RunWrongTimer,
               RunStart, RunStartAgain, RunStopNotRunning, RunStopLater, RunStopDelay,
               RunStopNotify, RunContinue, RunContinueIgnored, RunReport, ReportLine,
               SendExtra, SendFull, AtTestWord, AtWord, Idle, Sending, info, test,
               counts, vars
        <3> QED
            BY <3>1
    <2> QED
        BY <2>3, <2>4, <2>5
<1> QED
    BY <1>1, Invariance, PTL DEF Spec, ResumeAccounts

-----------------------------------------------------------------------------
(* No handler runs for ever.                                               *)

\* The lines of GET_TIME and GET_PARAMS are counted from 0 to 3.
ReportInv == pc = "report" => i \in 0 .. 3

\* It is an invariant: only RunReport begins the count and ReportLine goes on.
LEMMA ReportCounts == Spec => []ReportInv
<1>1. Init => ReportInv
    BY DEF Init, ReportInv
<1>2. IInv /\ ReportInv /\ [Next]_vars => ReportInv'
    <2> SUFFICES ASSUME IInv, ReportInv, [Next]_vars PROVE ReportInv'
        OBVIOUS
    <2> USE DEF ReportInv
    <2>1. CASE RunReport
        BY <2>1 DEF RunReport, NextWord
    <2>2. CASE ReportLine
        BY <2>2 DEF ReportLine, NextWord
    <2>3. CASE ~RunReport /\ ~ReportLine
        <3>1. pc' = "report" => UNCHANGED <<pc, i>>
            BY <2>3 DEF Next, Environment, PeerConnects, LinkLost, RadioSends,
               PeerWritesRxCccd, PeerWritesUpCccd, Inputs, DispatchDummyData,
               DispatchCommand, NotifyUpdate, Dispatch, DispatchLink, DispatchCccd,
               DispatchTxComplete, HandlerStep, RetryStop, RunEnd, RunWrongTimer,
               RunStart, RunStartAgain, RunStopNotRunning, RunStopLater, RunStopDelay,
               RunStopNotify, RunContinue, RunContinueIgnored, SendExtra, SendFull,
               SendSuspend, SendDone, IInv, TypeOK, HandlerOK, Run, CallSend, Return,
               Abandon, NextWord, handler, call, vars
        <3> QED
            BY <3>1
    <2> QED
        BY <2>1, <2>2, <2>3
<1> QED
    BY <1>1, <1>2, Invariance, PTL DEF Spec

\* What a handler step leaves to do, in terms of HandlersRunOut.
Less ==
    \/ WillRetry /\ ~WillRetry'
    \/ /\ WillRetry' = WillRetry
       /\ \/ WordsToRun' < WordsToRun
          \/ WordsToRun' = WordsToRun /\ StepsToRun' \in 0 .. StepsToRun - 1
          \/ pc' = "idle"

\* A step of communication_run that takes a word leaves fewer of them.
LEMMA WordTaken ==
    ASSUME TypeOK, pc \in {"run", "delay", "report"}, words # <<>>, NextWord
    PROVE  Less
<1>1. words \in Seq(Words) /\ words # <<>> /\ words' = Tail(words)
    BY DEF TypeOK, HandlerOK, NextWord
<1>2. Len(words') = Len(words) - 1 /\ Len(words) \in Nat
    BY <1>1
<1>3. ~WillRetry /\ ~WillRetry' /\ pc # "idle" /\ pc' # "idle"
    BY DEF WillRetry, NextWord
<1>4. WordsToRun = Len(words) /\ WordsToRun' = Len(words')
    BY <1>3 DEF WordsToRun
<1>5. WordsToRun' < WordsToRun /\ WillRetry' = WillRetry
    BY <1>2, <1>3, <1>4 DEF WillRetry
<1> QED
    BY <1>5 DEF Less

\* A step that stays with the same words leaves fewer steps.
LEMMA StepTaken ==
    ASSUME pc # "idle", pc' # "idle", UNCHANGED words, WillRetry' = WillRetry,
           StepsToRun' \in 0 .. StepsToRun - 1
    PROVE  Less
<1>1. WordsToRun' = WordsToRun
    BY DEF WordsToRun
<1> QED
    BY <1>1 DEF Less

\* Every step of a handler leaves less to do.
LEMMA HandlerLess ==
    ASSUME IInv, LoopInv, ReportInv, HandlerStep, pc = "full" => len <= NoWrap
    PROVE  Less
<1> USE DEF IInv
<1>1. CASE RetryStop
    BY <1>1 DEF RetryStop, Run, Return, WillRetry, Less
<1>2. CASE RunEnd \/ RunWrongTimer \/ RunStartAgain \/ RunStopNotRunning \/ RunStopLater
    BY <1>2 DEF RunEnd, RunWrongTimer, RunStartAgain, RunStopNotRunning, RunStopLater,
       AtTestWord, AtWord, Abandon, Return, WillRetry, Less
<1>3. CASE RunStart \/ RunContinueIgnored
    BY <1>3, WordTaken DEF RunStart, RunContinueIgnored, AtTestWord, AtWord
<1>4. CASE RunStopDelay
    <2>1. StepsToRun = 5 /\ StepsToRun' = 0
        BY <1>4 DEF RunStopDelay, AtTestWord, AtWord, StepsToRun
    <2> QED
        BY <1>4, <2>1, StepTaken DEF RunStopDelay, AtTestWord, AtWord, WillRetry
<1>5. CASE RunStopNotify
    <2>1. CASE NextWord
        BY <1>5, <2>1, WordTaken DEF RunStopNotify, TypeOK, HandlerOK
    <2>2. CASE Abandon
        BY <1>5, <2>2 DEF RunStopNotify, Abandon, Return, WillRetry, Less
    <2> QED
        BY <1>5, <2>1, <2>2 DEF RunStopNotify
<1>6. CASE RunContinue
    <2>1. pc = "run" /\ words # <<>> /\ words' = Tail(words)
          /\ (pc' = "run" \/ (pc' = "extra" /\ caller' = "run"))
        BY <1>6 DEF RunContinue, AtTestWord, AtWord, CallSend
    <2>2. words \in Seq(Words)
        BY DEF TypeOK, HandlerOK
    <2>3. Len(words') = Len(words) - 1 /\ Len(words) \in Nat
        BY <2>1, <2>2
    <2>4. ~WillRetry /\ ~WillRetry'
        BY <2>1 DEF WillRetry
    <2>5. WordsToRun = Len(words) /\ WordsToRun' = Len(words')
        BY <2>1, <2>4 DEF WordsToRun
    <2>6. WordsToRun' < WordsToRun /\ WillRetry' = WillRetry
        BY <2>3, <2>4, <2>5 DEF WillRetry
    <2> QED
        BY <2>6 DEF Less
<1>7. CASE RunReport
    <2>1. CASE NextWord
        BY <1>7, <2>1, WordTaken DEF RunReport, AtWord
    <2>2. CASE pc' = "report" /\ i' = 0 /\ UNCHANGED words
        <3>1. StepsToRun = 5 /\ StepsToRun' = 4
            BY <1>7, <2>2 DEF RunReport, AtWord, StepsToRun
        <3> QED
            BY <1>7, <2>2, <3>1, StepTaken DEF RunReport, AtWord, WillRetry
    <2> QED
        BY <1>7, <2>1, <2>2 DEF RunReport
<1>8. CASE ReportLine
    <2>1. CASE i = 3
        BY <1>8, <2>1, WordTaken DEF ReportLine, TypeOK, HandlerOK
    <2>2. CASE i # 3
        <3>1. pc = "report" /\ pc' = "report" /\ i \in 0 .. 2 /\ i' = i + 1
              /\ UNCHANGED words
            BY <1>8, <2>2 DEF ReportLine, ReportInv
        <3>2. StepsToRun = 4 - i /\ StepsToRun' = 4 - i'
            BY <3>1 DEF StepsToRun
        <3> QED
            BY <3>1, <3>2, StepTaken DEF WillRetry
    <2> QED
        BY <2>1, <2>2
<1>9. CASE SendExtra
    <2>1. pc = "extra" /\ pc' \in {"full", "sent"} /\ i' = 0 /\ UNCHANGED <<words, len, caller>>
        BY <1>9 DEF SendExtra
    <2>2. len \in Nat
        BY SizeAssumption DEF TypeOK, HandlerOK, Uint16
    <2>3. StepsToRun = len + 8 /\ StepsToRun' \in {7, 7 + len, 6}
        BY <2>1, <2>2 DEF StepsToRun
    <2> QED
        BY <2>1, <2>2, <2>3, StepTaken DEF WillRetry
<1>10. CASE SendFull
    <2>1. /\ pc = "full" /\ pc' = "full" /\ i < len /\ UNCHANGED <<words, len, caller>>
          /\ len <= NoWrap /\ i % SIZE = 0 /\ i' = (i + SIZE) % W
        BY <1>10 DEF SendFull, LoopInv
    <2>2. i \in Int /\ len \in Int /\ i >= 0 /\ SIZE \in Nat \ {0}
        BY SizeAssumption DEF TypeOK, HandlerOK, Uint16
    <2>3. i + SIZE <= NoWrap
        <3>1. NoWrap \in Int /\ NoWrap % SIZE = 0 /\ i < NoWrap
            BY <2>1, <2>2, NoWrapBound
        <3> QED
            BY <2>1, <2>2, <3>1, MultipleBelow
    <2>4. i' = i + SIZE
        BY <2>1, <2>2, <2>3, NoWrapBound, SizeAssumption
    <2>5. StepsToRun = 7 + (len - i)
          /\ StepsToRun' = 7 + IF i' < len THEN len - i' ELSE 0
        BY <2>1 DEF StepsToRun
    <2>6. StepsToRun' \in 0 .. StepsToRun - 1
        BY <2>1, <2>2, <2>4, <2>5
    <2> QED
        BY <2>1, <2>6, StepTaken DEF WillRetry
<1>11. CASE SendSuspend \/ SendDone
    <2>1. pc \in {"full", "sent"} /\ pc' = caller /\ UNCHANGED <<words, len, i, caller>>
        BY <1>11 DEF SendSuspend, SendDone, call
    <2>2. len \in Nat /\ i \in Nat /\ caller \in {"run", "tx_complete"}
        BY SizeAssumption DEF TypeOK, HandlerOK, Uint16
    <2>3. StepsToRun \in Nat /\ StepsToRun >= 6
        BY <2>1, <2>2 DEF StepsToRun
    <2>4. StepsToRun' \in {0, 5}
        BY <2>1, <2>2 DEF StepsToRun
    <2> QED
        BY <2>1, <2>2, <2>3, <2>4, StepTaken DEF WillRetry
<1> QED
    BY <1>1, <1>2, <1>3, <1>4, <1>5, <1>6, <1>7, <1>8, <1>9, <1>10, <1>11
       DEF HandlerStep

\* No handler runs for ever: each of its steps leaves less to do, whatever the
\* link, the radio and the peer do between two of them.
THEOREM HandlersEnd == Spec => HandlersRunOut
<1>1. IInv /\ LoopInv /\ ReportInv => (HandlerStep /\ (pc = "full" => len <= NoWrap) => Less)
    BY HandlerLess
<1> QED
    BY <1>1, Invariance, LoopCounts, ReportCounts, PTL DEF HandlersRunOut, Less
=============================================================================
