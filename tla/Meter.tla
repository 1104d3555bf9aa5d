------------------------------- MODULE Meter -------------------------------
(***************************************************************************)
(* SpeedTest with history variables: the bytes the SoftDevice accepted on  *)
(* the up characteristic since the test was opened, which is what          *)
(* byte_number is meant to measure in a DOWN test, and whether it refused  *)
(* a packet for another reason than BLE_ERROR_NO_TX_PACKETS.               *)
(***************************************************************************)
EXTENDS SpeedTest

VARIABLES sentBytes, refused

meterVars == <<vars, sentBytes, refused>>

MeterInit == Init /\ sentBytes = 0 /\ refused = FALSE

Opens == ~running /\ running'
Accepts == pc \in {"extra", "full"} /\ inFlight' = inFlight + 1

Refuses ==
    /\ pc \in {"extra", "full"} /\ nPacket' # nPacket
    /\ StringSend(TRUE) \notin {"success", "no_tx_packets"}

Measure ==
    /\ sentBytes' = IF Opens THEN 0
                    ELSE IF Accepts
                    THEN (sentBytes + (IF pc = "extra" THEN Extra ELSE SIZE)) % W
                    ELSE sentBytes
    /\ refused' = IF Opens THEN FALSE ELSE refused \/ Refuses

MeterNext == Next /\ Measure
MeterSpec == MeterInit /\ [][MeterNext]_meterVars

-----------------------------------------------------------------------------

\* Tests of one request: a CONTINUE comes right behind the START of its command,
\* and asks for no more than the counters hold.  (The phone's macro sends the two
\* in commands of their own, one after the other, with the same transfer.)
SingleRequests ==
    \A c \in Commands : c.cmd = "tsd" =>
        \A k \in 1 .. Len(c.words) : c.words[k].name = "continue" =>
            k > 1 /\ c.words[k - 1].name = "start" /\ c.words[k].n + SIZE < W

\* The result of a DOWN test in which the link and the CCCDs stood.
DownResult == ~running /\ available /\ timerName = "tsd" /\ ~refused

\* byte_number is the "nombre d'octet echangé dans une instance de test complete"
\* (communication.h:107).  How far it can be, in a test of one request, from what
\* was handed over: the odd bytes may be refused with BLE_ERROR_NO_TX_PACKETS and
\* a rest of exactly SIZE bytes is never sent, while the loop sends a full packet
\* too many when there are odd bytes.  However often the transfer was suspended,
\* the count is less than two packets too high and at most one too low.
CountWithinTwoPackets == DownResult => byteNumber - sentBytes \in -SIZE .. 2*SIZE - 1
=============================================================================
