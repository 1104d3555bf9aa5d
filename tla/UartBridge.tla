----------------------------- MODULE UartBridge -----------------------------
(***************************************************************************)
(* SpeedTest with the UART of main.c: bytes received on the serial line    *)
(* are gathered and sent to the phone as a notification, which takes a     *)
(* transmit packet from the running test.  The UART's interrupt has the    *)
(* priority of the SoftDevice's events, so its handler runs only when no   *)
(* other does; it takes each byte from the receive FIFO before the next    *)
(* one comes.  Nearly every error is answered with a reset of the device.  *)
(***************************************************************************)
EXTENDS SpeedTest

VARIABLE index    \* bytes gathered in data_array

uartVars == <<vars, index>>

UartInit == Init /\ index = 0

\* APP_ERROR_HANDLER: the device starts again and remembers nothing; the
\* SoftDevice goes down with it, and so does the link.
Reset ==
    /\ running' = FALSE /\ available' = FALSE /\ stopDown' = FALSE
    /\ timerName' = "tsd" /\ stamp' = "unset" /\ startTick' = 0
    /\ byteNumber' = 0 /\ nPacket' = 0 /\ remaining' = 0 /\ total' = 0
    /\ connHandle' = FALSE /\ notifEnabled' = FALSE
    /\ link' = FALSE /\ cccdRx' = FALSE /\ cccdUp' = FALSE
    /\ inFlight' = 0 /\ evq' = <<>> /\ index' = 0
    /\ UNCHANGED <<handler, writes>>

Gathers(n) == index' = n /\ UNCHANGED vars

\* ble_nus_string_send of the line: NRF_ERROR_INVALID_STATE is ignored, which
\* the SoftDevice may answer too (CCCD off, link going down).
LineIgnored == StringSend(FALSE) \in {"invalid_state", "error"} /\ Gathers(0)
LineFails == StringSend(FALSE) \in {"no_tx_packets", "error"} /\ Reset

LineSent ==
    /\ StringSend(FALSE) = "success"
    /\ Take("success") /\ index' = 0
    /\ UNCHANGED <<info, nus, handler, air, evq, writes>>

\* A line ends with a '\n' or when the array is full.
LineEnds(newline) == newline \/ index + 1 >= SIZE

\* Faulty variant: only a line that was sent is taken out of the array.
UartByteKept(newline) ==
    /\ Idle
    /\ IF LineEnds(newline)
       THEN \/ LineSent \/ LineFails
            \/ StringSend(FALSE) = "invalid_state" /\ Gathers(index + 1)
       ELSE Gathers(index + 1)

\* APP_UART_DATA_READY.
UartByte(newline) ==
    /\ Idle
    /\ IF LineEnds(newline) THEN LineSent \/ LineIgnored \/ LineFails
                            ELSE Gathers(index + 1)

\* APP_UART_COMMUNICATION_ERROR.
UartError == "uart" \in Faults /\ Idle /\ Reset

Uart == UartError \/ (\E newline \in BOOLEAN : UartByte(newline))

BridgeNext == Uart \/ (Next /\ UNCHANGED index)
BridgeSpec == UartInit /\ [][BridgeNext]_uartVars

LineInArray == index \in 0 .. SIZE - 1
=============================================================================
