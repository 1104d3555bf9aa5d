------------------------------ MODULE LongWrite ------------------------------
(***************************************************************************)
(* Long writes (long_packet.c): a command longer than a packet comes in    *)
(* pieces, which the SoftDevice queues in a buffer the program lends it.   *)
(* When it gives the buffer back, the program walks through it and hands   *)
(* the bytes over as one command.                                          *)
(*                                                                         *)
(* The buffer's layout is the SoftDevice's: for each piece a header of     *)
(* handle, offset and length, 16 bits each with the low byte first, then   *)
(* the bytes; a handle of zero behind the last piece.  The program never   *)
(* clears the buffer and relies on that zero.                              *)
(***************************************************************************)
EXTENDS Integers, Sequences

CONSTANTS
    ByteSize,      \* 2^8: values a byte has
    SIZE_QUEUED,   \* bytes in the buffer
    SIZE_HEADER, MEM_OFFSET, MEM_LEN,
    Chunk,         \* bytes in a full piece (18 with packets of 23)
    Handle,        \* low byte of the characteristic's handle
    Values,        \* the long values the phone may write
    MaxEvents      \* bound: events waiting in the SoftDevice's queue

Byte == 0 .. ByteSize - 1
Position == 0 .. SIZE_QUEUED - 1

ASSUME LayoutAssumption ==
    SIZE_HEADER = 6 /\ MEM_OFFSET = 2 /\ MEM_LEN = 4
ASSUME SizeAssumption ==
    /\ ByteSize \in Nat /\ Chunk \in 1 .. ByteSize - 1 /\ Handle \in 1 .. ByteSize - 1
    /\ SIZE_QUEUED \in SIZE_HEADER + Chunk + 2 .. ByteSize * ByteSize
ASSUME ValueAssumption == \A v \in Values : v \in Seq(Byte) /\ v # <<>>
ASSUME BoundAssumption == MaxEvents \in Nat \ {0}

VARIABLES
    link, evq,
    owner,      \* what the SoftDevice has of the buffer: "none", "requested", "given"
    value,      \* the value the phone writes
    sent,       \* its bytes in the buffer, and when it was given back
    tail,       \* where the SoftDevice puts the next piece
    m_queued,
    pc, i, data, len   \* the handler and its locals

peer == <<link, evq, owner, value>>
buffer == <<sent, tail, m_queued>>
locals == <<i, data, len>>
vars == <<peer, buffer, pc, locals>>

Zeros == [p \in Position |-> 0]
MemEvents == {"request", "release"}
Events == MemEvents \cup {"disconnected"}

Init ==
    /\ link = FALSE /\ evq = <<>> /\ owner = "none" /\ value = <<>>
    /\ sent = <<>> /\ tail = 0 /\ m_queued = Zeros
    /\ pc = "idle" /\ i = 0 /\ data = Zeros /\ len = 0

-----------------------------------------------------------------------------
(* The SoftDevice and the phone.                                           *)

Rest == SubSeq(value, Len(sent) + 1, Len(value))
Piece(v) == SubSeq(v, 1, IF Len(v) < Chunk THEN Len(v) ELSE Chunk)

\* A piece fits if there is room for the zero behind it.
Fits(pos, bytes) == pos + SIZE_HEADER + Len(bytes) + 2 <= SIZE_QUEUED

Header(offset, n) == <<Handle, 0, offset % ByteSize, offset \div ByteSize, n, 0>>

\* Bytes written from a position on.
Write(mem, pos, bytes) ==
    [p \in Position |->
        IF p \in pos .. pos + Len(bytes) - 1 THEN bytes[p - pos + 1] ELSE mem[p]]

\* The SoftDevice puts a piece behind `before', the bytes it already has.
Queue(before, pos, bytes) ==
    /\ sent' = before \o bytes
    /\ tail' = pos + SIZE_HEADER + Len(bytes)
    /\ m_queued' = Write(m_queued, pos,
                         Header(Len(before), Len(bytes)) \o bytes \o <<0, 0>>)

CanPost(n) == Len(evq) + n <= MaxEvents

\* Advertising starts again only in the handler of the last disconnection.
PeerConnects ==
    /\ ~link /\ evq = <<>>
    /\ link' = TRUE
    /\ UNCHANGED <<evq, owner, value, buffer, pc, locals>>

\* The phone's first piece makes the SoftDevice ask for a buffer.
PhoneBegins ==
    /\ link /\ owner = "none" /\ CanPost(1)
    /\ value' \in Values
    /\ owner' = "requested" /\ evq' = Append(evq, "request")
    /\ UNCHANGED <<link, buffer, pc, locals>>

\* A further piece.
PhonePrepares ==
    /\ owner = "given" /\ Rest # <<>> /\ Fits(tail, Piece(Rest))
    /\ Queue(sent, tail, Piece(Rest))
    /\ UNCHANGED <<peer, pc, locals>>

\* The phone executes the write once every piece is queued, or cancels it;
\* either way the buffer is given back.
PhoneEnds ==
    /\ owner = "given" /\ CanPost(1)
    /\ owner' = "none" /\ evq' = Append(evq, "release")
    /\ UNCHANGED <<link, value, buffer, pc, locals>>

\* The link drops, and with it a write in progress.
LinkLost ==
    /\ link /\ CanPost(2)
    /\ link' = FALSE /\ owner' = "none"
    /\ evq' \in IF owner = "given"
                THEN {evq \o <<"release", "disconnected">>,
                      evq \o <<"disconnected", "release">>}
                ELSE {Append(evq, "disconnected")}
    /\ UNCHANGED <<value, buffer, pc, locals>>

-----------------------------------------------------------------------------
(* long_packet_on_ble_event.                                               *)

Idle == pc = "idle"
Takes(e) == Idle /\ evq # <<>> /\ Head(evq) = e /\ evq' = Tail(evq)

\* sd_ble_user_mem_reply: the first piece is queued, unless the link is gone.
Reply ==
    IF owner = "requested" /\ link
    THEN owner' = "given" /\ Queue(<<>>, 0, Piece(value))
    ELSE UNCHANGED <<owner, buffer>>

BeginWalk == pc' = "walk" /\ data' = Zeros /\ i' = 0 /\ len' = 0

\* Faulty variant: the case of the request has no break.
RequestFallsThrough ==
    /\ Takes("request")
    /\ Reply /\ BeginWalk
    /\ UNCHANGED <<link, value>>

\* BLE_EVT_USER_MEM_REQUEST.
DispatchRequest ==
    /\ Takes("request")
    /\ Reply
    /\ UNCHANGED <<link, value, pc, locals>>

\* Faulty variant: the locals are those of the last event.
ReleaseNotCleared ==
    /\ Takes("release")
    /\ pc' = "walk" /\ i' = 0
    /\ UNCHANGED <<link, owner, value, buffer, data, len>>

\* BLE_EVT_USER_MEM_RELEASE.
DispatchRelease ==
    /\ Takes("release")
    /\ BeginWalk
    /\ UNCHANGED <<link, owner, value, buffer>>

DispatchDisconnected ==
    /\ Takes("disconnected")
    /\ UNCHANGED <<link, owner, value, buffer, pc, locals>>

Read16(pos) == m_queued[pos] + ByteSize * m_queued[pos + 1]
ValueOffset == Read16(i + MEM_OFFSET)
ValueLen == Read16(i + MEM_LEN)

\* The bytes of the piece at i, at their offset.
Copied(offset) ==
    [p \in Position |->
        IF p \in offset .. offset + ValueLen - 1
        THEN m_queued[i + SIZE_HEADER + p - offset] ELSE data[p]]

\* Faulty variants: the loop goes on one byte too early, and not at all.
WalkOneShort ==
    /\ pc = "walk" /\ m_queued[i] # 0
    /\ data' = Copied(ValueOffset)
    /\ len' = len + ValueLen
    /\ i' = i + SIZE_HEADER + ValueLen - 1
    /\ UNCHANGED <<peer, buffer, pc>>

WalkStays ==
    /\ pc = "walk" /\ m_queued[i] # 0
    /\ data' = Copied(ValueOffset)
    /\ UNCHANGED <<peer, buffer, pc, i, len>>

\* One turn of the loop.
Walk ==
    /\ pc = "walk" /\ m_queued[i] # 0
    /\ data' = Copied(ValueOffset)
    /\ len' = len + ValueLen
    /\ i' = i + SIZE_HEADER + ValueLen
    /\ UNCHANGED <<peer, buffer, pc>>

\* data_handler is called with data and len.
WalkEnds ==
    /\ pc = "walk" /\ m_queued[i] = 0
    /\ pc' = "data_handler"
    /\ UNCHANGED <<peer, buffer, locals>>

Return ==
    /\ pc = "data_handler"
    /\ pc' = "idle"
    /\ UNCHANGED <<peer, buffer, locals>>

Environment ==
    PeerConnects \/ PhoneBegins \/ PhonePrepares \/ PhoneEnds \/ LinkLost

Dispatch == DispatchRequest \/ DispatchRelease \/ DispatchDisconnected
HandlerStep == Walk \/ WalkEnds \/ Return

Next == Environment \/ Dispatch \/ HandlerStep

Spec == Init /\ [][Next]_vars

\* A handler that has begun goes on; waiting events are dispatched.
FairSpec == Spec /\ WF_vars(HandlerStep) /\ WF_vars(Dispatch)
-----------------------------------------------------------------------------
TypeOK ==
    /\ link \in BOOLEAN /\ owner \in {"none", "requested", "given"}
    /\ evq \in Seq(Events) /\ value \in Values \cup {<<>>}
    /\ sent \in Seq(Byte) /\ tail \in Position
    /\ m_queued \in [Position -> Byte]
    /\ pc \in {"idle", "walk", "data_handler"}
    /\ i \in Position /\ data \in [Position -> Byte] /\ len \in Position

\* The program never reads the buffer while the SoftDevice may write into it,
\* although a new write can begin while the last one waits to be handled.
ReadWhenGivenBack == pc = "walk" => owner # "given"

\* What is handed over is what the phone wrote in this write: no byte of an
\* earlier, longer one, none missing, each in its place.
HandedIsWritten ==
    pc = "data_handler" => [k \in 1 .. len |-> data[k - 1]] = sent

\* With full pieces of an even size the 16-bit fields of every header lie at
\* even addresses, which the processor requires.
HeadersAligned == pc = "walk" /\ m_queued[i] # 0 => i % 2 = 0

\* Every write is handed over once it is given back, also one that was
\* cancelled or whose link was lost: the walk always finds the zero.
EveryWriteHandled ==
    (\E k \in DOMAIN evq : evq[k] = "release") ~> pc = "data_handler"
=============================================================================
