----------------------------- MODULE FrameStream -----------------------------
(***************************************************************************)
(* What a decoder of the demo protocol promises: the requests found so far *)
(* are those of the bytes that have arrived so far, read from the front,   *)
(* however the bytes were cut into pieces on the way.  The reading is      *)
(* given once and for all, by ReadFrom: there is no buffer here.           *)
(***************************************************************************)
EXTENDS Frames

CONSTANTS
    Codec,          \* DemoBinaryProtocolOptions of the decoder
    Streams         \* the byte sequences a peer may send on one connection

VARIABLES
    stream,         \* what the peer of this connection sends
    arrived,        \* how many of its bytes have been decoded
    found           \* the requests found in them

vars == <<stream, arrived, found>>

-----------------------------------------------------------------------------
BeginsLikeHeader(data) ==
    /\ data[1] = HeaderFirst
    /\ Len(data) > 1 => data[2] = HeaderSecond

FitsLimit(data) == PayloadLength(data) <= Codec.maxPayloadLength

\* A frame may start here, but its bytes have not all arrived.
Undecided(data) ==
    /\ BeginsLikeHeader(data)
    /\ HasFrameLength(data) => FitsLimit(data) /\ Len(data) < FrameLength(data)

\* A whole frame with the right checksum starts here, of whatever version.
WholeFrame(data) ==
    /\ HasFrameLength(data) /\ BeginsLikeHeader(data)
    /\ FitsLimit(data) /\ Len(data) >= FrameLength(data)
    /\ ChecksumMatches(Mid(data, 0, FrameLength(data)))

ReadFrame(frame) ==
    IF ByteAt(frame, VersionOffset) = Codec.version THEN <<ProtocolRequest(frame)>> ELSE <<>>

\* The requests in data: whole frames are taken from the left, and where none
\* starts the reading moves on by a single byte.
RequestsIn(data) ==
    LET ReadFrom[p \in 0..Len(data)] ==
            LET rest == Without(data, p)
            IN  IF rest = <<>> THEN <<>>
                ELSE IF WholeFrame(rest)
                THEN ReadFrame(Mid(rest, 0, FrameLength(rest))) \o ReadFrom[p + FrameLength(rest)]
                ELSE IF Undecided(rest) THEN <<>> ELSE ReadFrom[p + 1]
    IN  ReadFrom[0]

-----------------------------------------------------------------------------
Init == stream \in Streams /\ arrived = 0 /\ found = <<>>

\* More bytes arrive, and what they complete is found at once.
Arrive ==
    /\ arrived' \in (arrived + 1)..Len(stream)
    /\ found' = RequestsIn(Mid(stream, 0, arrived'))
    /\ UNCHANGED stream

\* Another connection: nothing of the last one is left.
Restart == stream' \in Streams /\ arrived' = 0 /\ found' = <<>>

Next == Arrive \/ Restart

Service == Init /\ [][Next]_vars
=============================================================================
