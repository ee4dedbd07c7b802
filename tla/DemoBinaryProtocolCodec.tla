----------------------- MODULE DemoBinaryProtocolCodec -----------------------
(***************************************************************************)
(* The incremental decoder: append() moves the bytes it is given into      *)
(* m_buffer, as many at a time as there is room for, and parseAvailable()  *)
(* takes frames and noise off the front of the buffer.  Every iteration of *)
(* the two loops is a step.  encode() and the frame mutations change no    *)
(* state: they are in Frames.                                              *)
(*                                                                         *)
(* The peer sends one of Streams, cut by TCP in any way; a diagnostic's    *)
(* message is left out.                                                    *)
(*                                                                         *)
(* A definition whose comment begins "Seeded fault" is a wrong variant of  *)
(* the one after it; PROJECT.json names the property that rejects it.      *)
(***************************************************************************)
EXTENDS Frames

CONSTANTS
    Codec,          \* DemoBinaryProtocolOptions
    Streams         \* the byte sequences a peer may send on one connection

VARIABLES
    m_buffer,       \* bytes received and not yet decoded or discarded
    data, offset,   \* the argument of the running append, and what of it is in the buffer
    result,         \* the ProtocolDecodeResult the running append will return
    pc,             \* "idle" between two calls, "parse" or "fill" in a call
    stream,         \* what the peer of this connection sends
    arrived,        \* how many of its bytes append() has been called with
    found,          \* history: the requests that append() has returned
    reported,       \* history: discarded bytes in the diagnostics it has returned
    taken           \* history: offsets in stream of the frames taken off the buffer

vars == <<m_buffer, data, offset, result, pc, stream, arrived, found, reported, taken>>

ASSUME CodecAssumption == ValidCodecOptions(Codec) /\ Codec.version \in Byte

ASSUME StreamsAssumption == Streams \subseteq Seq(Byte)

NoResult == [requests |-> <<>>, diagnostics |-> <<>>]

Diagnostic == [code : {"NoiseDiscarded", "InvalidFrameLength", "ChecksumMismatch",
                       "InvalidVersion", "BufferLimitExceeded"},
               discardedByteCount : Nat]

DiscardedBytes(r) ==
    Total([i \in DOMAIN r.diagnostics |-> r.diagnostics[i].discardedByteCount])

Diagnose(r, code, count) ==
    [r EXCEPT !.diagnostics = Append(@, [code |-> code, discardedByteCount |-> count])]

\* How many bytes of stream have been put into the buffer, and removed from it.
Buffered == arrived - (Len(data) - offset)
Removed == Buffered - Len(m_buffer)

\* Seeded fault: one byte too many is accepted.
FitsLimitByOneMore(buffer) == PayloadLength(buffer) <= Codec.maxPayloadLength + 1

FitsLimit(buffer) == PayloadLength(buffer) <= Codec.maxPayloadLength

Init ==
    /\ m_buffer = <<>> /\ data = <<>> /\ offset = 0 /\ result = NoResult /\ pc = "idle"
    /\ stream \in Streams /\ arrived = 0
    /\ found = <<>> /\ reported = 0 /\ taken = {}

-----------------------------------------------------------------------------
(* append() is called with the next bytes of the stream, and ends the     *)
(* first time parseAvailable() returns with nothing left to put into the   *)
(* buffer.                                                                 *)

AppendCall ==
    /\ pc = "idle"
    /\ \E count \in 1..(Len(stream) - arrived) :
        /\ data' = Mid(stream, arrived, count)
        /\ arrived' = arrived + count
    /\ offset' = 0 /\ pc' = "parse"
    /\ UNCHANGED <<stream, found, m_buffer, result, taken, reported>>

\* parseAvailable returns, having built r and left buffer.
ParseReturns(buffer, r) ==
    /\ m_buffer' = buffer
    /\ IF offset < Len(data)
       THEN /\ result' = r /\ pc' = "fill"
            /\ UNCHANGED <<data, offset, found, reported>>
       ELSE /\ found' = found \o r.requests
            /\ reported' = reported + DiscardedBytes(r)
            /\ result' = NoResult /\ data' = <<>> /\ offset' = 0 /\ pc' = "idle"
    /\ UNCHANGED <<stream, arrived, taken>>

\* Seeded fault: the room is taken for granted to be filled.
FillBufferBlindly ==
    /\ pc = "fill"
    /\ m_buffer' = m_buffer \o Without(data, offset)
    /\ offset' = offset + (Codec.maxBufferedBytes - Len(m_buffer))
    /\ pc' = "parse"
    /\ UNCHANGED <<data, result, stream, arrived, found, reported, taken>>

FillBuffer ==
    /\ pc = "fill"
    /\ IF Len(m_buffer) = Codec.maxBufferedBytes
       THEN /\ m_buffer' = Without(m_buffer, 1)
            /\ result' = Diagnose(result, "BufferLimitExceeded", 1)
            /\ UNCHANGED offset
       ELSE LET room == Codec.maxBufferedBytes - Len(m_buffer)
                left == Len(data) - offset
                count == IF room < left THEN room ELSE left
            IN  /\ m_buffer' = m_buffer \o Mid(data, offset, count)
                /\ offset' = offset + count
                /\ UNCHANGED result
    /\ pc' = "parse"
    /\ UNCHANGED <<data, stream, arrived, found, reported, taken>>

-----------------------------------------------------------------------------
(* The iterations of parseAvailable(). *)

\* Drop count bytes off the front of the buffer and go on parsing.
Discard(code, count) ==
    /\ m_buffer' = Without(m_buffer, count)
    /\ result' = Diagnose(result, code, count)
    /\ UNCHANGED <<data, offset, pc, stream, arrived, found, reported>>

HeaderIsFirst == pc = "parse" /\ FindHeader(m_buffer) = 0

FrameArrived == HasFrameLength(m_buffer) /\ FitsLimit(m_buffer)
                    /\ Len(m_buffer) >= FrameLength(m_buffer)

FirstFrame == Mid(m_buffer, 0, FrameLength(m_buffer))

BufferEmpty == pc = "parse" /\ m_buffer = <<>> /\ ParseReturns(m_buffer, result)

\* Seeded fault: all noise is dropped, the first half of a header included.
DiscardAllNoiseAndHeader ==
    /\ pc = "parse" /\ m_buffer # <<>> /\ FindHeader(m_buffer) < 0
    /\ ParseReturns(<<>>, Diagnose(result, "NoiseDiscarded", Len(m_buffer)))

\* Seeded fault: the byte that is kept is reported, too.
DiscardAllNoiseMiscounted ==
    /\ pc = "parse" /\ m_buffer # <<>> /\ FindHeader(m_buffer) < 0
    /\ LET retained == IF ByteAt(m_buffer, Len(m_buffer) - 1) = HeaderFirst THEN 1 ELSE 0
       IN  ParseReturns(Without(m_buffer, Len(m_buffer) - retained),
                        Diagnose(result, "NoiseDiscarded", Len(m_buffer)))

\* Without a header only a last byte that may begin one is kept.
DiscardAllNoise ==
    /\ pc = "parse" /\ m_buffer # <<>> /\ FindHeader(m_buffer) < 0
    /\ LET retained == IF ByteAt(m_buffer, Len(m_buffer) - 1) = HeaderFirst THEN 1 ELSE 0
           discarded == Len(m_buffer) - retained
       IN  ParseReturns(Without(m_buffer, discarded),
                        IF discarded > 0 THEN Diagnose(result, "NoiseDiscarded", discarded)
                                         ELSE result)

DiscardNoise ==
    /\ pc = "parse" /\ FindHeader(m_buffer) > 0
    /\ Discard("NoiseDiscarded", FindHeader(m_buffer))
    /\ UNCHANGED taken

\* Seeded fault: the loop goes on instead of waiting.
WaitInLoop ==
    /\ HeaderIsFirst
    /\ HasFrameLength(m_buffer) =>
           FitsLimit(m_buffer) /\ Len(m_buffer) < FrameLength(m_buffer)
    /\ UNCHANGED vars

WaitForBytes ==
    /\ HeaderIsFirst
    /\ HasFrameLength(m_buffer) =>
           FitsLimit(m_buffer) /\ Len(m_buffer) < FrameLength(m_buffer)
    /\ ParseReturns(m_buffer, result)

RejectLength ==
    /\ HeaderIsFirst /\ HasFrameLength(m_buffer) /\ ~FitsLimit(m_buffer)
    /\ Discard("InvalidFrameLength", 1)
    /\ UNCHANGED taken

\* Seeded fault: the length of a frame with a wrong checksum is trusted.
RejectChecksumAndFrame ==
    /\ HeaderIsFirst /\ FrameArrived /\ ~ChecksumMatches(FirstFrame)
    /\ Discard("ChecksumMismatch", FrameLength(m_buffer))
    /\ UNCHANGED taken

RejectChecksum ==
    /\ HeaderIsFirst /\ FrameArrived /\ ~ChecksumMatches(FirstFrame)
    /\ Discard("ChecksumMismatch", 1)
    /\ UNCHANGED taken

RejectVersion ==
    /\ HeaderIsFirst /\ FrameArrived /\ ChecksumMatches(FirstFrame)
    /\ ByteAt(FirstFrame, VersionOffset) # Codec.version
    /\ Discard("InvalidVersion", FrameLength(m_buffer))
    /\ taken' = taken \cup {Removed}

TakeRequest ==
    /\ HeaderIsFirst /\ FrameArrived /\ ChecksumMatches(FirstFrame)
    /\ ByteAt(FirstFrame, VersionOffset) = Codec.version
    /\ result' = [result EXCEPT !.requests = Append(@, ProtocolRequest(FirstFrame))]
    /\ m_buffer' = Without(m_buffer, FrameLength(m_buffer))
    /\ taken' = taken \cup {Removed}
    /\ UNCHANGED <<data, offset, pc, stream, arrived, found, reported>>

-----------------------------------------------------------------------------
\* Seeded fault: the buffer survives.
ResetKeepingBuffer ==
    /\ pc = "idle"
    /\ stream' \in Streams /\ arrived' = 0
    /\ found' = <<>> /\ reported' = 0 /\ taken' = {}
    /\ UNCHANGED <<m_buffer, data, offset, result, pc>>

\* reset(), for another stream.  The server drops the codec with its session
\* and makes another for the next one, which begins in the same way.
Reset ==
    /\ pc = "idle"
    /\ m_buffer' = <<>>
    /\ stream' \in Streams /\ arrived' = 0
    /\ found' = <<>> /\ reported' = 0 /\ taken' = {}
    /\ UNCHANGED <<data, offset, result, pc>>

Running ==
    \/ FillBuffer \/ BufferEmpty \/ DiscardAllNoise \/ DiscardNoise \/ WaitForBytes
    \/ RejectLength \/ RejectChecksum \/ RejectVersion \/ TakeRequest

Next == AppendCall \/ Running \/ Reset

\* A call runs to its end on one thread; nothing obliges the peer to send.
Spec == Init /\ [][Next]_vars /\ WF_vars(Running)
=============================================================================
