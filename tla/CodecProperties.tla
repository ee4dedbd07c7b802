--------------------------- MODULE CodecProperties ---------------------------
(***************************************************************************)
(* What DemoBinaryProtocolCodec guarantees.  FrameStream is its abstract   *)
(* specification.                                                          *)
(***************************************************************************)
EXTENDS DemoBinaryProtocolCodec

CONSTANT Sessions       \* what a simulator may send: sequences of items, see OnWire

Request ==
    [version : Byte, command : Byte, sequence : 0..MaxUInt16, payload : Seq(Byte),
     rawData : Seq(Byte)]

\* Types, and how much of the stream each variable stands for.
TypeOK ==
    /\ stream \in Streams /\ arrived \in 0..Len(stream)
    /\ m_buffer \in Seq(Byte) /\ data \in Seq(Byte) /\ offset \in 0..Len(data)
    /\ Len(data) <= arrived
    /\ result \in [requests : Seq(Request), diagnostics : Seq(Diagnostic)]
    /\ found \in Seq(Request) /\ reported \in Nat
    /\ pc \in {"idle", "parse", "fill"}
    /\ pc = "idle" => data = <<>> /\ result = NoResult
    /\ pc = "fill" => offset < Len(data)
    /\ taken \subseteq 0..Len(stream)

\* Outside parseAvailable() less than one full frame is held back: so append()
\* always finds room, BufferLimitExceeded is never reported, and the bytes kept
\* of a peer that never completes a frame are bounded
\* (DemoBinaryProtocolCodec.cpp:91-108, 246-249).
OneFrameHeldBack ==
    pc # "parse" => Len(m_buffer) < Codec.maxPayloadLength + FixedFrameOverhead

-----------------------------------------------------------------------------
(* Resynchronisation. *)

\* The bytes put into the buffer so far, from offset on.
StreamFrom(from) == Mid(stream, from, Buffered - from)

\* A whole frame with the right checksum starts at offset from.
WholeFrameAt(from) ==
    LET bytes == StreamFrom(from)
    IN  /\ Len(bytes) >= PayloadOffset
        /\ bytes[1] = HeaderFirst /\ bytes[2] = HeaderSecond
        /\ FitsLimit(bytes) /\ Len(bytes) >= FrameLength(bytes)
        /\ ChecksumMatches(Mid(bytes, 0, FrameLength(bytes)))

EndOfFrame(from) == from + FrameLength(StreamFrom(from))

InsideTaken(from) == \E t \in taken : t < from /\ from < EndOfFrame(t)

\* Noise, bad lengths and bad checksums swallow nothing: of the bytes that have
\* left the buffer, exactly the whole frames were taken as frames, except those
\* inside a frame taken before them (DemoBinaryProtocolCodec.cpp:203-287).
FramesFound ==
    \A from \in 0..(Removed - 1) :
        from \in taken <=> WholeFrameAt(from) /\ ~InsideTaken(from)

\* Every byte of the stream is still in the buffer, or in the raw data of a
\* request, or counted by exactly one diagnostic, when append() returns
\* (DemoBinaryProtocolCodec.cpp:208-285).
BytesAccounted ==
    pc = "idle" =>
        arrived = Total([i \in DOMAIN found |-> Len(found[i].rawData)])
                      + reported + Len(m_buffer)

-----------------------------------------------------------------------------
(* What encode() wrote is what append() reads. *)

\* What a simulator may send: messages that the decoder's limits allow.
SentMessage ==
    {m \in [version : {Codec.version}, command : Byte, sequence : 0..MaxUInt16,
            payload : Seq(Byte)] : Len(m.payload) <= Codec.maxPayloadLength}

\* A message as it is sent: its noise, then its frame, the checksum of which may
\* be falsified (DeviceSimulatorServer.cpp:575-617).
Item == [message : SentMessage, corrupted : BOOLEAN, noise : Seq(Byte)]

FrameSent(item) ==
    IF item.corrupted THEN CorruptChecksum(Encode(item.message)) ELSE Encode(item.message)

OnWire(item) == item.noise \o FrameSent(item)

StreamOf(items) == FlattenSeq([n \in DOMAIN items |-> OnWire(items[n])])

FirstItems(session, n) == SubSeq(session, 1, n)

HeaderAt(bytes, p) ==
    /\ p + 1 < Len(bytes)
    /\ ByteAt(bytes, p) = HeaderFirst /\ ByteAt(bytes, p + 1) = HeaderSecond

\* Nothing in the noise and in the falsified frames looks like a header, but
\* for the header of each frame.
Plain(session) ==
    \A n \in DOMAIN session :
        LET start == Len(StreamOf(FirstItems(session, n - 1)))
            begin == start + Len(session[n].noise)
            end == Len(StreamOf(FirstItems(session, n)))
        IN  \A p \in start..(end - 1) :
                HeaderAt(StreamOf(session), p)
                    => p = begin \/ (p > begin /\ ~session[n].corrupted)

\* What looks like a header claims up to maxPayloadLength bytes that follow, so
\* nothing could be said of what comes after noise of any content.
ASSUME SessionsAssumption == \A session \in Sessions : session \in Seq(Item) /\ Plain(session)

\* The items whose last byte has arrived.
WhollyArrived(session) ==
    FirstItems(session, Cardinality({n \in DOMAIN session :
                                         Len(StreamOf(FirstItems(session, n))) <= arrived}))

\* The messages of those items whose checksum is right.
IntactMessages(items) ==
    FlattenSeq([n \in DOMAIN items |->
                   IF items[n].corrupted THEN <<>> ELSE <<items[n].message>>])

Sent(request) ==
    [version |-> request.version, command |-> request.command,
     sequence |-> request.sequence, payload |-> request.payload]

\* Of what a simulator sends, every message gets through unchanged, in order
\* and as soon as its last byte arrives, but for those whose checksum was
\* falsified, which never do - wherever TCP cuts the stream, whatever noise
\* comes first and whatever the payloads of the others contain; nothing of an
\* earlier stream is left after reset()
\* (DemoBinaryProtocolCodec.cpp:86-169, 203-287).
MessagesGetThrough ==
    pc = "idle" =>
        \A session \in Sessions :
            stream = StreamOf(session) =>
                [i \in DOMAIN found |-> Sent(found[i])] = IntactMessages(WhollyArrived(session))

-----------------------------------------------------------------------------
\* The bytes of a running append() count once it has returned.
Abstract == INSTANCE FrameStream WITH arrived <- arrived - Len(data)

\* The requests returned depend on the bytes alone, never on how they were cut
\* into calls: the codec implements FrameStream
\* (DemoBinaryProtocolCodec.cpp:86-112, 203-287).
StreamDecoded == Abstract!Service

\* append() returns: neither of its two loops spins on bytes that neither fit
\* nor parse (DemoBinaryProtocolCodec.cpp:91-111, 205-286).
AppendReturns == (pc # "idle") ~> (pc = "idle")
=============================================================================
